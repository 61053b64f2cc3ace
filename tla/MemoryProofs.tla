---------------------------- MODULE MemoryProofs ----------------------------
(***************************************************************************)
(* Proofs about the memory of a generation: the pool that shares it out,   *)
(* for every number of tables and threads, every budget and every policy;  *)
(* one slot of a shared cache on C11 relaxed memory, for every number of   *)
(* threads, pages and words, and every end of the sequence; and the        *)
(* resizing, for every number of pages and migration workers, however they *)
(* divide the slots.                                                       *)
(***************************************************************************)
EXTENDS DependencyPool, SharedCache, CacheResize, FiniteSetTheorems, WellFoundedInduction, TLAPS

-----------------------------------------------------------------------------
(***************************************************************************)
(* The slot of a shared cache.                                             *)
(***************************************************************************)
LEMMA EvenBound ==
  ASSUME NEW s \in Nat, s % 2 = 0, NEW k \in Nat, s + 2 <= 2 * k, 2 * k <= s + 3
  PROVE  2 * k = s + 2
OBVIOUS

LEMMA EvenNext ==
  ASSUME NEW s \in Nat, s % 2 = 0
  PROVE  /\ (s + 1) % 2 = 1 /\ (s + 2) % 2 # 1 /\ (s + 1 + 1) % 2 # 1 /\ (s + 3) % 2 = 1
OBVIOUS

LEMMA OneApart ==
  ASSUME NEW s \in Nat, NEW a \in Nat, NEW b \in Nat, 2 * a = s + 4, 2 * b = s + 2
  PROVE  a = b + 1
OBVIOUS

LEMMA EvenBefore ==
  ASSUME NEW n \in Nat \ {0}, (n - 1) % 2 = 0
  PROVE  n % 2 = 1
OBVIOUS

LEMMA NoWrap ==
  ASSUME NEW s \in Nat, NEW m \in Nat, s <= m
  PROVE  s % (m + 1) = s
OBVIOUS

LEMMA LocationFacts ==
  /\ SeqAt \in Location /\ TagAt \in Payload /\ 1 .. Words \subseteq Payload
  /\ Payload \subseteq Location /\ SeqAt \notin Payload
  /\ \A l \in Location : l = SeqAt \/ l \in Payload
  /\ \A l \in Payload : l = TagAt \/ l \in 1 .. Words
  /\ TagAt \notin 1 .. Words /\ TagAt = Words + 1 /\ Location \subseteq Int
BY CacheAssumption DEF SeqAt, TagAt, Location, Payload

(* A joined view knows of what either did. *)
LEMMA JoinFacts ==
  ASSUME NEW u \in Views, NEW v \in Views
  PROVE  /\ Join(u, v) \in Views
         /\ \A l \in Location : u[l] <= Join(u, v)[l] /\ v[l] <= Join(u, v)[l]
<1>1. \A l \in Location : u[l] \in Nat \ {0} /\ v[l] \in Nat \ {0}
  BY DEF Views
<1>2. \A l \in Location : Join(u, v)[l] = IF u[l] > v[l] THEN u[l] ELSE v[l]
  BY DEF Join
<1>3. \A l \in Location : u[l] <= Join(u, v)[l] /\ v[l] <= Join(u, v)[l]
  BY <1>1, <1>2
<1>4. Join(u, v) \in Views
  BY <1>1 DEF Join, Views
<1> QED BY <1>3, <1>4

(* Every read finds a message. *)
LEMMA MessageFacts ==
  ASSUME MemoryInv, NEW l \in Location
  PROVE  /\ Len(memory[l]) \in Nat \ {0}
         /\ \A n \in 1 .. Len(memory[l]) :
              /\ memory[l][n] \in Messages(l) /\ memory[l][n].view \in Views
              /\ memory[l][n].val \in Values(l)
<1>1. memory[l] \in Seq(Messages(l)) /\ Len(memory[l]) > 0
  BY DEF MemoryInv
<1>2. \A n \in 1 .. Len(memory[l]) : memory[l][n] \in Messages(l)
  BY <1>1
<1> QED BY <1>1, <1>2 DEF Messages

LEMMA ReadableFacts ==
  ASSUME MemoryInv, NEW t \in Prober, cur[t] \in Views, NEW l \in Location,
         NEW n \in Readable(t, l)
  PROVE  /\ n \in 1 .. Len(memory[l]) /\ n \in Nat \ {0} /\ cur[t][l] <= n
         /\ memory[l][n].view \in Views
         /\ Seen(t, l, n) \in Views
         /\ \A k \in Location : cur[t][k] <= Seen(t, l, n)[k]
         /\ Seen(t, l, n)[l] = n
<1>1. \A k \in Location : cur[t][k] \in Nat \ {0}
  BY DEF Views
<1>2. n \in 1 .. Len(memory[l]) /\ n \in Nat \ {0} /\ cur[t][l] <= n
  BY <1>1, MessageFacts DEF Readable
<1>3. Seen(t, l, n) = [cur[t] EXCEPT ![l] = n]
  BY DEF Seen
<1>4. \A k \in Location : Seen(t, l, n)[k] = IF k = l THEN n ELSE cur[t][k]
  BY <1>3 DEF Views
<1>5. Seen(t, l, n) \in Views
  BY <1>1, <1>2, <1>3 DEF Views
<1> QED BY <1>1, <1>2, <1>4, <1>5, MessageFacts

(* What a store adds, and what it leaves alone. *)
LEMMA AppendFacts ==
  ASSUME MemoryInv, NEW l \in Location, NEW v, NEW view \in Views,
         v \in Values(l),
         Append1(l, v, view)
  PROVE  /\ memory' = [k \in Location |-> memory'[k]]
         /\ \A k \in Location : memory'[k] \in Seq(Messages(k))
         /\ \A k \in Location : k # l => memory'[k] = memory[k]
         /\ Len(memory'[l]) = Len(memory[l]) + 1
         /\ \A n \in 1 .. Len(memory[l]) : memory'[l][n] = memory[l][n]
         /\ memory'[l][Len(memory[l]) + 1].val = v
         /\ memory'[l][Len(memory[l]) + 1].view = view
<1> DEFINE m == Message(l, v, view)
<1>1. m \in Messages(l) /\ m.val = v /\ m.view = view
  BY DEF Message, Messages
<1>2. memory[l] \in Seq(Messages(l))
  BY DEF MemoryInv
<1> HIDE DEF m
<1>3. memory' = [memory EXCEPT ![l] = Append(memory[l], m)]
  BY DEF Append1, m
<1>4. /\ memory' = [k \in Location |-> memory'[k]]
      /\ \A k \in Location : memory'[k] = IF k = l THEN Append(memory[l], m) ELSE memory[k]
  BY <1>3 DEF MemoryInv
<1>5. /\ Append(memory[l], m) \in Seq(Messages(l))
      /\ Len(Append(memory[l], m)) = Len(memory[l]) + 1
      /\ \A n \in 1 .. Len(memory[l]) : Append(memory[l], m)[n] = memory[l][n]
      /\ Append(memory[l], m)[Len(memory[l]) + 1] = m
  BY <1>1, <1>2
<1>6. \A k \in Location : memory[k] \in Seq(Messages(k))
  BY DEF MemoryInv
<1> QED BY <1>1, <1>4, <1>5, <1>6

(* What a reader knows stays true while others add messages. *)
Grown ==
  \A l \in Location :
    /\ Len(memory[l]) <= Len(memory'[l])
    /\ \A n \in 1 .. Len(memory[l]) : memory'[l][n] = memory[l][n]

LEMMA ReaderKept ==
  ASSUME SlotInv, NEW t \in Prober, Grown,
         \A l \in Location : Len(memory'[l]) \in Nat,
         pc'[t] = pc[t], page'[t] = page[t], word'[t] = word[t], seq'[t] = seq[t],
         value'[t] = value[t], cur'[t] = cur[t], acq'[t] = acq[t]
  PROVE  ReaderInv(t)'
<1>1. ReaderInv(t) /\ MemoryInv
  BY DEF SlotInv
<1>2. \A l \in Location : Len(memory[l]) \in Nat
  BY <1>1, MessageFacts
<1>3. \A l \in Location : \A n \in 1 .. Len(memory[l]) :
        n \in 1 .. Len(memory'[l]) /\ memory'[l][n] = memory[l][n]
  BY <1>2 DEF Grown
<1>4. ASSUME pc[t] = "word"
      PROVE  \E n \in 1 .. Len(memory'[TagAt]) :
               /\ memory'[TagAt][n].val = page'[t]
               /\ seq'[t] + 2 <= 2 * n /\ 2 * n <= acq'[t][SeqAt] + 2
  <2>1. PICK n \in 1 .. Len(memory[TagAt]) :
          /\ memory[TagAt][n].val = page[t]
          /\ seq[t] + 2 <= 2 * n /\ 2 * n <= acq[t][SeqAt] + 2
    BY <1>1, <1>4 DEF ReaderInv
  <2> QED BY <1>3, <2>1, LocationFacts
<1>5. ASSUME pc[t] = "after"
      PROVE  \E n \in 1 .. Len(memory'[TagAt]), m \in 1 .. Len(memory'[word'[t]]) :
               /\ memory'[TagAt][n].val = page'[t] /\ memory'[word'[t]][m].val = value'[t]
               /\ seq'[t] + 2 <= 2 * n /\ 2 * n <= cur'[t][SeqAt] + 2
               /\ seq'[t] + 2 <= 2 * m /\ 2 * m <= cur'[t][SeqAt] + 2
  <2>1. PICK n \in 1 .. Len(memory[TagAt]), m \in 1 .. Len(memory[word[t]]) :
          /\ memory[TagAt][n].val = page[t] /\ memory[word[t]][m].val = value[t]
          /\ seq[t] + 2 <= 2 * n /\ 2 * n <= cur[t][SeqAt] + 2
          /\ seq[t] + 2 <= 2 * m /\ 2 * m <= cur[t][SeqAt] + 2
    BY <1>1, <1>5 DEF ReaderInv
  <2>2. word[t] \in Location
    BY <1>1, <1>5, LocationFacts DEF ReaderInv
  <2> QED BY <1>3, <2>1, <2>2, LocationFacts
<1> QED BY <1>1, <1>4, <1>5 DEF ReaderInv

(* A step of t leaves the other threads alone. *)
Others(t) ==
  \A u \in Prober \ {t} :
    /\ pc'[u] = pc[u] /\ page'[u] = page[u] /\ word'[u] = word[u] /\ seq'[u] = seq[u]
    /\ value'[u] = value[u] /\ cur'[u] = cur[u] /\ acq'[u] = acq[u] /\ rel'[u] = rel[u]

(* A step that only reads. *)
LEMMA ReadStep ==
  ASSUME SlotInv, NEW t \in Prober, UNCHANGED memory, ThreadsInv', Others(t),
         pc[t] \notin Writing, pc'[t] \notin Writing, ReaderInv(t)'
  PROVE  SlotInv'
<1>1. MemoryInv'
  BY DEF SlotInv, MemoryInv
<1>2. Grown /\ \A l \in Location : Len(memory'[l]) \in Nat
  <2>1. \A l \in Location : Len(memory[l]) \in Nat
    BY MessageFacts DEF SlotInv
  <2> QED BY <2>1 DEF Grown
<1>3. ASSUME NEW u \in Prober PROVE WriterInv(u)' /\ ReaderInv(u)'
  <2>1. CASE u = t
    BY <2>1 DEF WriterInv
  <2>2. CASE u # t
    <3>1. /\ pc'[u] = pc[u] /\ page'[u] = page[u] /\ word'[u] = word[u] /\ seq'[u] = seq[u]
          /\ value'[u] = value[u] /\ cur'[u] = cur[u] /\ acq'[u] = acq[u] /\ rel'[u] = rel[u]
      BY <2>2 DEF Others
    <3>2. ReaderInv(u)'
      BY <1>2, <3>1, ReaderKept
    <3>3. WriterInv(u)
      BY DEF SlotInv
    <3>4. WriterInv(u)'
      BY <3>1, <3>3 DEF WriterInv, Replaced
    <3> QED BY <3>2, <3>4
  <2> QED BY <2>1, <2>2
<1>4. \A u \in Prober : pc'[u] \in Writing => u # t /\ pc[u] \in Writing
  BY DEF Others
<1> QED BY <1>1, <1>3, <1>4 DEF SlotInv

(* A step that adds a message, of the only writer. *)
LEMMA WriteStep ==
  ASSUME SlotInv, NEW t \in Prober, Grown, MemoryInv', ThreadsInv', Others(t),
         \A u \in Prober \ {t} : pc[u] \notin Writing,
         WriterInv(t)', ReaderInv(t)',
         Len(memory'[SeqAt]) % 2 = 1 =>
           pc'[t] \notin Writing /\ \A l \in Payload : 2 * Len(memory'[l]) = Len(memory'[SeqAt]) + 1
  PROVE  SlotInv'
<1>1. \A l \in Location : Len(memory'[l]) \in Nat
  <2>1. \A l \in Location : memory'[l] \in Seq(Messages(l)')
    BY DEF MemoryInv
  <2> QED BY <2>1
<1>2. \A u \in Prober \ {t} : pc'[u] \notin Writing
  BY DEF Others
<1>3. ASSUME NEW u \in Prober PROVE WriterInv(u)' /\ ReaderInv(u)'
  <2>1. CASE u # t
    <3>1. /\ pc'[u] = pc[u] /\ page'[u] = page[u] /\ word'[u] = word[u] /\ seq'[u] = seq[u]
          /\ value'[u] = value[u] /\ cur'[u] = cur[u] /\ acq'[u] = acq[u]
      BY <2>1 DEF Others
    <3>2. ReaderInv(u)'
      BY <1>1, <3>1, ReaderKept
    <3>3. WriterInv(u)'
      BY <1>2, <2>1 DEF WriterInv
    <3> QED BY <3>2, <3>3
  <2> QED BY <2>1
<1> QED BY <1>2, <1>3 DEF SlotInv

-----------------------------------------------------------------------------
(***************************************************************************)
(* The steps of a lookup.                                                  *)
(***************************************************************************)
LEMMA ThreadFacts ==
  ASSUME SlotInv, NEW t \in Prober
  PROVE  /\ MemoryInv /\ ThreadsInv /\ WriterInv(t) /\ ReaderInv(t)
         /\ cur[t] \in Views /\ acq[t] \in Views /\ rel[t] \in Views
         /\ pc[t] \in SlotSteps /\ page[t] \in SlotPage /\ word[t] \in 1 .. Words + 1
         /\ seq[t] \in 0 .. SeqMax /\ value[t] \in SlotPage \cup {NoPage}
         /\ \A l \in Location : /\ cur[t][l] \in Nat \ {0} /\ acq[t][l] \in Nat \ {0}
                               /\ rel[t][l] \in Nat \ {0}
BY DEF SlotInv, ThreadsInv, Views

LEMMA LookupStep ==
  ASSUME SlotInv, NEW t \in Prober, NEW p \in SlotPage, NEW w \in 1 .. Words, Lookup(t, p, w)
  PROVE  SlotInv'
<1>1. ThreadsInv' /\ Others(t)
  BY CacheAssumption, ThreadFacts DEF Lookup, Goto, ThreadsInv, Others, SlotSteps
<1>2. pc'[t] = "before" /\ word'[t] = w /\ pc[t] = "idle"
  BY ThreadFacts DEF Lookup, Goto, ThreadsInv
<1>3. ReaderInv(t)'
  BY <1>2 DEF ReaderInv
<1> QED BY <1>1, <1>2, <1>3, ReadStep DEF Lookup, Writing

LEMMA LoadBeforeStep ==
  ASSUME SlotInv, NEW t \in Prober, LoadBefore(t)
  PROVE  SlotInv'
<1>1. PICK n \in Readable(t, SeqAt) :
        /\ ReadAcquire(t, SeqAt, n)
        /\ seq' = [seq EXCEPT ![t] = memory[SeqAt][n].val]
        /\ Goto(t, IF memory[SeqAt][n].val % 2 = 1 THEN Occupied(t) ELSE "tag")
  BY DEF LoadBefore
<1> DEFINE view == memory[SeqAt][n].view
<1>2. /\ n \in 1 .. Len(memory[SeqAt]) /\ n \in Nat \ {0} /\ view \in Views
      /\ Seen(t, SeqAt, n) \in Views
  BY ReadableFacts, ThreadFacts, LocationFacts
<1>3. /\ memory[SeqAt][n].val = n - 1 /\ n - 1 \in 0 .. SeqMax
      /\ n % 2 = 1 => \A l \in Payload : n + 1 <= 2 * view[l]
  <2>1. memory[SeqAt][n].val \in Values(SeqAt)
    BY <1>2, ThreadFacts, MessageFacts, LocationFacts
  <2> QED BY <1>2, <2>1, ThreadFacts DEF MemoryInv, Values
<1>4. /\ Join(Seen(t, SeqAt, n), view) \in Views
      /\ \A l \in Location : view[l] <= Join(Seen(t, SeqAt, n), view)[l]
      /\ Join(acq[t], view) \in Views
  BY <1>2, JoinFacts, ThreadFacts
<1>5. /\ cur' = [cur EXCEPT ![t] = Join(Seen(t, SeqAt, n), view)]
      /\ acq' = [acq EXCEPT ![t] = Join(acq[t], view)]
      /\ seq' = [seq EXCEPT ![t] = n - 1]
      /\ pc' = [pc EXCEPT ![t] = IF (n - 1) % 2 = 1 THEN "miss" ELSE "tag"]
      /\ pc[t] = "before"
      /\ UNCHANGED <<memory, rel, page, word, value>>
  BY <1>1, <1>3 DEF ReadAcquire, Goto, Occupied, LoadBefore
<1> HIDE DEF view
<1>6. ThreadsInv' /\ Others(t)
  BY <1>3, <1>4, <1>5, ThreadFacts DEF ThreadsInv, Others, SlotSteps
<1>7. /\ pc'[t] = IF (n - 1) % 2 = 1 THEN "miss" ELSE "tag"
      /\ seq'[t] = n - 1 /\ cur'[t] = Join(Seen(t, SeqAt, n), view) /\ word'[t] = word[t]
  BY <1>5, ThreadFacts DEF ThreadsInv
<1>8. ReaderInv(t)'
  <2>1. CASE (n - 1) % 2 = 1
    BY <1>7, <2>1 DEF ReaderInv
  <2>2. CASE (n - 1) % 2 = 0
    <3>1. n % 2 = 1
      BY <1>2, <2>2
    <3>2. ASSUME NEW l \in Payload PROVE seq'[t] + 2 <= 2 * cur'[t][l]
      <4>1. n + 1 <= 2 * view[l] /\ l \in Location
        BY <1>3, <3>1, LocationFacts
      <4>2. view[l] \in Nat /\ cur'[t][l] \in Nat /\ view[l] <= cur'[t][l]
        BY <1>2, <1>4, <1>7, <4>1 DEF Views
      <4> QED BY <1>2, <1>7, <4>1, <4>2
    <3>3. word[t] \in 1 .. Words
      BY <1>5, ThreadFacts DEF ReaderInv
    <3> QED BY <1>7, <2>2, <3>2, <3>3 DEF ReaderInv
  <2> QED BY <1>2, <2>1, <2>2
<1> QED BY <1>5, <1>6, <1>7, <1>8, ReadStep DEF Writing

LEMMA LoadTagStep ==
  ASSUME SlotInv, NEW t \in Prober, LoadTag(t)
  PROVE  SlotInv'
<1>1. PICK n \in Readable(t, TagAt) :
        /\ ReadRelaxed(t, TagAt, n)
        /\ Goto(t, IF memory[TagAt][n].val = page[t] THEN "word" ELSE "miss")
  BY DEF LoadTag
<1> DEFINE view == memory[TagAt][n].view
<1>2. /\ n \in 1 .. Len(memory[TagAt]) /\ n \in Nat \ {0} /\ cur[t][TagAt] <= n
      /\ view \in Views /\ Seen(t, TagAt, n) \in Views
      /\ \A l \in Location : cur[t][l] <= Seen(t, TagAt, n)[l]
  BY ReadableFacts, ThreadFacts, LocationFacts
<1>3. 2 * n <= view[SeqAt] + 2
  BY <1>2, ThreadFacts, LocationFacts DEF MemoryInv
<1>4. Join(acq[t], view) \in Views /\ view[SeqAt] <= Join(acq[t], view)[SeqAt]
  BY <1>2, JoinFacts, ThreadFacts, LocationFacts
<1>5. /\ cur' = [cur EXCEPT ![t] = Seen(t, TagAt, n)]
      /\ acq' = [acq EXCEPT ![t] = Join(acq[t], view)]
      /\ pc' = [pc EXCEPT ![t] = IF memory[TagAt][n].val = page[t] THEN "word" ELSE "miss"]
      /\ pc[t] = "tag"
      /\ UNCHANGED <<memory, rel, page, word, seq, value>>
  BY <1>1 DEF ReadRelaxed, Goto, LoadTag
<1> HIDE DEF view
<1>6. ThreadsInv' /\ Others(t)
  BY <1>2, <1>4, <1>5, ThreadFacts DEF ThreadsInv, Others, SlotSteps
<1>7. /\ pc'[t] = IF memory[TagAt][n].val = page[t] THEN "word" ELSE "miss"
      /\ cur'[t] = Seen(t, TagAt, n) /\ acq'[t] = Join(acq[t], view)
  BY <1>5, ThreadFacts DEF ThreadsInv
<1>8. ReaderInv(t)'
  <2>1. CASE memory[TagAt][n].val # page[t]
    BY <1>7, <2>1 DEF ReaderInv
  <2>2. CASE memory[TagAt][n].val = page[t]
    <3>1. seq[t] % 2 = 0 /\ word[t] \in 1 .. Words
          /\ \A l \in Payload : seq[t] + 2 <= 2 * cur[t][l]
      BY <1>5, ThreadFacts DEF ReaderInv
    <3>2. ASSUME NEW l \in Payload PROVE seq[t] + 2 <= 2 * cur'[t][l]
      <4>1. l \in Location /\ cur[t][l] <= cur'[t][l] /\ cur'[t][l] \in Nat
        BY <1>2, <1>7, LocationFacts DEF Views
      <4> QED BY <3>1, <4>1, ThreadFacts
    <3>3. seq[t] + 2 <= 2 * n
      <4>1. seq[t] + 2 <= 2 * cur[t][TagAt] /\ cur[t][TagAt] \in Nat
        BY <3>1, ThreadFacts, LocationFacts
      <4> QED BY <1>2, <4>1, ThreadFacts
    <3>4. 2 * n <= acq'[t][SeqAt] + 2
      <4>1. view[SeqAt] \in Nat /\ acq'[t][SeqAt] \in Nat
        BY <1>2, <1>4, <1>7, LocationFacts DEF Views
      <4> QED BY <1>2, <1>3, <1>4, <1>7, <4>1
    <3> QED BY <1>2, <1>5, <1>7, <2>2, <3>1, <3>2, <3>3, <3>4 DEF ReaderInv
  <2> QED BY <2>1, <2>2
<1> QED BY <1>5, <1>6, <1>7, <1>8, ReadStep DEF Writing

LEMMA LoadWordStep ==
  ASSUME SlotInv, NEW t \in Prober, LoadWord(t)
  PROVE  SlotInv'
<1> DEFINE w == word[t]
<1>1. pc[t] = "word" /\ w \in 1 .. Words /\ w \in Payload /\ w \in Location /\ w # SeqAt
  BY ThreadFacts, LocationFacts DEF LoadWord, ReaderInv
<1>2. PICK n \in Readable(t, w) :
        /\ value' = [value EXCEPT ![t] = memory[w][n].val]
        /\ acq' = [acq EXCEPT ![t] = Join(acq[t], memory[w][n].view)]
        /\ cur' = [cur EXCEPT ![t] =
                     Join(Seen(t, w, n), Join(acq[t], memory[w][n].view))]
  BY DEF LoadWord, Acquired
<1> DEFINE view == memory[w][n].view
           acquired == Join(acq[t], view)
<1>3. /\ n \in 1 .. Len(memory[w]) /\ n \in Nat \ {0} /\ cur[t][w] <= n
      /\ view \in Views /\ Seen(t, w, n) \in Views
      /\ \A l \in Location : cur[t][l] <= Seen(t, w, n)[l]
  BY <1>1, ReadableFacts, ThreadFacts
<1>4. 2 * n <= view[SeqAt] + 2 /\ memory[w][n].val \in SlotPage \cup {NoPage}
  BY <1>1, <1>3, ThreadFacts, MessageFacts DEF MemoryInv, Values
<1> HIDE DEF view
<1>5. /\ acquired \in Views /\ view[SeqAt] <= acquired[SeqAt] /\ acq[t][SeqAt] <= acquired[SeqAt]
  BY <1>3, JoinFacts, ThreadFacts, LocationFacts
<1> HIDE DEF acquired
<1>6. /\ Join(Seen(t, w, n), acquired) \in Views
      /\ acquired[SeqAt] <= Join(Seen(t, w, n), acquired)[SeqAt]
      /\ \A l \in Location : Seen(t, w, n)[l] <= Join(Seen(t, w, n), acquired)[l]
  BY <1>3, <1>5, JoinFacts, LocationFacts
<1>7. /\ cur' = [cur EXCEPT ![t] = Join(Seen(t, w, n), acquired)]
      /\ acq' = [acq EXCEPT ![t] = acquired]
      /\ value' = [value EXCEPT ![t] = memory[w][n].val]
      /\ pc' = [pc EXCEPT ![t] = "after"]
      /\ UNCHANGED <<memory, rel, page, word, seq>>
  BY <1>2 DEF LoadWord, Goto, acquired, view
<1>8. ThreadsInv' /\ Others(t)
  BY <1>4, <1>5, <1>6, <1>7, ThreadFacts DEF ThreadsInv, Others, SlotSteps
<1>9. /\ pc'[t] = "after" /\ value'[t] = memory[w][n].val
      /\ cur'[t] = Join(Seen(t, w, n), acquired) /\ word'[t] = w
  BY <1>7, ThreadFacts DEF ThreadsInv
<1>10. ReaderInv(t)'
  <2>1. /\ seq[t] % 2 = 0 /\ \A l \in Payload : seq[t] + 2 <= 2 * cur[t][l]
        /\ seq[t] \in Nat
    BY <1>1, ThreadFacts DEF ReaderInv
  <2>2. PICK m \in 1 .. Len(memory[TagAt]) :
          /\ memory[TagAt][m].val = page[t]
          /\ seq[t] + 2 <= 2 * m /\ 2 * m <= acq[t][SeqAt] + 2
    BY <1>1, ThreadFacts DEF ReaderInv
  <2>3. m \in Nat
    BY <2>2, ThreadFacts, MessageFacts, LocationFacts
  <2>4. /\ view[SeqAt] \in Nat /\ acquired[SeqAt] \in Nat /\ cur'[t][SeqAt] \in Nat
        /\ acq[t][SeqAt] \in Nat
    BY <1>3, <1>5, <1>6, <1>9, ThreadFacts, LocationFacts DEF Views
  <2>5. 2 * m <= cur'[t][SeqAt] + 2 /\ 2 * n <= cur'[t][SeqAt] + 2
    <3>1. acquired[SeqAt] <= cur'[t][SeqAt]
      BY <1>6, <1>9
    <3>2. 2 * m <= cur'[t][SeqAt] + 2
      BY <1>5, <2>2, <2>3, <2>4, <3>1
    <3>3. 2 * n <= cur'[t][SeqAt] + 2
      BY <1>3, <1>4, <1>5, <2>4, <3>1
    <3> QED BY <3>2, <3>3
  <2>6. ASSUME NEW l \in Payload PROVE seq[t] + 2 <= 2 * cur'[t][l]
    <3>1. l \in Location
      BY LocationFacts
    <3>2. /\ cur[t][l] \in Nat /\ Seen(t, w, n)[l] \in Nat /\ cur'[t][l] \in Nat
          /\ cur[t][l] <= Seen(t, w, n)[l] /\ Seen(t, w, n)[l] <= cur'[t][l]
      BY <1>3, <1>6, <1>9, <3>1, ThreadFacts DEF Views
    <3> QED BY <2>1, <3>2
  <2>7. seq[t] + 2 <= 2 * n
    <3>1. seq[t] + 2 <= 2 * cur[t][w] /\ cur[t][w] \in Nat
      BY <1>1, <2>1, ThreadFacts
    <3> QED BY <1>3, <2>1, <3>1
  <2> QED BY <1>1, <1>3, <1>7, <1>9, <2>1, <2>2, <2>5, <2>6, <2>7 DEF ReaderInv
<1> QED BY <1>1, <1>7, <1>8, <1>9, <1>10, ReadStep DEF Writing

(* The word and the tag come from one publication if the sequence is still *)
(* what it was.                                                            *)
LEMMA LoadAfterStep ==
  ASSUME SlotInv, NEW t \in Prober, LoadAfter(t)
  PROVE  SlotInv'
<1> DEFINE w == word[t]
<1>1. pc[t] = "after" /\ w \in 1 .. Words /\ w \in Location
  BY ThreadFacts, LocationFacts DEF LoadAfter, ReaderInv
<1>2. PICK n \in Readable(t, SeqAt) :
        /\ ReadRelaxed(t, SeqAt, n)
        /\ Goto(t, IF memory[SeqAt][n].val = seq[t] THEN "hit" ELSE "miss")
  BY DEF LoadAfter
<1> DEFINE view == memory[SeqAt][n].view
<1>3. /\ n \in 1 .. Len(memory[SeqAt]) /\ n \in Nat \ {0} /\ cur[t][SeqAt] <= n
      /\ view \in Views /\ Seen(t, SeqAt, n) \in Views
  BY ReadableFacts, ThreadFacts, LocationFacts
<1>4. Join(acq[t], view) \in Views /\ memory[SeqAt][n].val = n - 1
  BY <1>3, JoinFacts, ThreadFacts DEF MemoryInv
<1>5. /\ cur' = [cur EXCEPT ![t] = Seen(t, SeqAt, n)]
      /\ acq' = [acq EXCEPT ![t] = Join(acq[t], view)]
      /\ pc' = [pc EXCEPT ![t] = IF n - 1 = seq[t] THEN "hit" ELSE "miss"]
      /\ UNCHANGED <<memory, rel, page, word, seq, value>>
  BY <1>2, <1>4 DEF ReadRelaxed, Goto, LoadAfter
<1> HIDE DEF view
<1>6. ThreadsInv' /\ Others(t)
  BY <1>3, <1>4, <1>5, ThreadFacts DEF ThreadsInv, Others, SlotSteps
<1>7. pc'[t] = IF n - 1 = seq[t] THEN "hit" ELSE "miss"
  BY <1>5, ThreadFacts DEF ThreadsInv
<1>8. n - 1 = seq[t] => value[t] = page[t]
  <2> SUFFICES ASSUME n - 1 = seq[t] PROVE value[t] = page[t]
    OBVIOUS
  <2>1. PICK k \in 1 .. Len(memory[TagAt]), m \in 1 .. Len(memory[w]) :
          /\ memory[TagAt][k].val = page[t] /\ memory[w][m].val = value[t]
          /\ seq[t] + 2 <= 2 * k /\ 2 * k <= cur[t][SeqAt] + 2
          /\ seq[t] + 2 <= 2 * m /\ 2 * m <= cur[t][SeqAt] + 2
    BY <1>1, ThreadFacts DEF ReaderInv
  <2>2. k \in Nat /\ m \in Nat /\ k <= Len(memory[TagAt])
    BY <1>1, <2>1, ThreadFacts, MessageFacts, LocationFacts
  <2>3. seq[t] % 2 = 0 /\ seq[t] \in Nat /\ cur[t][SeqAt] \in Nat
    BY <1>1, ThreadFacts, LocationFacts DEF ReaderInv
  <2>4. 2 * k = seq[t] + 2 /\ 2 * m = seq[t] + 2
    <3>1. 2 * k <= seq[t] + 3 /\ 2 * m <= seq[t] + 3
      BY <1>3, <2>1, <2>2, <2>3
    <3> QED BY <2>1, <2>2, <2>3, <3>1, EvenBound
  <2>5. k = m
    BY <2>2, <2>4
  <2>6. memory[w][m].val = memory[TagAt][m].val
    BY <1>1, <2>1, <2>2, <2>5, ThreadFacts DEF MemoryInv
  <2> QED BY <2>1, <2>5, <2>6
<1>9. ReaderInv(t)'
  BY <1>5, <1>7, <1>8 DEF ReaderInv
<1> QED BY <1>1, <1>5, <1>6, <1>7, <1>9, ReadStep DEF Writing

LEMMA MissStep ==
  ASSUME SlotInv, NEW t \in Prober, Miss(t)
  PROVE  SlotInv'
<1>1. PICK n \in Readable(t, SeqAt) :
        /\ ReadAcquire(t, SeqAt, n)
        /\ seq' = [seq EXCEPT ![t] = memory[SeqAt][n].val]
        /\ Goto(t, IF MayPublish(memory[SeqAt][n].val) THEN "publish" ELSE "missed")
  BY DEF Miss
<1> DEFINE view == memory[SeqAt][n].view
           s == memory[SeqAt][n].val
<1>2. /\ n \in 1 .. Len(memory[SeqAt]) /\ view \in Views /\ Seen(t, SeqAt, n) \in Views
      /\ s \in 0 .. SeqMax
  BY ReadableFacts, ThreadFacts, MessageFacts, LocationFacts DEF Values
<1>3. Join(Seen(t, SeqAt, n), view) \in Views /\ Join(acq[t], view) \in Views
  BY <1>2, JoinFacts, ThreadFacts
<1>4. /\ cur' = [cur EXCEPT ![t] = Join(Seen(t, SeqAt, n), view)]
      /\ acq' = [acq EXCEPT ![t] = Join(acq[t], view)]
      /\ seq' = [seq EXCEPT ![t] = s] /\ value' = [value EXCEPT ![t] = page[t]]
      /\ pc' = [pc EXCEPT ![t] = IF MayPublish(s) THEN "publish" ELSE "missed"]
      /\ pc[t] = "miss" /\ UNCHANGED <<memory, rel, page, word>>
  BY <1>1 DEF ReadAcquire, Goto, Miss
<1> HIDE DEF view, s
<1>5. ThreadsInv' /\ Others(t)
  BY <1>2, <1>3, <1>4, ThreadFacts DEF ThreadsInv, Others, SlotSteps
<1>6. /\ pc'[t] = IF MayPublish(s) THEN "publish" ELSE "missed"
      /\ seq'[t] = s /\ value'[t] = page'[t]
  BY <1>4, ThreadFacts DEF ThreadsInv
<1>7. MayPublish(s) => s % 2 = 0 /\ s + 2 <= SeqMax
  BY <1>2, CacheAssumption DEF MayPublish
<1>8. ReaderInv(t)'
  BY <1>6, <1>7 DEF ReaderInv
<1> QED BY <1>4, <1>5, <1>6, <1>8, ReadStep DEF Writing

LEMMA ReturnStep ==
  ASSUME SlotInv, NEW t \in Prober, ReadFails(t) \/ Return(t)
  PROVE  SlotInv'
<1>1. /\ pc[t] \in {"miss", "hit", "missed"}
      /\ pc' = [pc EXCEPT ![t] = "idle"] /\ word' = [word EXCEPT ![t] = 1]
      /\ seq' = [seq EXCEPT ![t] = 0] /\ UNCHANGED <<memory, cur, acq, rel, page, value>>
  BY DEF ReadFails, Return, Goto
<1>2. ThreadsInv' /\ Others(t)
  BY <1>1, CacheAssumption, ThreadFacts DEF ThreadsInv, Others, SlotSteps
<1>3. pc'[t] = "idle"
  BY <1>1, ThreadFacts DEF ThreadsInv
<1> QED BY <1>1, <1>2, <1>3, ReadStep DEF Writing, ReaderInv

LEMMA ConflictStep ==
  ASSUME SlotInv, NEW t \in Prober, Conflict(t)
  PROVE  SlotInv'
<1>1. PICK n \in Readable(t, SeqAt) : ReadRelaxed(t, SeqAt, n)
  BY DEF Conflict
<1> DEFINE view == memory[SeqAt][n].view
<1>2. view \in Views /\ Seen(t, SeqAt, n) \in Views
  BY ReadableFacts, ThreadFacts, LocationFacts
<1>3. Join(acq[t], view) \in Views
  BY <1>2, JoinFacts, ThreadFacts
<1>4. /\ cur' = [cur EXCEPT ![t] = Seen(t, SeqAt, n)]
      /\ acq' = [acq EXCEPT ![t] = Join(acq[t], view)]
      /\ pc[t] = "publish" /\ pc' = [pc EXCEPT ![t] = "missed"]
      /\ UNCHANGED <<memory, rel, page, word, seq, value>>
  BY <1>1 DEF ReadRelaxed, Goto, Conflict
<1> HIDE DEF view
<1>5. ThreadsInv' /\ Others(t)
  BY <1>2, <1>3, <1>4, ThreadFacts DEF ThreadsInv, Others, SlotSteps
<1>6. pc'[t] = "missed" /\ value[t] = page[t]
  BY <1>4, ThreadFacts DEF ThreadsInv, ReaderInv
<1>7. ReaderInv(t)'
  BY <1>4, <1>6 DEF ReaderInv
<1> QED BY <1>4, <1>5, <1>6, <1>7, ReadStep DEF Writing

-----------------------------------------------------------------------------
(***************************************************************************)
(* The steps of a publication.                                             *)
(***************************************************************************)
LEMMA GrownFacts ==
  ASSUME MemoryInv, NEW l \in Location,
         \A k \in Location : k # l => memory'[k] = memory[k],
         Len(memory'[l]) = Len(memory[l]) + 1,
         \A n \in 1 .. Len(memory[l]) : memory'[l][n] = memory[l][n]
  PROVE  Grown
<1>1. \A k \in Location : Len(memory[k]) \in Nat
  BY MessageFacts
<1> QED BY <1>1 DEF Grown

(* The exchange begins a publication that nobody else can begin. *)
LEMMA ClaimStep ==
  ASSUME SlotInv, NEW t \in Prober, Claim(t)
  PROVE  SlotInv'
<1> DEFINE len == Len(memory[SeqAt])
           old == memory[SeqAt][len].view
           view == Join(Stored(t, SeqAt), old)
<1>1. /\ pc[t] = "publish" /\ seq[t] % 2 = 0 /\ seq[t] + 2 <= SeqMax /\ value[t] = page[t]
      /\ seq[t] \in Nat /\ len \in Nat \ {0} /\ len \in 1 .. len /\ SeqMax \in Nat
  BY CacheAssumption, ThreadFacts, MessageFacts, LocationFacts DEF Claim, ReaderInv
<1>2. len = seq[t] + 1 /\ old \in Views
  <2>1. memory[SeqAt][len].val = len - 1
    BY <1>1, ThreadFacts DEF MemoryInv
  <2> QED BY <1>1, <2>1, ThreadFacts, MessageFacts, LocationFacts DEF Claim, Newest
<1>3. Stored(t, SeqAt) \in Views /\ Stored(t, SeqAt)[SeqAt] = len + 1
  <2>1. Stored(t, SeqAt) = [cur[t] EXCEPT ![SeqAt] = len + 1]
    BY DEF Stored
  <2> QED BY <1>1, <2>1, ThreadFacts, LocationFacts DEF Views
<1> HIDE DEF old
<1>4. view \in Views /\ len + 1 <= view[SeqAt] /\ Join(acq[t], old) \in Views
  BY <1>2, <1>3, JoinFacts, ThreadFacts, LocationFacts
<1> HIDE DEF view
<1>5. /\ cur' = [cur EXCEPT ![t] = view] /\ acq' = [acq EXCEPT ![t] = Join(acq[t], old)]
      /\ Append1(SeqAt, seq[t] + 1, view) /\ rel' = [rel EXCEPT ![t] = view]
      /\ word' = [word EXCEPT ![t] = 1] /\ pc' = [pc EXCEPT ![t] = "store"]
      /\ UNCHANGED <<page, seq, value>>
  BY DEF Claim, Newest, Released, Goto, view, old
<1>6. ThreadsInv' /\ Others(t)
  BY <1>4, <1>5, CacheAssumption, ThreadFacts DEF ThreadsInv, Others, SlotSteps
<1>7. /\ memory' = [k \in Location |-> memory'[k]]
      /\ \A k \in Location : memory'[k] \in Seq(Messages(k))
      /\ \A k \in Location : k # SeqAt => memory'[k] = memory[k]
      /\ Len(memory'[SeqAt]) = len + 1
      /\ \A n \in 1 .. len : memory'[SeqAt][n] = memory[SeqAt][n]
      /\ memory'[SeqAt][len + 1].val = seq[t] + 1
  <2>1. seq[t] + 1 \in Values(SeqAt)
    BY <1>1 DEF Values
  <2> QED BY <1>4, <1>5, <2>1, AppendFacts, ThreadFacts, LocationFacts
<1>8. Grown
  BY <1>7, GrownFacts, ThreadFacts, LocationFacts
<1>9. len % 2 = 1 /\ (len + 1) % 2 # 1
  BY <1>1, <1>2, EvenNext
<1>10. MemoryInv'
  <2>1. ASSUME NEW n \in 1 .. len + 1
        PROVE  /\ memory'[SeqAt][n].val = n - 1
               /\ n % 2 = 1 => \A l \in Payload : n + 1 <= 2 * memory'[SeqAt][n].view[l]
    <3>1. CASE n = len + 1
      <4>1. memory'[SeqAt][n].val = n - 1
        BY <1>1, <1>2, <1>7, <3>1
      <4>2. n % 2 # 1
        BY <1>9, <3>1, Zenon
      <4> QED BY <4>1, <4>2
    <3>2. CASE n \in 1 .. len
      BY <1>7, <3>2, ThreadFacts DEF MemoryInv
    <3> QED BY <1>1, <3>1, <3>2
  <2>2. \A l \in Location : memory'[l] \in Seq(Messages(l)) /\ Len(memory'[l]) > 0
    BY <1>1, <1>7, ThreadFacts DEF MemoryInv
  <2>3. \A l \in Payload : memory'[l] = memory[l]
    BY <1>7, LocationFacts
  <2>4. /\ memory'[TagAt] = memory[TagAt]
        /\ \A w \in 1 .. Words : memory'[w] = memory[w]
    BY <2>3, LocationFacts
  <2>5. MemoryInv
    BY ThreadFacts
  <2>6. /\ \A l \in Payload : \A n \in 1 .. Len(memory'[l]) :
             2 * n <= memory'[l][n].view[SeqAt] + 2
        /\ \A w \in 1 .. Words : \A n \in 1 .. Len(memory'[w]) :
             n <= Len(memory'[TagAt]) => memory'[w][n].val = memory'[TagAt][n].val
    BY <2>3, <2>4, <2>5 DEF MemoryInv
  <2>7. \A n \in 1 .. Len(memory'[SeqAt]) :
          /\ memory'[SeqAt][n].val = n - 1
          /\ n % 2 = 1 => \A l \in Payload : n + 1 <= 2 * memory'[SeqAt][n].view[l]
    BY <1>7, <2>1
  <2> QED BY <1>7, <2>2, <2>6, <2>7 DEF MemoryInv
<1>11. /\ \A u \in Prober : pc[u] \notin Writing
       /\ \A l \in Payload : 2 * Len(memory[l]) = len + 1
  BY <1>9 DEF SlotInv
<1>12. /\ pc'[t] = "store" /\ word'[t] = 1 /\ rel'[t] = view /\ seq'[t] = seq[t]
       /\ value'[t] = page'[t]
  BY <1>1, <1>5, ThreadFacts DEF ThreadsInv
<1>13. WriterInv(t)'
  <2>1. ASSUME NEW l \in Payload
        PROVE  ~Replaced(t, l)' /\ 2 * Len(memory'[l]) = seq[t] + 2
    <3>1. ~(l < 1) /\ memory'[l] = memory[l]
      BY <1>7, LocationFacts DEF Payload
    <3> QED BY <1>1, <1>2, <1>11, <1>12, <3>1 DEF Replaced
  <2>2. 1 \in 1 .. Words
    BY CacheAssumption
  <2>3. seq[t] + 2 <= view[SeqAt]
    BY <1>2, <1>4, <1>1
  <2> QED BY <1>1, <1>2, <1>7, <1>12, <2>1, <2>2, <2>3 DEF WriterInv
<1>14. ReaderInv(t)'
  BY <1>12 DEF ReaderInv
<1>15. Len(memory'[SeqAt]) % 2 # 1
  BY <1>7, <1>9, Zenon
<1>16. \A u \in Prober \ {t} : pc[u] \notin Writing
  BY <1>11
<1> QED BY <1>6, <1>8, <1>10, <1>13, <1>14, <1>15, <1>16, WriteStep

LEMMA WriterFacts ==
  ASSUME SlotInv, NEW t \in Prober, pc[t] \in Writing
  PROVE  /\ seq[t] \in Nat /\ seq[t] % 2 = 0 /\ Len(memory[SeqAt]) = seq[t] + 2
         /\ seq[t] + 2 <= SeqMax /\ SeqMax \in Nat /\ value[t] = page[t]
         /\ \A u \in Prober \ {t} : pc[u] \notin Writing
         /\ \A l \in Payload : Len(memory[l]) \in Nat /\ cur[t][l] \in Nat
<1>1. seq[t] \in Nat /\ SeqMax \in Nat
  BY CacheAssumption, ThreadFacts
<1>2. /\ seq[t] % 2 = 0 /\ Len(memory[SeqAt]) = seq[t] + 2 /\ seq[t] + 2 <= SeqMax
      /\ value[t] = page[t]
  BY ThreadFacts DEF WriterInv
<1>3. \A u \in Prober \ {t} : pc[u] \notin Writing
  BY DEF SlotInv
<1>4. \A l \in Payload : Len(memory[l]) \in Nat /\ cur[t][l] \in Nat
  BY ThreadFacts, MessageFacts, LocationFacts
<1> QED BY <1>1, <1>2, <1>3, <1>4

(* A relaxed store of the writer into the tag or a word. *)
LEMMA PayloadStep ==
  ASSUME SlotInv, NEW t \in Prober, pc[t] \in Writing, NEW l \in Payload, ~Replaced(t, l),
         StoreRelaxed(t, l, page[t]), ~Replaced(t, TagAt),
         l = TagAt => \A w \in 1 .. Words : Replaced(t, w)
  PROVE  /\ MemoryInv' /\ Grown /\ cur' \in [Prober -> Views]
         /\ \A u \in Prober : u # t => cur'[u] = cur[u]
         /\ \A k \in Payload : k # l => memory'[k] = memory[k] /\ cur'[t][k] = cur[t][k]
         /\ Len(memory'[SeqAt]) = Len(memory[SeqAt])
         /\ 2 * Len(memory'[l]) = seq[t] + 4 /\ seq[t] + 4 <= 2 * cur'[t][l]
         /\ memory'[l][Len(memory'[l])].val = page[t]
<1> DEFINE len == Len(memory[l])
           view == [rel[t] EXCEPT ![l] = len + 1]
<1>1. /\ len \in Nat \ {0} /\ l \in Location /\ l # SeqAt /\ 2 * len = seq[t] + 2
      /\ seq[t] \in Nat /\ seq[t] + 2 <= rel[t][SeqAt] /\ rel[t][SeqAt] \in Nat
  <2>1. len \in Nat \ {0} /\ l \in Location /\ l # SeqAt
    BY ThreadFacts, MessageFacts, LocationFacts
  <2>2. 2 * len = seq[t] + 2 /\ seq[t] + 2 <= rel[t][SeqAt]
    BY ThreadFacts DEF WriterInv
  <2>3. seq[t] \in Nat /\ rel[t][SeqAt] \in Nat
    BY ThreadFacts, WriterFacts, LocationFacts
  <2> QED BY <2>1, <2>2, <2>3
<1>2. view \in Views /\ view[SeqAt] = rel[t][SeqAt]
  BY <1>1, ThreadFacts, LocationFacts DEF Views
<1>3. /\ cur' = [cur EXCEPT ![t] = Stored(t, l)] /\ Append1(l, page[t], view)
      /\ Stored(t, l) = [cur[t] EXCEPT ![l] = len + 1]
  BY DEF StoreRelaxed, Stored
<1> HIDE DEF view
<1>4. /\ Stored(t, l) \in Views /\ Stored(t, l)[l] = len + 1
      /\ \A k \in Location : k # l => Stored(t, l)[k] = cur[t][k]
  BY <1>1, <1>3, ThreadFacts DEF Views
<1>5. /\ cur' \in [Prober -> Views] /\ cur'[t] = Stored(t, l)
      /\ \A u \in Prober : u # t => cur'[u] = cur[u]
  BY <1>3, <1>4, ThreadFacts DEF ThreadsInv
<1>6. /\ memory' = [k \in Location |-> memory'[k]]
      /\ \A k \in Location : memory'[k] \in Seq(Messages(k))
      /\ \A k \in Location : k # l => memory'[k] = memory[k]
      /\ Len(memory'[l]) = len + 1
      /\ \A n \in 1 .. len : memory'[l][n] = memory[l][n]
      /\ memory'[l][len + 1].val = page[t] /\ memory'[l][len + 1].view = view
  <2>1. page[t] \in Values(l)
    BY <1>1, ThreadFacts DEF Values
  <2> QED BY <1>1, <1>2, <1>3, <2>1, AppendFacts, ThreadFacts
<1>7. Grown
  BY <1>1, <1>6, GrownFacts, ThreadFacts
<1>8. memory'[SeqAt] = memory[SeqAt]
  BY <1>1, <1>6, LocationFacts
<1>9. MemoryInv'
  <2>1. MemoryInv
    BY ThreadFacts
  <2>2. \A k \in Location : memory'[k] \in Seq(Messages(k)) /\ Len(memory'[k]) > 0
    BY <1>1, <1>6, <2>1 DEF MemoryInv
  <2>3. ASSUME NEW k \in Payload, NEW n \in 1 .. Len(memory'[k])
        PROVE  2 * n <= memory'[k][n].view[SeqAt] + 2
    <3>1. CASE k = l /\ n = len + 1
      BY <1>1, <1>2, <1>6, <3>1
    <3>2. CASE k = l /\ n \in 1 .. len
      BY <1>6, <2>1, <3>2 DEF MemoryInv
    <3>3. CASE k # l
      BY <1>6, <2>1, <3>3, LocationFacts DEF MemoryInv
    <3> QED BY <1>1, <1>6, <3>1, <3>2, <3>3
  <2>4. ASSUME NEW w \in 1 .. Words, NEW n \in 1 .. Len(memory'[w]), n <= Len(memory'[TagAt])
        PROVE  memory'[w][n].val = memory'[TagAt][n].val
    <3>1. w \in Payload /\ w \in Location /\ w # TagAt /\ TagAt \in Location
      BY LocationFacts
    <3>2. Len(memory[w]) \in Nat /\ Len(memory[TagAt]) \in Nat
      BY <3>1, ThreadFacts, MessageFacts
    <3>3. CASE l # TagAt /\ l # w
      <4>1. memory'[w] = memory[w] /\ memory'[TagAt] = memory[TagAt]
        BY <1>6, <3>1, <3>3
      <4> QED BY <2>1, <2>4, <4>1 DEF MemoryInv
    <3>4. CASE l = w
      <4>1. 2 * Len(memory[TagAt]) = seq[t] + 2 /\ memory'[TagAt] = memory[TagAt]
        BY <1>6, <3>1, <3>4, ThreadFacts, LocationFacts DEF WriterInv
      <4>2. n \in 1 .. len /\ n <= Len(memory[TagAt])
        <5>1. n \in 1 .. len + 1 /\ n <= Len(memory[TagAt])
          BY <1>6, <2>4, <3>4, <4>1
        <5>2. Len(memory[TagAt]) = len
          BY <1>1, <3>2, <4>1
        <5> QED BY <1>1, <5>1, <5>2
      <4> QED BY <1>6, <2>1, <3>4, <4>1, <4>2 DEF MemoryInv
    <3>5. CASE l = TagAt
      <4>1. /\ 2 * Len(memory[w]) = seq[t] + 4 /\ memory[w][Len(memory[w])].val = page[t]
            /\ memory'[w] = memory[w]
        BY <1>6, <3>1, <3>5, ThreadFacts DEF WriterInv
      <4>2. Len(memory[w]) = len + 1
        BY <1>1, <3>2, <4>1, OneApart
      <4>3. CASE n = len + 1
        BY <1>6, <3>5, <4>1, <4>2, <4>3
      <4>4. CASE n \in 1 .. len
        <5>1. n \in 1 .. Len(memory[w]) /\ n <= Len(memory[TagAt])
          BY <1>1, <3>5, <4>2, <4>4
        <5>2. memory[w][n].val = memory[TagAt][n].val
          BY <2>1, <5>1 DEF MemoryInv
        <5> QED BY <1>6, <3>5, <4>1, <4>4, <5>2
      <4> QED BY <1>1, <4>1, <4>2, <4>3, <4>4
    <3> QED BY <3>3, <3>4, <3>5
  <2>5. \A n \in 1 .. Len(memory'[SeqAt]) :
          /\ memory'[SeqAt][n].val = n - 1
          /\ n % 2 = 1 => \A k \in Payload : n + 1 <= 2 * memory'[SeqAt][n].view[k]
    BY <1>8, <2>1 DEF MemoryInv
  <2> QED BY <1>6, <2>2, <2>3, <2>4, <2>5 DEF MemoryInv
<1>10. \A k \in Payload : k # l => memory'[k] = memory[k] /\ cur'[t][k] = cur[t][k]
  BY <1>4, <1>5, <1>6, LocationFacts
<1>11. 2 * Len(memory'[l]) = seq[t] + 4 /\ seq[t] + 4 <= 2 * cur'[t][l]
  <2>1. Len(memory'[l]) = len + 1 /\ cur'[t][l] = len + 1
    BY <1>4, <1>5, <1>6
  <2> HIDE DEF len
  <2> QED BY <1>1, <2>1
<1> QED BY <1>5, <1>6, <1>7, <1>8, <1>9, <1>10, <1>11

LEMMA StoreWordStep ==
  ASSUME SlotInv, NEW t \in Prober, StoreWord(t)
  PROVE  SlotInv'
<1> DEFINE w == word[t]
<1>1. /\ pc[t] = "store" /\ StoreRelaxed(t, w, page[t]) /\ word' = [word EXCEPT ![t] = w + 1]
      /\ pc' = [pc EXCEPT ![t] = IF w = Words THEN "retag" ELSE "store"]
      /\ UNCHANGED <<acq, rel, page, seq, value>>
  BY DEF StoreWord, Goto
<1>2. pc[t] \in Writing /\ w \in 1 .. Words /\ w \in Payload /\ w # TagAt
  BY <1>1, ThreadFacts, LocationFacts DEF Writing, WriterInv
<1>3. ~Replaced(t, w) /\ ~Replaced(t, TagAt)
  BY <1>1, <1>2, CacheAssumption, LocationFacts DEF Replaced
<1>4. /\ MemoryInv' /\ Grown /\ cur' \in [Prober -> Views]
      /\ \A u \in Prober : u # t => cur'[u] = cur[u]
      /\ \A k \in Payload : k # w => memory'[k] = memory[k] /\ cur'[t][k] = cur[t][k]
      /\ Len(memory'[SeqAt]) = Len(memory[SeqAt])
      /\ 2 * Len(memory'[w]) = seq[t] + 4 /\ seq[t] + 4 <= 2 * cur'[t][w]
      /\ memory'[w][Len(memory'[w])].val = page[t]
  BY <1>1, <1>2, <1>3, PayloadStep
<1> HIDE DEF w
<1>5. ThreadsInv' /\ Others(t)
  <2>1. w + 1 \in 1 .. Words + 1
    BY <1>2, CacheAssumption
  <2> QED BY <1>1, <1>4, <2>1, ThreadFacts DEF ThreadsInv, Others, SlotSteps
<1>6. /\ pc'[t] = IF w = Words THEN "retag" ELSE "store"
      /\ word'[t] = w + 1 /\ w = word[t] /\ w \in Int
      /\ seq'[t] = seq[t] /\ value'[t] = page'[t] /\ page'[t] = page[t] /\ rel'[t] = rel[t]
  BY <1>1, <1>2, ThreadFacts, WriterFacts DEF ThreadsInv, w
<1>7. WriterInv(t)'
  <2>1. ASSUME NEW k \in Payload
        PROVE  IF Replaced(t, k)'
                 THEN /\ 2 * Len(memory'[k]) = seq[t] + 4 /\ seq[t] + 4 <= 2 * cur'[t][k]
                      /\ memory'[k][Len(memory'[k])].val = page[t]
                 ELSE 2 * Len(memory'[k]) = seq[t] + 2
    <3>1. k \in Int /\ w \in Int
      BY <1>6, LocationFacts
    <3>2. Replaced(t, k) <=> k < w
      BY <1>1, <1>6 DEF Replaced
    <3>3. Replaced(t, k)' <=> k < w + 1
      BY <1>6 DEF Replaced
    <3>4. CASE k = w
      BY <1>4, <3>1, <3>3, <3>4
    <3>5. CASE k # w
      <4>1. Replaced(t, k)' <=> Replaced(t, k)
        BY <3>1, <3>2, <3>3, <3>5
      <4>2. memory'[k] = memory[k] /\ cur'[t][k] = cur[t][k]
        BY <1>4, <3>5
      <4>3. IF Replaced(t, k)
              THEN /\ 2 * Len(memory[k]) = seq[t] + 4 /\ seq[t] + 4 <= 2 * cur[t][k]
                   /\ memory[k][Len(memory[k])].val = page[t]
              ELSE 2 * Len(memory[k]) = seq[t] + 2
        BY <1>2, ThreadFacts DEF WriterInv
      <4> QED BY <4>1, <4>2, <4>3
    <3> QED BY <3>4, <3>5
  <2>2. IF pc'[t] = "store" THEN word'[t] \in 1 .. Words ELSE word'[t] = TagAt
    BY <1>2, <1>6, CacheAssumption, LocationFacts
  <2>3. seq[t] + 2 <= rel[t][SeqAt]
    BY <1>2, ThreadFacts DEF WriterInv
  <2> QED BY <1>2, <1>4, <1>6, <2>1, <2>2, <2>3, WriterFacts DEF WriterInv
<1>8. ReaderInv(t)'
  BY <1>6 DEF ReaderInv
<1>9. Len(memory'[SeqAt]) % 2 # 1
  <2>1. Len(memory'[SeqAt]) = seq[t] + 2 /\ seq[t] \in Nat /\ seq[t] % 2 = 0
    BY <1>2, <1>4, WriterFacts
  <2> QED BY <2>1, EvenNext
<1> QED BY <1>2, <1>4, <1>5, <1>7, <1>8, <1>9, WriteStep, WriterFacts

LEMMA StoreTagStep ==
  ASSUME SlotInv, NEW t \in Prober, StoreTag(t)
  PROVE  SlotInv'
<1>1. /\ pc[t] = "retag" /\ StoreRelaxed(t, TagAt, page[t])
      /\ pc' = [pc EXCEPT ![t] = "release"]
      /\ UNCHANGED <<acq, rel, page, word, seq, value>>
  BY DEF StoreTag, Goto
<1>2. pc[t] \in Writing /\ word[t] = TagAt /\ TagAt \in Int /\ TagAt \in Payload
  BY <1>1, ThreadFacts, LocationFacts DEF Writing, WriterInv
<1>3. /\ ~Replaced(t, TagAt)
      /\ \A w \in Payload : w # TagAt => Replaced(t, w) /\ w \in 1 .. Words
      /\ \A w \in 1 .. Words : Replaced(t, w)
  BY <1>1, <1>2, CacheAssumption, LocationFacts DEF Replaced
<1>4. /\ MemoryInv' /\ Grown /\ cur' \in [Prober -> Views]
      /\ \A u \in Prober : u # t => cur'[u] = cur[u]
      /\ \A k \in Payload : k # TagAt => memory'[k] = memory[k] /\ cur'[t][k] = cur[t][k]
      /\ Len(memory'[SeqAt]) = Len(memory[SeqAt])
      /\ 2 * Len(memory'[TagAt]) = seq[t] + 4 /\ seq[t] + 4 <= 2 * cur'[t][TagAt]
      /\ memory'[TagAt][Len(memory'[TagAt])].val = page[t]
  BY <1>1, <1>2, <1>3, PayloadStep
<1>5. ThreadsInv' /\ Others(t)
  BY <1>1, <1>4, ThreadFacts DEF ThreadsInv, Others, SlotSteps
<1>6. /\ pc'[t] = "release" /\ word'[t] = word[t]
      /\ seq'[t] = seq[t] /\ value'[t] = page'[t] /\ page'[t] = page[t] /\ rel'[t] = rel[t]
  BY <1>1, <1>2, ThreadFacts, WriterFacts DEF ThreadsInv
<1>7. WriterInv(t)'
  <2>1. ASSUME NEW k \in Payload
        PROVE  /\ Replaced(t, k)'
               /\ 2 * Len(memory'[k]) = seq[t] + 4 /\ seq[t] + 4 <= 2 * cur'[t][k]
               /\ memory'[k][Len(memory'[k])].val = page[t]
    <3>1. CASE k = TagAt
      BY <1>4, <1>6, <3>1 DEF Replaced
    <3>2. CASE k # TagAt
      <4>1. Replaced(t, k) /\ k < word[t]
        BY <1>1, <1>3, <3>2 DEF Replaced
      <4>2. /\ 2 * Len(memory[k]) = seq[t] + 4 /\ seq[t] + 4 <= 2 * cur[t][k]
            /\ memory[k][Len(memory[k])].val = page[t]
        BY <1>2, <4>1, ThreadFacts DEF WriterInv
      <4> QED BY <1>4, <1>6, <3>2, <4>1, <4>2 DEF Replaced
    <3> QED BY <3>1, <3>2
  <2>2. seq[t] + 2 <= rel[t][SeqAt]
    BY <1>2, ThreadFacts DEF WriterInv
  <2> QED BY <1>2, <1>4, <1>6, <2>1, <2>2, WriterFacts DEF WriterInv
<1>8. ReaderInv(t)'
  BY <1>6 DEF ReaderInv
<1>9. Len(memory'[SeqAt]) % 2 # 1
  <2>1. Len(memory'[SeqAt]) = seq[t] + 2 /\ seq[t] \in Nat /\ seq[t] % 2 = 0
    BY <1>2, <1>4, WriterFacts
  <2> QED BY <2>1, EvenNext
<1> QED BY <1>2, <1>4, <1>5, <1>7, <1>8, <1>9, WriteStep, WriterFacts

(* The even number ends the publication: it tells of all that was stored. *)
LEMMA StoreSequenceStep ==
  ASSUME SlotInv, NEW t \in Prober, StoreSequence(t)
  PROVE  SlotInv'
<1> DEFINE len == Len(memory[SeqAt])
           view == Stored(t, SeqAt)
<1>1. /\ pc[t] = "release" /\ pc[t] \in Writing /\ pc' = [pc EXCEPT ![t] = "missed"]
      /\ StoreRelease(t, SeqAt, (seq[t] + 2) % (SeqMax + 1))
      /\ UNCHANGED <<acq, rel, page, word, seq, value>>
  BY DEF StoreSequence, Goto, Writing
<1>2. /\ seq[t] \in Nat /\ seq[t] % 2 = 0 /\ len = seq[t] + 2 /\ seq[t] + 2 <= SeqMax
      /\ SeqMax \in Nat /\ value[t] = page[t] /\ len \in Nat
  BY <1>1, WriterFacts
<1>3. (seq[t] + 2) % (SeqMax + 1) = seq[t] + 2
  BY <1>2, NoWrap
<1>4. ASSUME NEW l \in Payload
      PROVE  2 * Len(memory[l]) = seq[t] + 4 /\ seq[t] + 4 <= 2 * cur[t][l]
  <2>1. Replaced(t, l)
    <3>1. word[t] = TagAt
      BY <1>1, ThreadFacts DEF WriterInv
    <3>2. l = TagAt \/ l < TagAt
      BY CacheAssumption, LocationFacts
    <3> QED BY <1>1, <3>1, <3>2 DEF Replaced
  <2> QED BY <1>1, <2>1, ThreadFacts DEF WriterInv
<1>5. view \in Views /\ \A l \in Payload : view[l] = cur[t][l]
  <2>1. view = [cur[t] EXCEPT ![SeqAt] = len + 1]
    BY DEF Stored
  <2> QED BY <1>2, <2>1, ThreadFacts, LocationFacts DEF Views
<1>6. cur' = [cur EXCEPT ![t] = view] /\ Append1(SeqAt, seq[t] + 2, view)
  BY <1>1, <1>3 DEF StoreRelease
<1> HIDE DEF view
<1>7. ThreadsInv' /\ Others(t)
  BY <1>1, <1>5, <1>6, ThreadFacts DEF ThreadsInv, Others, SlotSteps
<1>8. pc'[t] = "missed" /\ value'[t] = page'[t]
  BY <1>1, <1>2, ThreadFacts DEF ThreadsInv
<1>9. /\ memory' = [k \in Location |-> memory'[k]]
      /\ \A k \in Location : memory'[k] \in Seq(Messages(k))
      /\ \A k \in Location : k # SeqAt => memory'[k] = memory[k]
      /\ Len(memory'[SeqAt]) = len + 1
      /\ \A n \in 1 .. len : memory'[SeqAt][n] = memory[SeqAt][n]
      /\ memory'[SeqAt][len + 1].val = seq[t] + 2
      /\ memory'[SeqAt][len + 1].view = view
  <2>1. seq[t] + 2 \in Values(SeqAt)
    BY <1>2 DEF Values
  <2> QED BY <1>5, <1>6, <2>1, AppendFacts, ThreadFacts, LocationFacts
<1>10. Grown
  BY <1>9, GrownFacts, ThreadFacts, LocationFacts
<1>11. MemoryInv'
  <2>1. ASSUME NEW n \in 1 .. len + 1
        PROVE  /\ memory'[SeqAt][n].val = n - 1
               /\ n % 2 = 1 => \A l \in Payload : n + 1 <= 2 * memory'[SeqAt][n].view[l]
    <3>1. CASE n = len + 1
      <4>1. memory'[SeqAt][n].val = n - 1 /\ memory'[SeqAt][n].view = view
        BY <1>2, <1>9, <3>1
      <4>2. ASSUME NEW l \in Payload PROVE n + 1 <= 2 * view[l]
        <5>1. n + 1 = seq[t] + 4
          BY <1>2, <3>1
        <5> QED BY <1>4, <1>5, <5>1
      <4> QED BY <4>1, <4>2
    <3>2. CASE n \in 1 .. len
      BY <1>9, <3>2, ThreadFacts DEF MemoryInv
    <3> QED BY <1>2, <3>1, <3>2
  <2>2. \A l \in Location : memory'[l] \in Seq(Messages(l)) /\ Len(memory'[l]) > 0
    <3>1. Len(memory'[SeqAt]) > 0
      BY <1>2, <1>9
    <3>2. \A l \in Location : l # SeqAt => Len(memory'[l]) > 0
      BY <1>9, ThreadFacts DEF MemoryInv
    <3> QED BY <1>9, <3>1, <3>2
  <2>3. \A l \in Payload : memory'[l] = memory[l]
    BY <1>9, LocationFacts
  <2>4. /\ memory'[TagAt] = memory[TagAt]
        /\ \A w \in 1 .. Words : memory'[w] = memory[w]
    BY <2>3, LocationFacts
  <2>5. MemoryInv
    BY ThreadFacts
  <2>6. /\ \A l \in Payload : \A n \in 1 .. Len(memory'[l]) :
             2 * n <= memory'[l][n].view[SeqAt] + 2
        /\ \A w \in 1 .. Words : \A n \in 1 .. Len(memory'[w]) :
             n <= Len(memory'[TagAt]) => memory'[w][n].val = memory'[TagAt][n].val
    BY <2>3, <2>4, <2>5 DEF MemoryInv
  <2>7. \A n \in 1 .. Len(memory'[SeqAt]) :
          /\ memory'[SeqAt][n].val = n - 1
          /\ n % 2 = 1 => \A l \in Payload : n + 1 <= 2 * memory'[SeqAt][n].view[l]
    BY <1>9, <2>1
  <2> QED BY <1>9, <2>2, <2>6, <2>7 DEF MemoryInv
<1>12. WriterInv(t)' /\ ReaderInv(t)' /\ pc'[t] \notin Writing
  BY <1>8 DEF WriterInv, ReaderInv, Writing
<1>13. \A l \in Payload : 2 * Len(memory'[l]) = Len(memory'[SeqAt]) + 1
  <2> SUFFICES ASSUME NEW l \in Payload
               PROVE  2 * Len(memory'[l]) = Len(memory'[SeqAt]) + 1
    OBVIOUS
  <2>1. 2 * Len(memory'[l]) = seq[t] + 4
    BY <1>4, <1>9, LocationFacts
  <2>2. Len(memory'[SeqAt]) + 1 = seq[t] + 4
    BY <1>2, <1>9
  <2> QED BY <2>1, <2>2
<1>14. \A u \in Prober \ {t} : pc[u] \notin Writing
  BY <1>1, WriterFacts
<1> QED BY <1>7, <1>10, <1>11, <1>12, <1>13, <1>14, WriteStep

-----------------------------------------------------------------------------
LEMMA SlotInitially == SlotInit => SlotInv
<1> SUFFICES ASSUME SlotInit PROVE SlotInv
  OBVIOUS
<1>1. /\ Bottom \in Views /\ \A l \in Location : Bottom[l] = 1
      /\ SeqMax \in Nat /\ Words \in Nat \ {0}
  BY CacheAssumption DEF Bottom, Views
<1>2. ThreadsInv
  BY <1>1 DEF SlotInit, ThreadsInv, SlotSteps
<1>3. \A t \in Prober : pc[t] = "idle"
  BY DEF SlotInit
<1> DEFINE first(l) == Message(l, IF l = SeqAt THEN 0 ELSE NoPage, Bottom)
<1>4. ASSUME NEW l \in Location
      PROVE  /\ first(l) \in Messages(l) /\ first(l).view = Bottom
             /\ first(l).val = IF l = SeqAt THEN 0 ELSE NoPage
             /\ memory[l] = <<first(l)>>
  BY <1>1 DEF Message, Messages, Values, SlotInit
<1> HIDE DEF first
<1>5. ASSUME NEW l \in Location
      PROVE  memory[l] \in Seq(Messages(l)) /\ Len(memory[l]) = 1 /\ memory[l][1] = first(l)
  <2> DEFINE m == first(l)
  <2>1. m \in Messages(l) /\ memory[l] = <<m>>
    BY <1>4
  <2> HIDE DEF m
  <2>2. memory[l] \in Seq(Messages(l)) /\ Len(memory[l]) = 1 /\ memory[l][1] = m
    BY <2>1
  <2> QED BY <2>2 DEF m
<1>6. memory = [l \in Location |-> memory[l]]
  BY DEF SlotInit
<1>7. MemoryInv
  BY <1>1, <1>4, <1>5, <1>6, LocationFacts DEF MemoryInv
<1>8. \A l \in Payload : 2 * Len(memory[l]) = Len(memory[SeqAt]) + 1
  <2>1. Len(memory[SeqAt]) = 1 /\ \A l \in Payload : Len(memory[l]) = 1
    BY <1>5, LocationFacts
  <2> SUFFICES ASSUME NEW l \in Payload PROVE 2 * Len(memory[l]) = Len(memory[SeqAt]) + 1
    OBVIOUS
  <2>2. Len(memory[l]) = 1
    BY <2>1
  <2> QED BY <2>1, <2>2
<1>9. \A t \in Prober : WriterInv(t) /\ ReaderInv(t) /\ pc[t] \notin Writing
  BY <1>3 DEF WriterInv, ReaderInv, Writing
<1> QED BY <1>2, <1>7, <1>8, <1>9 DEF SlotInv

LEMMA SlotStep == SlotInv /\ [SlotNext]_slotVars => SlotInv'
<1> SUFFICES ASSUME SlotInv, [SlotNext]_slotVars PROVE SlotInv'
  OBVIOUS
<1>1. CASE UNCHANGED slotVars
  BY <1>1 DEF slotVars, SlotInv, MemoryInv, ThreadsInv, WriterInv, ReaderInv, Replaced
<1>2. ASSUME NEW t \in Prober, Proceed(t) PROVE SlotInv'
  BY <1>2, LoadBeforeStep, LoadTagStep, LoadWordStep, LoadAfterStep, MissStep, ReturnStep,
     ClaimStep, ConflictStep, StoreWordStep, StoreTagStep, StoreSequenceStep DEF Proceed
<1>3. ASSUME NEW t \in Prober, NEW p \in SlotPage, NEW w \in 1 .. Words, Lookup(t, p, w)
      PROVE  SlotInv'
  BY <1>3, LookupStep
<1> QED BY <1>1, <1>2, <1>3 DEF SlotNext

(* A hit returns a word of the page that was looked up, although tag, word *)
(* and sequence are relaxed loads and other threads replace the page at    *)
(* the same time; no reader takes two publications for one                 *)
(* (egtb_shared_probe_get, shared_probe_miss).                             *)
THEOREM HitCorrect == SlotSpec => []HitIsRight
<1>1. ASSUME SlotInv PROVE HitIsRight
  <2>1. MemoryInv /\ ThreadsInv
    BY <1>1 DEF SlotInv
  <2>2. SlotTypeOK
    <3>1. \A l \in Location : \A n \in DOMAIN memory[l] :
            memory[l][n].view \in Views /\ memory[l][n].val \in Values(l)
      <4>1. \A l \in Location : DOMAIN memory[l] = 1 .. Len(memory[l])
        BY <2>1 DEF MemoryInv
      <4> QED BY <2>1, <4>1, MessageFacts
    <3>2. Views \subseteq View
      BY DEF Views, View
    <3> QED BY <2>1, <3>1, <3>2 DEF SlotTypeOK, ThreadsInv, Values
  <2>3. \A t \in Prober : pc[t] \in {"hit", "missed"} => value[t] = page[t]
    BY <1>1 DEF SlotInv, ReaderInv
  <2>4. SlotIsWhole
    <3> SUFFICES ASSUME Newest(SeqAt).val % 2 = 0, NEW w \in 1 .. Words
                 PROVE  Newest(w).val = Newest(TagAt).val
      BY DEF SlotIsWhole
    <3>1. /\ Len(memory[SeqAt]) \in Nat \ {0} /\ Len(memory[w]) \in Nat \ {0}
          /\ Len(memory[TagAt]) \in Nat \ {0} /\ w \in Payload /\ TagAt \in Payload
      BY <2>1, MessageFacts, LocationFacts
    <3>2. Newest(SeqAt).val = Len(memory[SeqAt]) - 1
      <4>1. Len(memory[SeqAt]) \in 1 .. Len(memory[SeqAt])
        BY <3>1
      <4> QED BY <2>1, <4>1 DEF MemoryInv, Newest
    <3>3. Len(memory[SeqAt]) % 2 = 1
      BY <3>1, <3>2, EvenBefore
    <3>4. /\ 2 * Len(memory[w]) = Len(memory[SeqAt]) + 1
          /\ 2 * Len(memory[TagAt]) = Len(memory[SeqAt]) + 1
      BY <1>1, <3>1, <3>3 DEF SlotInv
    <3>5. Len(memory[w]) = Len(memory[TagAt])
      BY <3>1, <3>4
    <3>6. Len(memory[w]) \in 1 .. Len(memory[w]) /\ Len(memory[w]) <= Len(memory[TagAt])
      BY <3>1, <3>5
    <3>7. memory[w][Len(memory[w])].val = memory[TagAt][Len(memory[w])].val
      BY <2>1, <3>6 DEF MemoryInv
    <3> QED BY <3>5, <3>7 DEF Newest
  <2> QED BY <2>2, <2>3, <2>4 DEF HitIsRight
<1> QED BY <1>1, SlotInitially, SlotStep, PTL DEF SlotSpec

-----------------------------------------------------------------------------
(***************************************************************************)
(* The resizing of a cache.                                                *)
(***************************************************************************)
LEMMA CountFacts ==
  ASSUME NEW n \in Nat \ {0}, NEW c, DOMAIN c = 0 .. n - 1
  PROVE  SlotCount(c) = n
<1>1. 0 \in Int /\ n - 1 \in Int /\ n = IF 0 > n - 1 THEN 0 ELSE n - 1 - 0 + 1
  OBVIOUS
<1> QED BY <1>1, FS_Interval DEF SlotCount

LEMMA StorageFacts ==
  ASSUME NEW c, IsStorage(c)
  PROVE  /\ SlotCount(c) \in 1 .. Pages /\ DOMAIN c = 0 .. SlotCount(c) - 1
         /\ \A s \in DOMAIN c : c[s] \in Slot
         /\ DOMAIN c \subseteq Page
<1>1. PICK n \in 1 .. Pages : DOMAIN c = 0 .. n - 1
  BY DEF IsStorage
<1>2. Pages \in Nat \ {0} /\ n \in Nat \ {0}
  BY <1>1, ResizeAssumption
<1>3. SlotCount(c) = n
  BY <1>1, <1>2, CountFacts
<1> QED BY <1>1, <1>2, <1>3 DEF IsStorage, Page

LEMMA SlotOfFacts ==
  ASSUME NEW n \in 1 .. Pages, NEW p \in Page
  PROVE  /\ SlotOf(n, p) \in 0 .. n - 1
         /\ \A q \in Page : SlotOf(n, p) = SlotOf(n, q) /\ p # q => n < Pages
<1>1. Pages \in Nat \ {0} /\ n \in Nat \ {0}
  BY ResizeAssumption
<1>2. \A k \in Nat : k % n \in 0 .. n - 1
  BY <1>1
<1> QED BY <1>1, <1>2 DEF SlotOf, Page

LEMMA SlotFacts ==
  /\ Vacant \in Slot /\ Vacant.tag = NoTag /\ Vacant.sequence = 0
  /\ NoTag \notin Page
  /\ \A p \in Page : Holds(p) \in Slot /\ Holds(p).tag = p /\ Holds(p).sequence = 2
BY ResizeAssumption DEF Vacant, Slot, NoTag, Holds, Page

LEMMA FreshFacts ==
  ASSUME NEW n \in Nat \ {0}
  PROVE  /\ PerSide(n) \in 1 .. Pages
         /\ \A k \in 1 .. Pages : IsStorage(Fresh(k)) /\ Sound(Fresh(k)) /\ SlotCount(Fresh(k)) = k
<1>1. Pages \in Nat \ {0}
  BY ResizeAssumption
<1>2. PerSide(n) \in 1 .. Pages
  BY <1>1 DEF PerSide
<1>3. ASSUME NEW k \in 1 .. Pages
      PROVE  IsStorage(Fresh(k)) /\ Sound(Fresh(k)) /\ SlotCount(Fresh(k)) = k
  <2>1. DOMAIN Fresh(k) = 0 .. k - 1 /\ \A s \in 0 .. k - 1 : Fresh(k)[s] = Vacant
    BY DEF Fresh
  <2>2. k \in Nat \ {0}
    BY <1>1
  <2> QED BY <2>1, <2>2, SlotFacts, CountFacts DEF IsStorage, Sound
<1> QED BY <1>2, <1>3

(* A page of the old storage is in one slot only.                          *)
LEMMA OnePlace ==
  ASSUME Sound(cache), NEW s \in DOMAIN cache, cache[s].tag # NoTag
  PROVE  /\ cache[s].tag \in Page /\ cache[s] = Holds(cache[s].tag)
         /\ \A r \in DOMAIN cache : cache[r].tag = cache[s].tag => r = s
BY SlotFacts DEF Sound

LEMMA ResizeInitially == ResizeInit => ResizeInv
<1> SUFFICES ASSUME ResizeInit PROVE ResizeInv
  OBVIOUS
<1>1. PICK n \in AskedSizes : cache = Fresh(PerSide(n))
  BY DEF ResizeInit
<1>2. n \in Nat \ {0} /\ Pages \in Nat \ {0} /\ PageLength \in Nat \ {0}
  BY ResizeAssumption
<1>3. IsStorage(cache) /\ Sound(cache) /\ IsStorage(next)
  BY <1>1, <1>2, FreshFacts DEF ResizeInit
<1>4. ResizeTypeOK
  BY <1>2, <1>3 DEF ResizeInit, ResizeTypeOK, Page
<1> QED BY <1>3, <1>4 DEF ResizeInit, ResizeInv

LEMMA PublishKeeps ==
  ASSUME ResizeInv, NEW p \in Page, Publish(p)
  PROVE  ResizeInv'
<1> DEFINE n == SlotCount(cache)
           d == SlotOf(n, p)
<1>1. n \in 1 .. Pages /\ DOMAIN cache = 0 .. n - 1 /\ \A s \in DOMAIN cache : cache[s] \in Slot
  BY StorageFacts DEF ResizeInv, ResizeTypeOK
<1>2. d \in DOMAIN cache
  BY <1>1, SlotOfFacts
<1>3. DOMAIN cache' = DOMAIN cache /\ SlotCount(cache') = n
  BY DEF Publish, SlotCount
<1>4. \A s \in DOMAIN cache : cache'[s] = IF s = d THEN Holds(p) ELSE cache[s]
  BY <1>2 DEF Publish
<1>5. IsStorage(cache')
  BY <1>1, <1>3, <1>4, SlotFacts DEF IsStorage
<1>6. Sound(cache)
  BY DEF ResizeInv
<1>7. Sound(cache')
  <2> SUFFICES ASSUME NEW s \in DOMAIN cache
               PROVE  \/ cache'[s] = Vacant
                      \/ \E q \in Page : cache'[s] = Holds(q) /\ SlotOf(n, q) = s
    BY <1>3 DEF Sound
  <2> QED BY <1>4, <1>6 DEF Sound
<1> QED BY <1>5, <1>7 DEF Publish, migration, ResizeInv, ResizeTypeOK

LEMMA StartKeeps ==
  ASSUME ResizeInv, NEW n \in AskedSizes, StartMigration(n)
  PROVE  ResizeInv'
<1> DEFINE k == PerSide(n)
<1>1. k \in 1 .. Pages /\ IsStorage(Fresh(k)) /\ SlotCount(Fresh(k)) = k
  BY FreshFacts, ResizeAssumption
<1>2. ResizeTypeOK'
  BY <1>1, StorageFacts DEF ResizeInv, ResizeTypeOK, StartMigration, Ranges
<1>3. Copied' = {} /\ collisions' = {} /\ todo' = DOMAIN cache'
  BY DEF Copied, StartMigration, Ranges
<1>4. \A w \in Worker : claimed'[w] = NoTag
  BY DEF StartMigration, ResizeInv
<1>5. \A d \in DOMAIN next' : next'[d] = Vacant
  BY DEF StartMigration, Fresh
<1>6. DestinationsInv' /\ CopiesInv'
  BY <1>3, <1>4, <1>5 DEF DestinationsInv, CopiesInv
<1> QED BY <1>2, <1>6 DEF ResizeInv, StartMigration

(* What a migration is about stays, but for the claims and the copies.     *)
LEMMA MigrationFacts ==
  ASSUME ResizeInv, stage = "migrate"
  PROVE  /\ DestinationsInv /\ CopiesInv /\ Sound(cache) /\ ResizeTypeOK
         /\ SlotCount(next) \in 1 .. Pages /\ DOMAIN next = 0 .. SlotCount(next) - 1
         /\ DOMAIN next \subseteq Page /\ DOMAIN cache \subseteq Page
         /\ \A p \in Page : SlotOf(SlotCount(next), p) \in DOMAIN next
BY StorageFacts, SlotOfFacts DEF ResizeInv, ResizeTypeOK

LEMMA SkipKeeps ==
  ASSUME ResizeInv, NEW w \in Worker, NEW s \in Page, SkipVacant(w, s)
  PROVE  ResizeInv'
<1>1. stage = "migrate" /\ s \in todo
  BY DEF SkipVacant, Turn
<1>2. DestinationsInv /\ CopiesInv /\ Sound(cache) /\ ResizeTypeOK
  BY <1>1, MigrationFacts
<1>3. s \in DOMAIN cache /\ Copied' = Copied \cup {s}
  BY <1>1, <1>2 DEF Copied, SkipVacant, DestinationsInv
<1>4. \A v \in Worker : \A d : Filling(v, d) => Filling(v, d)'
  BY <1>3 DEF Filling, SkipVacant
<1>5. \A d, p : Filled(d, p) => Filled(d, p)'
  BY <1>3 DEF Filled, SkipVacant
<1>6. \A p, d : Takes(p, d) => Takes(p, d)'
  BY <1>4, <1>5 DEF Takes, SkipVacant
<1>7. DestinationsInv'
  BY <1>2, <1>4, <1>5 DEF DestinationsInv, SkipVacant
<1>8. CopiesInv'
  BY <1>2, <1>3, <1>6 DEF CopiesInv, SkipVacant
<1> QED BY <1>2, <1>7, <1>8, <1>1 DEF ResizeInv, ResizeTypeOK, SkipVacant, Sound

(* The slot found taken is taken by another page.                          *)
LEMMA CollideKeeps ==
  ASSUME ResizeInv, NEW w \in Worker, NEW s \in Page, Collide(w, s)
  PROVE  ResizeInv'
<1> DEFINE p == cache[s].tag
           d == SlotOf(SlotCount(next), p)
<1>1. stage = "migrate" /\ s \in todo /\ p # NoTag
  BY DEF Collide, Turn
<1>2. DestinationsInv /\ CopiesInv /\ Sound(cache) /\ ResizeTypeOK
  BY <1>1, MigrationFacts
<1>3. s \in DOMAIN cache /\ s \notin Copied /\ Copied' = Copied \cup {s}
  BY <1>1, <1>2 DEF Copied, Collide, DestinationsInv
<1>4. \A v \in Worker : \A e : Filling(v, e) => Filling(v, e)'
  BY <1>3 DEF Filling, Collide
<1>5. \A e, q : Filled(e, q) => Filled(e, q)'
  BY <1>3 DEF Filled, Collide
<1>6. \A q, e : Takes(q, e) => Takes(q, e)'
  BY <1>4, <1>5 DEF Takes, Collide
<1>7. DestinationsInv'
  BY <1>2, <1>4, <1>5 DEF DestinationsInv, Collide
<1>8. p \in Page /\ \A r \in Copied : cache[r].tag # p
  BY <1>1, <1>2, <1>3, OnePlace DEF Copied
<1>9. d \in DOMAIN next /\ next[d] # Vacant
  BY <1>1, <1>8, MigrationFacts, SlotFacts DEF Collide, Unclaimed, Destination
<1>10. \E q \in Page \ {p} : Takes(q, d)
  <2>1. CASE \E q \in Page : Filled(d, q)
    BY <2>1, <1>8 DEF Filled, Takes
  <2>2. CASE \E v \in Worker : Filling(v, d)
    BY <2>2, <1>8 DEF Filling, Takes
  <2> QED BY <2>1, <2>2, <1>2, <1>9 DEF DestinationsInv
<1>11. CopiesInv'
  <2>1. \A q \in collisions' : \E r \in Copied' : cache'[r].tag = q
    BY <1>2, <1>3 DEF CopiesInv, Collide
  <2>2. ASSUME NEW r \in Copied', cache'[r].tag # NoTag
        PROVE  LET q == cache[r].tag  e == SlotOf(SlotCount(next), q) IN
               IF q \in collisions' THEN \E x \in Page \ {q} : Takes(x, e)' ELSE Takes(q, e)'
    <3>1. CASE r = s
      BY <3>1, <1>6, <1>10 DEF Collide
    <3>2. CASE r # s
      <4>1. r \in Copied /\ cache[r].tag # p /\ cache[r].tag # NoTag
        BY <3>2, <2>2, <1>3, <1>8 DEF Collide
      <4> QED BY <4>1, <1>2, <1>6 DEF CopiesInv, Collide
    <3> QED BY <3>1, <3>2
  <2> QED BY <2>1, <2>2 DEF CopiesInv, Collide
<1> QED BY <1>1, <1>2, <1>7, <1>8, <1>11 DEF ResizeInv, ResizeTypeOK, Collide, Sound

LEMMA ClaimKeeps ==
  ASSUME ResizeInv, NEW w \in Worker, NEW s \in Page, ClaimSlot(w, s)
  PROVE  ResizeInv'
<1>0. PICK p, d : p = cache[s].tag /\ d = SlotOf(SlotCount(next), p)
  OBVIOUS
<1>1. stage = "migrate" /\ s \in todo /\ p # NoTag /\ claimed[w] = NoTag
  BY <1>0 DEF ClaimSlot, Turn
<1>2. DestinationsInv /\ CopiesInv /\ Sound(cache) /\ ResizeTypeOK
  BY <1>1, MigrationFacts
<1>3. s \in DOMAIN cache /\ s \notin Copied /\ Copied' = Copied \cup {s}
  BY <1>1, <1>2 DEF Copied, ClaimSlot, DestinationsInv
<1>4. p \in Page /\ \A r \in Copied : cache[r].tag # p
  BY <1>0, <1>1, <1>2, <1>3, OnePlace DEF Copied
<1>5. d \in DOMAIN next /\ DOMAIN next \subseteq Page /\ next[d].sequence = 0
  BY <1>0, <1>1, <1>4, MigrationFacts DEF ClaimSlot, Unclaimed, Destination
<1>6. next[d] = Vacant
  BY <1>2, <1>5, SlotFacts DEF DestinationsInv, Filled, Filling
<1>7. /\ next' = [next EXCEPT ![d].sequence = 1] /\ UNCHANGED <<cache, stage, collisions>>
      /\ claimed' = [claimed EXCEPT ![w] = d] /\ source' = [source EXCEPT ![w] = s]
      /\ copied' = [copied EXCEPT ![w] = 0] /\ todo' = todo \ {s}
  BY <1>0 DEF ClaimSlot, Destination
<1>8. /\ DOMAIN next' = DOMAIN next /\ SlotCount(next') = SlotCount(next)
      /\ \A e \in DOMAIN next : e # d => next'[e] = next[e]
      /\ next'[d] = [Vacant EXCEPT !.sequence = 1]
  BY <1>5, <1>6, <1>7 DEF SlotCount
<1>9. \A v \in Worker : v # w =>
        claimed'[v] = claimed[v] /\ source'[v] = source[v] /\ copied'[v] = copied[v]
  BY <1>2, <1>7 DEF ResizeTypeOK
<1>10. claimed'[w] = d /\ source'[w] = s /\ copied'[w] = 0
  BY <1>2, <1>7 DEF ResizeTypeOK
<1>11. Filling(w, d)' /\ cache'[source'[w]].tag = p
  <2>1. next'[d] = [sequence |-> 1, tag |-> NoTag,
                    words |-> [k \in 1 .. PageLength |-> IF k <= 0 THEN p ELSE NoTag]]
    <3>1. \A k \in 1 .. PageLength : ~(k <= 0)
      OBVIOUS
    <3>2. [k \in 1 .. PageLength |-> NoTag]
            = [k \in 1 .. PageLength |-> IF k <= 0 THEN p ELSE NoTag]
      BY <3>1
    <3> QED BY <1>8, <3>2 DEF Vacant
  <2>2. cache'[source'[w]].tag = p
    BY <1>0, <1>7, <1>10
  <2>3. next'[d] = [sequence |-> 1, tag |-> NoTag,
                    words |-> [k \in 1 .. PageLength |->
                                IF k <= copied'[w] THEN cache'[source'[w]].tag ELSE NoTag]]
    BY <2>1, <2>2, <1>10
  <2>4. /\ claimed'[w] = d /\ source'[w] \in Copied'
        /\ cache'[source'[w]].tag \in Page
        /\ SlotOf(SlotCount(next'), cache'[source'[w]].tag) = d
    BY <2>2, <1>0, <1>3, <1>4, <1>8, <1>10
  <2> QED BY <2>2, <2>3, <2>4 DEF Filling
<1>12. \A v \in Worker, e \in DOMAIN next : Filling(v, e) => v # w /\ e # d /\ Filling(v, e)'
  <2> SUFFICES ASSUME NEW v \in Worker, NEW e \in DOMAIN next, Filling(v, e)
               PROVE  v # w /\ e # d /\ Filling(v, e)'
    OBVIOUS
  <2>1. v # w /\ e # d
    BY <1>1, <1>5, <1>6, SlotFacts DEF Filling
  <2> QED BY <2>1, <1>3, <1>7, <1>8, <1>9 DEF Filling
<1>13. \A e \in DOMAIN next, q \in Page : Filled(e, q) => e # d /\ Filled(e, q)'
  BY <1>3, <1>6, <1>7, <1>8, SlotFacts DEF Filled
<1>14. \A q \in Page, e \in DOMAIN next : Takes(q, e) => Takes(q, e)'
  BY <1>7, <1>9, <1>12, <1>13 DEF Takes
<1>15. DestinationsInv'
  <2>1. todo' \subseteq DOMAIN cache'
    BY <1>2, <1>7 DEF DestinationsInv
  <2>2. ASSUME NEW v \in Worker, claimed'[v] # NoTag
        PROVE  claimed'[v] \in DOMAIN next' /\ Filling(v, claimed[v])'
    BY <2>2, <1>2, <1>5, <1>8, <1>9, <1>10, <1>11, <1>12 DEF DestinationsInv
  <2>3. ASSUME NEW v \in Worker, NEW u \in Worker, claimed'[v] = claimed'[u], claimed'[v] # NoTag
        PROVE  v = u
    BY <2>3, <1>2, <1>9, <1>10, <1>12 DEF DestinationsInv
  <2>4. ASSUME NEW e \in DOMAIN next'
        PROVE  \/ next'[e] = Vacant \/ (\E q \in Page : Filled(e, q)')
               \/ (\E v \in Worker : Filling(v, e)')
    BY <1>2, <1>8, <1>11, <1>12, <1>13 DEF DestinationsInv
  <2> QED BY <2>1, <2>2, <2>3, <2>4 DEF DestinationsInv
<1>16. CopiesInv'
  <2>1. \A q \in collisions' : \E r \in Copied' : cache'[r].tag = q
    BY <1>2, <1>3, <1>7 DEF CopiesInv
  <2>2. ASSUME NEW r \in Copied', NEW q, NEW e, q = cache[r].tag, q # NoTag,
               e = SlotOf(SlotCount(next), q)
        PROVE  IF q \in collisions THEN \E x \in Page \ {q} : Takes(x, e)' ELSE Takes(q, e)'
    <3>1. CASE r = s
      <4>1. q = p /\ e = d /\ p \notin collisions
        BY <3>1, <2>2, <1>0, <1>2, <1>4 DEF CopiesInv
      <4> QED BY <4>1, <1>11 DEF Takes
    <3>2. CASE r # s
      <4>1. r \in Copied /\ r \in DOMAIN cache
        BY <3>2, <1>3, <1>7 DEF Copied
      <4>2. q \in Page
        BY <4>1, <2>2, <1>2, OnePlace
      <4>3. e \in DOMAIN next
        BY <4>2, <2>2, <1>1, MigrationFacts
      <4>4. IF q \in collisions THEN \E x \in Page \ {q} : Takes(x, e) ELSE Takes(q, e)
        BY <4>1, <2>2, <1>2 DEF CopiesInv
      <4> QED BY <4>2, <4>3, <4>4, <1>14
    <3> QED BY <3>1, <3>2
  <2> QED BY <2>1, <2>2, <1>7, <1>8 DEF CopiesInv
<1>17. ResizeTypeOK'
  <2>1. IsStorage(next')
    <3>1. next'[d] \in Slot
      BY <1>8, ResizeAssumption DEF Vacant, Slot
    <3> QED BY <3>1, <1>2, <1>8 DEF ResizeTypeOK, IsStorage
  <2> QED BY <2>1, <1>2, <1>5, <1>7, ResizeAssumption DEF ResizeTypeOK
<1> QED BY <1>1, <1>2, <1>7, <1>15, <1>16, <1>17 DEF ResizeInv, Sound

(* The worker that fills a slot is its only one. *)
LEMMA FillingFacts ==
  ASSUME DestinationsInv, Sound(cache), ResizeTypeOK, NEW w \in Worker, claimed[w] # NoTag
  PROVE  \E p \in Page, d \in DOMAIN next :
           /\ d = claimed[w] /\ p = cache[source[w]].tag /\ Filling(w, d)
           /\ source[w] \in Copied /\ cache[source[w]] = Holds(p)
           /\ SlotOf(SlotCount(next), p) = d
           /\ \A v \in Worker : Filling(v, d) => v = w
           /\ \A q \in Page : ~Filled(d, q)
<1> DEFINE p == cache[source[w]].tag
<1>1. claimed[w] \in DOMAIN next /\ Filling(w, claimed[w])
  BY DEF DestinationsInv
<1>2. p \in Page /\ source[w] \in Copied /\ SlotOf(SlotCount(next), p) = claimed[w]
  BY <1>1 DEF Filling
<1>3. cache[source[w]] = Holds(p)
  BY <1>2, SlotFacts, OnePlace DEF Copied
<1>4. \A v \in Worker : Filling(v, claimed[w]) => v = w
  BY DEF DestinationsInv, Filling
<1>5. \A q \in Page : ~Filled(claimed[w], q)
  BY <1>1 DEF Filling, Filled, Holds
<1> QED BY <1>1, <1>2, <1>3, <1>4, <1>5

LEMMA CopyKeeps ==
  ASSUME ResizeInv, NEW w \in Worker, CopyWord(w)
  PROVE  ResizeInv'
<1>1. claimed[w] # NoTag /\ stage = "migrate"
  BY DEF CopyWord, ResizeInv
<1>2. DestinationsInv /\ CopiesInv /\ Sound(cache) /\ ResizeTypeOK
  BY <1>1, MigrationFacts
<1>3. PICK p \in Page, d \in DOMAIN next :
           /\ d = claimed[w] /\ p = cache[source[w]].tag /\ Filling(w, d)
           /\ source[w] \in Copied /\ cache[source[w]] = Holds(p)
           /\ SlotOf(SlotCount(next), p) = d
           /\ \A v \in Worker : Filling(v, d) => v = w
           /\ \A q \in Page : ~Filled(d, q)
  BY <1>1, <1>2, FillingFacts
<1>4. PICK k : k = copied[w] + 1
  OBVIOUS
<1>5. k \in 1 .. PageLength /\ copied[w] \in Nat /\ cache[source[w]].words[k] = p
  <2>1. copied[w] \in 0 .. PageLength /\ PageLength \in Nat /\ copied[w] < PageLength
    BY <1>2, ResizeAssumption DEF ResizeTypeOK, CopyWord
  <2>2. k \in 1 .. PageLength /\ copied[w] \in Nat
    BY <2>1, <1>4
  <2> QED BY <2>2, <1>3 DEF Holds
<1>6. /\ next' = [next EXCEPT ![d].words[k] = p] /\ copied' = [copied EXCEPT ![w] = k]
      /\ UNCHANGED <<cache, stage, todo, claimed, source, collisions>>
  BY <1>3, <1>4, <1>5 DEF CopyWord
<1>7. /\ DOMAIN next' = DOMAIN next /\ SlotCount(next') = SlotCount(next)
      /\ \A e \in DOMAIN next : e # d => next'[e] = next[e]
      /\ next'[d] = [next[d] EXCEPT !.words[k] = p] /\ Copied' = Copied
  BY <1>6 DEF SlotCount, Copied
<1>8. copied'[w] = k /\ \A v \in Worker : v # w => copied'[v] = copied[v]
  BY <1>2, <1>6 DEF ResizeTypeOK
<1>9. next'[d] = [sequence |-> 1, tag |-> NoTag,
                  words |-> [j \in 1 .. PageLength |-> IF j <= k THEN p ELSE NoTag]]
  <2> DEFINE F(n) == [j \in 1 .. PageLength |-> IF j <= n THEN p ELSE NoTag]
  <2>1. next[d] = [sequence |-> 1, tag |-> NoTag, words |-> F(copied[w])]
    BY <1>3 DEF Filling
  <2>2. [F(copied[w]) EXCEPT ![k] = p] = F(k)
    <3>1. \A j \in 1 .. PageLength : j <= k <=> j <= copied[w] \/ j = k
      BY <1>4, <1>5
    <3> QED BY <3>1, <1>5
  <2>3. next'[d] = [sequence |-> 1, tag |-> NoTag, words |-> F(k)]
    <3> HIDE DEF F
    <3>1. next'[d] = [sequence |-> 1, tag |-> NoTag, words |-> [F(copied[w]) EXCEPT ![k] = p]]
      BY <1>7, <2>1
    <3> QED BY <3>1, <2>2
  <2> QED BY <2>3
<1>9a. Filling(w, d)'
  <2>1. cache'[source'[w]].tag = p /\ claimed'[w] = d /\ source'[w] \in Copied'
    BY <1>3, <1>6, <1>7
  <2>2. next'[d] = [sequence |-> 1, tag |-> NoTag,
                    words |-> [j \in 1 .. PageLength |->
                                IF j <= copied'[w] THEN cache'[source'[w]].tag ELSE NoTag]]
    BY <2>1, <1>8, <1>9
  <2> QED BY <2>1, <2>2, <1>3, <1>7 DEF Filling
<1>10. \A v \in Worker, e \in DOMAIN next : Filling(v, e) => Filling(v, e)'
  <2> SUFFICES ASSUME NEW v \in Worker, NEW e \in DOMAIN next, Filling(v, e), v # w
               PROVE  Filling(v, e)'
    BY <1>3, <1>9a DEF Filling
  <2>1. e # d
    BY <1>3
  <2> QED BY <2>1, <1>6, <1>7, <1>8 DEF Filling
<1>11. \A q \in Page, e \in DOMAIN next : Filled(e, q) => Filled(e, q)'
  BY <1>3, <1>6, <1>7 DEF Filled
<1>12. \A q \in Page, e \in DOMAIN next : Takes(q, e) => Takes(q, e)'
  BY <1>6, <1>10, <1>11 DEF Takes
<1>13. DestinationsInv'
  <2>1. ASSUME NEW v \in Worker, claimed'[v] # NoTag
        PROVE  claimed'[v] \in DOMAIN next' /\ Filling(v, claimed[v])'
    BY <2>1, <1>2, <1>6, <1>7, <1>10 DEF DestinationsInv
  <2>2. ASSUME NEW e \in DOMAIN next'
        PROVE  \/ next'[e] = Vacant \/ (\E q \in Page : Filled(e, q)')
               \/ (\E v \in Worker : Filling(v, e)')
    BY <1>2, <1>3, <1>7, <1>9a, <1>10, <1>11 DEF DestinationsInv
  <2> QED BY <2>1, <2>2, <1>2, <1>6 DEF DestinationsInv
<1>14. CopiesInv'
  <2>1. ASSUME NEW r \in Copied, NEW q, NEW e, q = cache[r].tag, q # NoTag,
               e = SlotOf(SlotCount(next), q)
        PROVE  IF q \in collisions THEN \E x \in Page \ {q} : Takes(x, e)' ELSE Takes(q, e)'
    <3>1. q \in Page
      BY <2>1, <1>2, OnePlace DEF Copied
    <3>2. e \in DOMAIN next
      BY <3>1, <2>1, <1>1, MigrationFacts
    <3>3. IF q \in collisions THEN \E x \in Page \ {q} : Takes(x, e) ELSE Takes(q, e)
      BY <2>1, <1>2 DEF CopiesInv
    <3> QED BY <3>1, <3>2, <3>3, <1>12
  <2> QED BY <2>1, <1>2, <1>6, <1>7 DEF CopiesInv
<1>15. ResizeTypeOK'
  <2>1. next'[d] \in Slot
    BY <1>9 DEF Slot
  <2>2. IsStorage(next')
    BY <2>1, <1>2, <1>7 DEF ResizeTypeOK, IsStorage
  <2>3. k \in 0 .. PageLength
    BY <1>5
  <2> QED BY <2>2, <2>3, <1>2, <1>6 DEF ResizeTypeOK
<1> QED BY <1>1, <1>2, <1>6, <1>13, <1>14, <1>15 DEF ResizeInv, Sound

LEMMA FinishKeeps ==
  ASSUME ResizeInv, NEW w \in Worker, FinishCopy(w)
  PROVE  ResizeInv'
<1>1. claimed[w] # NoTag /\ stage = "migrate"
  BY DEF FinishCopy, ResizeInv
<1>2. DestinationsInv /\ CopiesInv /\ Sound(cache) /\ ResizeTypeOK
  BY <1>1, MigrationFacts
<1>3. PICK p \in Page, d \in DOMAIN next :
           /\ d = claimed[w] /\ p = cache[source[w]].tag /\ Filling(w, d)
           /\ source[w] \in Copied /\ cache[source[w]] = Holds(p)
           /\ SlotOf(SlotCount(next), p) = d
           /\ \A v \in Worker : Filling(v, d) => v = w
           /\ \A q \in Page : ~Filled(d, q)
  BY <1>1, <1>2, FillingFacts
<1>4. /\ next' = [next EXCEPT ![d].tag = p, ![d].sequence = 2]
      /\ claimed' = [claimed EXCEPT ![w] = NoTag]
      /\ UNCHANGED <<cache, stage, todo, source, copied, collisions>>
  BY <1>3 DEF FinishCopy
<1>5. /\ DOMAIN next' = DOMAIN next /\ SlotCount(next') = SlotCount(next)
      /\ \A e \in DOMAIN next : e # d => next'[e] = next[e]
      /\ next'[d] = [next[d] EXCEPT !.tag = p, !.sequence = 2] /\ Copied' = Copied
  BY <1>4 DEF SlotCount, Copied
<1>6. claimed'[w] = NoTag /\ \A v \in Worker : v # w => claimed'[v] = claimed[v]
  BY <1>2, <1>4 DEF ResizeTypeOK
<1>7. next'[d] = Holds(p)
  <2>1. [j \in 1 .. PageLength |-> IF j <= copied[w] THEN p ELSE NoTag]
          = [j \in 1 .. PageLength |-> p]
    BY DEF FinishCopy
  <2>2. next[d] = [sequence |-> 1, tag |-> NoTag, words |-> [j \in 1 .. PageLength |-> p]]
    BY <1>3, <2>1 DEF Filling
  <2>3. PICK f : f = [j \in 1 .. PageLength |-> p]
    OBVIOUS
  <2>4. next[d] = [sequence |-> 1, tag |-> NoTag, words |-> f]
    BY <2>2, <2>3
  <2>5. [[next[d] EXCEPT !.tag = p] EXCEPT !.sequence = 2]
          = [sequence |-> 2, tag |-> p, words |-> f]
    <3>1. PICK g : g = next[d]
      OBVIOUS
    <3>2. PICK h : h = [g EXCEPT !.tag = p]
      OBVIOUS
    <3>3. h = [sequence |-> 1, tag |-> p, words |-> f]
      BY <2>4, <3>1, <3>2
    <3>4. [h EXCEPT !.sequence = 2] = [sequence |-> 2, tag |-> p, words |-> f]
      BY <3>3
    <3> QED BY <3>1, <3>2, <3>4
  <2>6. next'[d] = [sequence |-> 2, tag |-> p, words |-> f]
    BY <2>5, <1>4, <1>5
  <2> QED BY <2>3, <2>6 DEF Holds
<1>8. Filled(d, p)'
  BY <1>3, <1>4, <1>5, <1>7 DEF Filled
<1>9. \A v \in Worker, e \in DOMAIN next : Filling(v, e) /\ v # w => Filling(v, e)'
  <2> SUFFICES ASSUME NEW v \in Worker, NEW e \in DOMAIN next, Filling(v, e), v # w
               PROVE  Filling(v, e)'
    OBVIOUS
  <2>1. e # d
    BY <1>3
  <2> QED BY <2>1, <1>4, <1>5, <1>6 DEF Filling
<1>10. \A q \in Page, e \in DOMAIN next : Filled(e, q) => Filled(e, q)'
  BY <1>3, <1>4, <1>5 DEF Filled
<1>11. \A e \in DOMAIN next : Filling(w, e) => e = d
  BY <1>3 DEF Filling
<1>12. \A q \in Page, e \in DOMAIN next : Takes(q, e) => Takes(q, e)'
  BY <1>3, <1>4, <1>8, <1>9, <1>10, <1>11 DEF Takes
<1>13. DestinationsInv'
  <2>1. ASSUME NEW v \in Worker, claimed'[v] # NoTag
        PROVE  v # w /\ claimed'[v] \in DOMAIN next' /\ Filling(v, claimed[v])'
    BY <2>1, <1>2, <1>5, <1>6, <1>9 DEF DestinationsInv
  <2>2. ASSUME NEW e \in DOMAIN next'
        PROVE  \/ next'[e] = Vacant \/ (\E q \in Page : Filled(e, q)')
               \/ (\E v \in Worker : Filling(v, e)')
    BY <1>2, <1>5, <1>8, <1>9, <1>10, <1>11 DEF DestinationsInv
  <2>3. \A v \in Worker : claimed'[v] # NoTag => claimed'[v] = claimed[v]
    BY <1>6
  <2>4. ASSUME NEW v \in Worker, claimed'[v] # NoTag
        PROVE  Filling(v, claimed[v])' /\ claimed'[v] = claimed[v]
    BY <2>1, <2>3, <2>4
  <2> QED BY <2>1, <2>2, <2>3, <2>4, <1>2, <1>4 DEF DestinationsInv
<1>14. CopiesInv'
  <2>1. ASSUME NEW r \in Copied, NEW q, NEW e, q = cache[r].tag, q # NoTag,
               e = SlotOf(SlotCount(next), q)
        PROVE  IF q \in collisions THEN \E x \in Page \ {q} : Takes(x, e)' ELSE Takes(q, e)'
    <3>1. q \in Page
      BY <2>1, <1>2, OnePlace DEF Copied
    <3>2. e \in DOMAIN next
      BY <3>1, <2>1, <1>1, MigrationFacts
    <3>3. IF q \in collisions THEN \E x \in Page \ {q} : Takes(x, e) ELSE Takes(q, e)
      BY <2>1, <1>2 DEF CopiesInv
    <3> QED BY <3>1, <3>2, <3>3, <1>12
  <2> QED BY <2>1, <1>2, <1>4, <1>5 DEF CopiesInv
<1>15. ResizeTypeOK'
  <2>1. IsStorage(next')
    BY <1>2, <1>5, <1>7, SlotFacts DEF ResizeTypeOK, IsStorage
  <2> QED BY <2>1, <1>2, <1>4 DEF ResizeTypeOK
<1> QED BY <1>1, <1>2, <1>4, <1>13, <1>14, <1>15 DEF ResizeInv, Sound

(* The finished storage is sound, and nothing that could be kept is lost.  *)
LEMMA SwapKeeps ==
  ASSUME ResizeInv, SwapStorage
  PROVE  ResizeInv' /\ NothingLost
<1>1. stage = "migrate" /\ stage' = "idle" /\ todo = {} /\ cache' = next
      /\ (\A w \in Worker : claimed[w] = NoTag) /\ UNCHANGED migration
  BY DEF SwapStorage, Migrated
<1>2. DestinationsInv /\ CopiesInv /\ Sound(cache) /\ ResizeTypeOK
  BY <1>1, MigrationFacts
<1>3. \A w \in Worker, d \in DOMAIN next : ~Filling(w, d)
  BY <1>1, <1>2, MigrationFacts, SlotFacts DEF Filling
<1>4. \A d \in DOMAIN next : next[d] = Vacant \/ \E p \in Page : Filled(d, p)
  BY <1>2, <1>3 DEF DestinationsInv
<1>5. Sound(cache')
  BY <1>1, <1>4 DEF Sound, Filled
<1>6. ResizeInv'
  BY <1>1, <1>2, <1>5 DEF ResizeInv, ResizeTypeOK, migration
<1>7. ASSUME NEW s \in DOMAIN cache, NEW p, NEW d, p = cache[s].tag, p # NoTag,
             d = SlotOf(SlotCount(next), p)
      PROVE  IF p \in collisions
               THEN SlotCount(next) < Pages /\ next[d].tag \notin {NoTag, p}
               ELSE next[d].tag = p
  <2>1. p \in Page /\ d \in DOMAIN next /\ s \in Copied
    BY <1>7, <1>1, <1>2, OnePlace, MigrationFacts DEF Copied
  <2>2. \A q : Takes(q, d) => Filled(d, q)
    BY <1>3, <2>1 DEF Takes
  <2>3. CASE p \notin collisions
    BY <2>1, <2>2, <2>3, <1>2, <1>7, SlotFacts DEF CopiesInv, Filled
  <2>4. CASE p \in collisions
    <3>1. PICK q \in Page \ {p} : Filled(d, q)
      BY <2>1, <2>2, <2>4, <1>2, <1>7 DEF CopiesInv
    <3>2. SlotOf(SlotCount(next), q) = d /\ next[d].tag = q /\ q # NoTag
      BY <3>1, SlotFacts DEF Filled
    <3>3. SlotCount(next) < Pages
      BY <3>1, <3>2, <2>1, <1>1, <1>7, SlotOfFacts, MigrationFacts
    <3> QED BY <3>1, <3>2, <3>3, <2>4
  <2> QED BY <2>3, <2>4
<1>8. NothingLost
  BY <1>1, <1>7 DEF NothingLost
<1> QED BY <1>6, <1>8

LEMMA DiscardKeeps ==
  ASSUME ResizeInv, \/ \E n \in AskedSizes : DiscardCache(n) \/ GrowDiscarded(n)
                    \/ GrowthFails
  PROVE  ResizeInv'
<1>1. stage # "migrate" /\ stage' # "migrate" /\ stage' \in {"idle", "migrate", "discarded"}
      /\ UNCHANGED migration
  BY DEF DiscardCache, GrowDiscarded, GrowthFails
<1>2. UNCHANGED cache \/ \E k \in 1 .. Pages : cache' = Fresh(k)
  <2>1. 1 \in 1 .. Pages
    BY ResizeAssumption
  <2>2. \A n \in AskedSizes : PerSide(n) \in 1 .. Pages
    BY ResizeAssumption, FreshFacts
  <2> QED BY <2>1, <2>2 DEF DiscardCache, GrowDiscarded, GrowthFails
<1>3. IsStorage(cache') /\ Sound(cache')
  BY <1>2, FreshFacts DEF ResizeInv, ResizeTypeOK
<1> QED BY <1>1, <1>3 DEF ResizeInv, ResizeTypeOK, migration

LEMMA ResizeStep == ResizeInv /\ [ResizeNext]_resizeVars => ResizeInv' /\ NothingLost
<1> SUFFICES ASSUME ResizeInv, [ResizeNext]_resizeVars PROVE ResizeInv' /\ NothingLost
  OBVIOUS
<1>1. ASSUME NEW p \in Page, Publish(p) PROVE ResizeInv' /\ NothingLost
  BY <1>1, PublishKeeps DEF Publish, NothingLost
<1>2. ASSUME NEW n \in AskedSizes, StartMigration(n) PROVE ResizeInv' /\ NothingLost
  BY <1>2, StartKeeps DEF StartMigration, NothingLost
<1>3. ASSUME \/ \E n \in AskedSizes : DiscardCache(n) \/ GrowDiscarded(n)
             \/ GrowthFails
      PROVE  ResizeInv' /\ NothingLost
  BY <1>3, DiscardKeeps DEF DiscardCache, GrowDiscarded, GrowthFails, NothingLost
<1>4. ASSUME NEW w \in Worker, NEW s \in Page, SkipVacant(w, s)
      PROVE  ResizeInv' /\ NothingLost
  BY <1>4, SkipKeeps DEF SkipVacant, Turn, NothingLost
<1>5. ASSUME NEW w \in Worker, NEW s \in Page, ClaimSlot(w, s)
      PROVE  ResizeInv' /\ NothingLost
  BY <1>5, ClaimKeeps DEF ClaimSlot, Turn, NothingLost
<1>6. ASSUME NEW w \in Worker, NEW s \in Page, Collide(w, s)
      PROVE  ResizeInv' /\ NothingLost
  BY <1>6, CollideKeeps DEF Collide, Turn, NothingLost
<1>7. ASSUME NEW w \in Worker, CopyWord(w) PROVE ResizeInv' /\ NothingLost
  BY <1>7, CopyKeeps DEF CopyWord, NothingLost
<1>8. ASSUME NEW w \in Worker, FinishCopy(w) PROVE ResizeInv' /\ NothingLost
  BY <1>8, FinishKeeps DEF FinishCopy, NothingLost
<1>9. CASE SwapStorage
  BY <1>9, SwapKeeps
<1>10. CASE UNCHANGED resizeVars
  <2>1. NothingLost
    BY <1>10 DEF resizeVars, NothingLost
  <2>2. \A v, d : Filling(v, d) <=> Filling(v, d)'
    BY <1>10 DEF resizeVars, Filling, Copied
  <2>3. \A d, p : Filled(d, p) <=> Filled(d, p)'
    BY <1>10 DEF resizeVars, Filled, Copied
  <2>4. \A p, d : Takes(p, d) <=> Takes(p, d)'
    BY <1>10, <2>2, <2>3 DEF resizeVars, Takes
  <2>5. DestinationsInv => DestinationsInv'
    BY <1>10, <2>2, <2>3 DEF resizeVars, DestinationsInv
  <2>6. CopiesInv => CopiesInv'
    BY <1>10, <2>4 DEF resizeVars, CopiesInv, Copied
  <2>7. ResizeInv'
    BY <1>10, <2>5, <2>6 DEF resizeVars, ResizeInv, ResizeTypeOK, Sound
  <2> QED BY <2>1, <2>7
<1> QED BY <1>1, <1>2, <1>3, <1>4, <1>5, <1>6, <1>7, <1>8, <1>9, <1>10 DEF ResizeNext

(* Whichever pages meet in a destination and however the workers            *)
(* interleave, a migration keeps every page or has another one in its slot, *)
(* and the cache is sound after every resize (egtb_shared_cache_resize,     *)
(* egtb_shared_cache_discard_resize).                                       *)
THEOREM ResizeCorrect == ResizeSpec => ResizeKeepsPages
<1>1. ResizeInv /\ [ResizeNext]_resizeVars
        => [NothingLost /\ (ResizeTypeOK /\ CacheIsSound)']_resizeVars
  BY ResizeStep DEF ResizeInv, CacheIsSound, Sound
<1>2. ResizeInv /\ [ResizeNext]_resizeVars => ResizeInv'
  BY ResizeStep
<1> QED BY <1>1, <1>2, ResizeInitially, PTL DEF ResizeSpec, ResizeKeepsPages

-----------------------------------------------------------------------------
(***************************************************************************)
(* The pool.  Sums are over finite sets of tables, and by least            *)
(* counterexample.                                                         *)
(***************************************************************************)
LEMMA LeastNatural ==
  ASSUME NEW T \in SUBSET Nat, T # {}
  PROVE  \E x \in T : \A y \in T : x <= y
<1> DEFINE R == {ss \in Nat \X Nat : ss[1] < ss[2]}
<1>1. IsWellFoundedOn(R, Nat)
  BY NatLessThanWellFounded DEF OpToRel
<1>2. PICK x \in T : \A y \in T : ~(<<y, x>> \in R)
  BY <1>1, WFMin
<1>3. ASSUME NEW y \in T PROVE x <= y
  <2>1. <<y, x>> \notin R /\ x \in Nat /\ y \in Nat
    BY <1>2
  <2> QED BY <2>1
<1> QED BY <1>2, <1>3

-----------------------------------------------------------------------------
(***************************************************************************)
(* Sums over the tables.                                                   *)
(***************************************************************************)
Picked(s) == CHOOSE x \in s : TRUE

Sums(f) ==
  LET sum[s \in SUBSET Table] == IF s = {} THEN 0 ELSE f[Picked(s)] + sum[s \ {Picked(s)}]
  IN  sum

LEMMA TotalIs ==
  ASSUME NEW f
  PROVE  Total(f) = Sums(f)[Table]
BY DEF Total, MapThenSumSet, MapThenFoldSet, Sums, Picked

LEMMA SubsetFacts ==
  ASSUME NEW s \in SUBSET Table
  PROVE  /\ IsFiniteSet(s) /\ Cardinality(s) \in Nat
         /\ s # {} => /\ Picked(s) \in s /\ Cardinality(s \ {Picked(s)}) = Cardinality(s) - 1
                      /\ s \ {Picked(s)} \in SUBSET Table /\ Cardinality(s) # 0
<1>1. IsFiniteSet(s)
  BY TableAssumption, FS_Subset
<1>2. Cardinality(s) \in Nat
  BY <1>1, FS_CardinalityType
<1>3. ASSUME s # {} PROVE Picked(s) \in s
  BY <1>3 DEF Picked
<1>4. ASSUME s # {} PROVE Cardinality(s \ {Picked(s)}) = Cardinality(s) - 1
  BY <1>1, <1>3, <1>4, FS_RemoveElement
<1>5. ASSUME s # {} PROVE Cardinality(s) # 0
  BY <1>1, <1>5, FS_EmptySet
<1> QED BY <1>1, <1>2, <1>3, <1>4, <1>5

(* The recursion has a solution, by the size of the subsets.               *)
Sum(f, n, g) ==
  \A s \in SUBSET Table : Cardinality(s) <= n =>
    g[s] = IF s = {} THEN 0 ELSE f[Picked(s)] + g[s \ {Picked(s)}]

LEMMA SumExtends ==
  ASSUME NEW f, NEW n \in Nat, NEW g, n # 0 => Sum(f, n - 1, g)
  PROVE  \E h : Sum(f, n, h)
<1> DEFINE h == [s \in SUBSET Table |->
                  IF s = {} THEN 0
                  ELSE IF Cardinality(s) < n THEN g[s] ELSE f[Picked(s)] + g[s \ {Picked(s)}]]
<1>1. ASSUME NEW s \in SUBSET Table, Cardinality(s) <= n, s # {}
      PROVE  h[s] = f[Picked(s)] + h[s \ {Picked(s)}]
  <2>1. PICK r \in SUBSET Table : r = s \ {Picked(s)}
    BY <1>1, SubsetFacts
  <2>2. /\ Cardinality(s) \in Nat \ {0} /\ Cardinality(r) = Cardinality(s) - 1 /\ Cardinality(r) \in Nat
    BY <1>1, <2>1, SubsetFacts
  <2>3. n - 1 \in Nat /\ n # 0 /\ Cardinality(r) <= n - 1 /\ Cardinality(r) < n
    BY <1>1, <2>2
  <2>4. Cardinality(s) < n => g[s] = f[Picked(s)] + g[r]
    <3>1. Cardinality(s) < n => Cardinality(s) <= n - 1
      BY <2>2
    <3> QED BY <1>1, <2>1, <2>3, <3>1 DEF Sum
  <2>5. h[s] = f[Picked(s)] + g[r]
    BY <1>1, <2>1, <2>4
  <2>6. h[r] = g[r]
    <3>1. CASE r = {}
      <4>1. Cardinality(r) <= n - 1
        BY <2>3
      <4>2. g[r] = 0
        BY <2>3, <3>1, <4>1 DEF Sum
      <4> QED BY <3>1, <4>2
    <3>2. CASE r # {}
      BY <2>3, <3>2
    <3> QED BY <3>1, <3>2
  <2> HIDE DEF h
  <2> QED BY <2>1, <2>5, <2>6
<1>2. \A s \in SUBSET Table : s = {} => h[s] = 0
  OBVIOUS
<1> HIDE DEF h
<1>3. Sum(f, n, h)
  BY <1>1, <1>2 DEF Sum
<1> QED BY <1>3

LEMMA SumsFacts ==
  ASSUME NEW f
  PROVE  \A s \in SUBSET Table :
           Sums(f)[s] = IF s = {} THEN 0 ELSE f[Picked(s)] + Sums(f)[s \ {Picked(s)}]
<1> DEFINE Without == {n \in Nat : ~\E g : Sum(f, n, g)}
<1>1. Without = {}
  <2> SUFFICES ASSUME Without # {} PROVE FALSE
    OBVIOUS
  <2>1. PICK m \in Without : \A y \in Without : m <= y
    <3>1. Without \in SUBSET Nat
      OBVIOUS
    <3> HIDE DEF Without
    <3> QED BY <3>1, LeastNatural
  <2>2. m \in Nat
    OBVIOUS
  <2>3. m # 0 => m - 1 \in Nat /\ m - 1 \notin Without
    <3>1. m # 0 => m - 1 \in Nat /\ ~(m <= m - 1)
      BY <2>2
    <3> HIDE DEF Without
    <3> QED BY <2>1, <3>1
  <2>4. \E g : m # 0 => Sum(f, m - 1, g)
    BY <2>3
  <2>5. \E h : Sum(f, m, h)
    BY <2>2, <2>4, SumExtends
  <2> QED BY <2>5
<1>2. Table \in SUBSET Table /\ Cardinality(Table) \in Nat
  BY SubsetFacts
<1>3. PICK g : Sum(f, Cardinality(Table), g)
  BY <1>1, <1>2
<1>4. \A s \in SUBSET Table : Cardinality(s) <= Cardinality(Table)
  BY TableAssumption, FS_Subset
<1>5. PICK e : e = [s \in SUBSET Table |-> g[s]]
  OBVIOUS
<1>6. e = [s \in SUBSET Table |-> IF s = {} THEN 0 ELSE f[Picked(s)] + e[s \ {Picked(s)}]]
  <2>1. \A s \in SUBSET Table : s # {} => s \ {Picked(s)} \in SUBSET Table
    BY SubsetFacts
  <2>2. \A s \in SUBSET Table : e[s] = IF s = {} THEN 0 ELSE f[Picked(s)] + e[s \ {Picked(s)}]
    BY <1>3, <1>4, <1>5, <2>1 DEF Sum
  <2> QED BY <1>5, <2>2
<1>7. Sums(f) = [s \in SUBSET Table |-> IF s = {} THEN 0 ELSE f[Picked(s)] + Sums(f)[s \ {Picked(s)}]]
  <2> DEFINE R(q) == [s \in SUBSET Table |-> IF s = {} THEN 0 ELSE f[Picked(s)] + q[s \ {Picked(s)}]]
  <2>1. Sums(f) = CHOOSE q : q = R(q)
    BY DEF Sums
  <2>2. \E q : q = R(q)
    BY <1>6
  <2> HIDE DEF R
  <2>3. Sums(f) = R(Sums(f))
    BY <2>1, <2>2
  <2> QED BY <2>3 DEF R
<1> QED BY <1>7

LEMMA TotalType ==
  ASSUME NEW f \in [Table -> Nat]
  PROVE  Total(f) \in Nat
<1> DEFINE Wrong == {n \in Nat : \E s \in SUBSET Table : Cardinality(s) = n /\ Sums(f)[s] \notin Nat}
<1>1. Wrong = {}
  <2> SUFFICES ASSUME Wrong # {} PROVE FALSE
    OBVIOUS
  <2>1. PICK m \in Wrong : \A y \in Wrong : m <= y
    <3>1. Wrong \in SUBSET Nat
      OBVIOUS
    <3> HIDE DEF Wrong
    <3> QED BY <3>1, LeastNatural
  <2>2. PICK s \in SUBSET Table : Cardinality(s) = m /\ Sums(f)[s] \notin Nat
    OBVIOUS
  <2>3. s # {}
    <3>1. Sums(f)[{}] = 0
    BY SumsFacts
  <3> QED BY <2>2, <3>1
  <2>4. PICK r \in SUBSET Table : r = s \ {Picked(s)}
    BY <2>3, SubsetFacts
  <2>5. m - 1 \in Nat /\ Cardinality(r) = m - 1 /\ Picked(s) \in Table
    BY <2>2, <2>3, <2>4, SubsetFacts
  <2>6. m - 1 \notin Wrong
    <3>1. m \in Nat
      OBVIOUS
    <3>2. ~(m <= m - 1)
      BY <3>1
    <3> HIDE DEF Wrong
    <3> QED BY <2>1, <3>2
  <2>7. Sums(f)[r] \in Nat
    BY <2>5, <2>6
  <2>8. Sums(f)[s] = f[Picked(s)] + Sums(f)[r]
    BY <2>3, <2>4, SumsFacts
  <2> QED BY <2>2, <2>5, <2>7, <2>8
<1>2. Table \in SUBSET Table /\ Cardinality(Table) \in Nat
  BY SubsetFacts
<1>3. Sums(f)[Table] \in Nat
  BY <1>1, <1>2
<1> QED BY <1>3, TotalIs

(* A change at one table is a change of the total by as much.              *)
LEMMA TotalStep ==
  ASSUME NEW f \in [Table -> Nat], NEW t \in Table, NEW n \in Nat, NEW h,
         h = [f EXCEPT ![t] = n]
  PROVE  /\ h \in [Table -> Nat]
         /\ Total(f) \in Nat /\ Total(h) \in Nat /\ f[t] \in Nat /\ f[t] <= Total(f)
         /\ Total(h) = (Total(f) - f[t]) + n
<1>1. ASSUME NEW k \in Nat, NEW q, q = [f EXCEPT ![t] = k]
      PROVE  Total(q) = (Total(f) - f[t]) + k
  <2> DEFINE Fine(s) == /\ Sums(f)[s] \in Int
                         /\ Sums(q)[s] = Sums(f)[s] + (IF t \in s THEN k - f[t] ELSE 0)
             Wrong == {m \in Nat : \E s \in SUBSET Table : Cardinality(s) = m /\ ~Fine(s)}
  <2>1. Wrong = {}
    <3> SUFFICES ASSUME Wrong # {} PROVE FALSE
      OBVIOUS
    <3>1. PICK m \in Wrong : \A y \in Wrong : m <= y
      <4>1. Wrong \in SUBSET Nat
        OBVIOUS
      <4> HIDE DEF Wrong
      <4> QED BY <4>1, LeastNatural
    <3>2. PICK s \in SUBSET Table : Cardinality(s) = m /\ ~Fine(s)
      OBVIOUS
    <3>3. s # {}
      <4>1. Sums(f)[{}] = 0 /\ Sums(q)[{}] = 0
        BY SumsFacts
      <4>2. Sums(f)[{}] = 0 /\ Sums(q)[{}] = 0 => Fine({})
        OBVIOUS
      <4> HIDE DEF Fine
      <4> QED BY <3>2, <4>1, <4>2
    <3>4. PICK r \in SUBSET Table : r = s \ {Picked(s)}
      BY <3>3, SubsetFacts
    <3>5. m - 1 \in Nat /\ Cardinality(r) = m - 1 /\ Picked(s) \in s
      BY <3>2, <3>3, <3>4, SubsetFacts
    <3>6. m - 1 \notin Wrong
      <4>1. m \in Nat
        OBVIOUS
      <4>2. ~(m <= m - 1)
        BY <4>1
      <4> HIDE DEF Wrong
      <4> QED BY <3>1, <4>2
    <3>7. Fine(r)
      <4> HIDE DEF Fine
      <4> QED BY <3>5, <3>6
    <3>8. Sums(f)[s] = f[Picked(s)] + Sums(f)[r] /\ Sums(q)[s] = q[Picked(s)] + Sums(q)[r]
      BY <3>3, <3>4, SumsFacts
    <3>9. PICK x \in s : x = Picked(s)
      BY <3>5
    <3>10. q[x] = (IF x = t THEN k ELSE f[x]) /\ f[x] \in Nat /\ f[t] \in Nat /\ x \in Table
      BY <1>1
    <3>11. r = s \ {x}
      BY <3>4, <3>9
    <3>12. CASE x = t
      <4>1. t \in s /\ t \notin r
        BY <3>11, <3>12
      <4> QED BY <3>2, <3>7, <3>8, <3>9, <3>10, <3>12, <4>1
    <3>13. CASE x # t
      <4>1. t \in s <=> t \in r
        BY <3>11, <3>13
      <4> QED BY <3>2, <3>7, <3>8, <3>9, <3>10, <3>13, <4>1
    <3> QED BY <3>12, <3>13
  <2>2. Fine(Table)
    <3>1. Table \in SUBSET Table /\ Cardinality(Table) \in Nat
      BY SubsetFacts
    <3> HIDE DEF Fine
    <3> QED BY <2>1, <3>1
  <2>3. f[t] \in Nat
    OBVIOUS
  <2> QED BY <2>2, <2>3, TotalIs
<1>2. h \in [Table -> Nat] /\ f[t] \in Nat
  OBVIOUS
<1>3. Total(f) \in Nat /\ Total(h) \in Nat
  BY <1>2, TotalType
<1>4. PICK z : z = [f EXCEPT ![t] = 0]
  OBVIOUS
<1>5. Total(z) \in Nat /\ Total(z) = (Total(f) - f[t]) + 0
  <2>1. z \in [Table -> Nat]
    BY <1>4
  <2> QED BY <1>1, <1>4, <2>1, TotalType
<1>6. Total(h) = (Total(f) - f[t]) + n
  BY <1>1
<1>7. f[t] <= Total(f)
  BY <1>2, <1>3, <1>5
<1> QED BY <1>2, <1>3, <1>6, <1>7

LEMMA TotalZero ==
  ASSUME NEW f \in [Table -> Nat], \A t \in Table : f[t] = 0
  PROVE  Total(f) = 0
<1> DEFINE Wrong == {n \in Nat : \E s \in SUBSET Table : Cardinality(s) = n /\ Sums(f)[s] # 0}
<1>1. Wrong = {}
  <2> SUFFICES ASSUME Wrong # {} PROVE FALSE
    OBVIOUS
  <2>1. PICK m \in Wrong : \A y \in Wrong : m <= y
    <3>1. Wrong \in SUBSET Nat
      OBVIOUS
    <3> HIDE DEF Wrong
    <3> QED BY <3>1, LeastNatural
  <2>2. PICK s \in SUBSET Table : Cardinality(s) = m /\ Sums(f)[s] # 0
    OBVIOUS
  <2>3. s # {}
    <3>1. Sums(f)[{}] = 0
    BY SumsFacts
  <3> QED BY <2>2, <3>1
  <2>4. PICK r \in SUBSET Table : r = s \ {Picked(s)}
    BY <2>3, SubsetFacts
  <2>5. m - 1 \in Nat /\ Cardinality(r) = m - 1 /\ Picked(s) \in Table
    BY <2>2, <2>3, <2>4, SubsetFacts
  <2>6. m - 1 \notin Wrong
    <3>1. m \in Nat
      OBVIOUS
    <3>2. ~(m <= m - 1)
      BY <3>1
    <3> HIDE DEF Wrong
    <3> QED BY <2>1, <3>2
  <2>7. Sums(f)[r] = 0
    BY <2>5, <2>6
  <2>8. Sums(f)[s] = f[Picked(s)] + Sums(f)[r]
    BY <2>3, <2>4, SumsFacts
  <2> QED BY <2>2, <2>5, <2>7, <2>8
<1>2. Table \in SUBSET Table /\ Cardinality(Table) \in Nat
  BY SubsetFacts
<1> QED BY <1>1, <1>2, TotalIs

-----------------------------------------------------------------------------
(***************************************************************************)
(* Extrema and the number of borrowers.                                    *)
(***************************************************************************)
LEMMA MinOfTwo ==
  ASSUME NEW a \in Int, NEW b \in Int
  PROVE  Min({a, b}) = IF a <= b THEN a ELSE b
<1>1. \E x \in {a, b} : \A y \in {a, b} : x <= y
  OBVIOUS
<1>2. PICK z : z = Min({a, b})
  OBVIOUS
<1>3. z \in {a, b} /\ \A y \in {a, b} : z <= y
  BY <1>1, <1>2 DEF Min
<1> QED BY <1>2, <1>3

LEMMA MaxOfTwo ==
  ASSUME NEW a \in Int, NEW b \in Int
  PROVE  Max({a, b}) = IF a >= b THEN a ELSE b
<1>1. \E x \in {a, b} : \A y \in {a, b} : x >= y
  OBVIOUS
<1>2. PICK z : z = Max({a, b})
  OBVIOUS
<1>3. z \in {a, b} /\ \A y \in {a, b} : z >= y
  BY <1>1, <1>2 DEF Max
<1> QED BY <1>2, <1>3

LEMMA MaxOfThree ==
  ASSUME NEW a \in Int, NEW b \in Int, NEW c \in Int, NEW z, z = Max({a, b, c})
  PROVE  z \in {a, b, c} /\ z >= a /\ z >= b /\ z >= c
<1>1. \E x \in {a, b, c} : \A y \in {a, b, c} : x >= y
  <2>1. CASE a >= b /\ a >= c
    BY <2>1
  <2>2. CASE b >= a /\ b >= c
    BY <2>2
  <2>3. CASE c >= a /\ c >= b
    BY <2>3
  <2> QED BY <2>1, <2>2, <2>3
<1>2. z \in {a, b, c} /\ \A y \in {a, b, c} : z >= y
  BY <1>1 DEF Max
<1> QED BY <1>2

LEMMA GrantedFacts ==
  ASSUME NEW t \in Table, NEW n \in Nat
  PROVE  /\ Granted(t, n) \in Nat /\ Granted(t, n) <= n /\ Granted(t, n) <= Full[t]
         /\ n # 0 => Granted(t, n) # 0
<1>1. Full[t] \in Nat \ {0}
  BY FullAssumption
<1> QED BY <1>1, MinOfTwo DEF Granted

LEMMA PositiveFacts ==
  ASSUME NEW n \in Int
  PROVE  /\ Positive(n) \in Nat /\ n <= Positive(n)
         /\ Positive(n) # 0 => Positive(n) = n
BY MaxOfTwo DEF Positive

OneBorrower(loans) == \A t, u \in Borrowers(loans) : t = u

LEMMA BorrowersFacts ==
  ASSUME NEW loans, OneBorrower(loans)
  PROVE  /\ Cardinality(Borrowers(loans)) \in Nat /\ Cardinality(Borrowers(loans)) <= 1
         /\ Borrowers(loans) # {} => Cardinality(Borrowers(loans)) = 1
<1>1. CASE Borrowers(loans) = {}
  BY <1>1, FS_EmptySet
<1>2. CASE Borrowers(loans) # {}
  <2>1. PICK t : Borrowers(loans) = {t}
    BY <1>2 DEF OneBorrower
  <2> QED BY <2>1, FS_Singleton
<1> QED BY <1>1, <1>2

(* What may be handed out leaves the reserve and a page for each borrower. *)
LEMMA AdmissionFacts ==
  ASSUME NEW m, m.allocated \in Nat, reserve \in Nat, NEW loans, OneBorrower(loans)
  PROVE  /\ AdmissionAvailable(m, loans) \in Nat
         /\ AdmissionAvailable(m, loans) # 0 =>
              /\ m.allocated + reserve + AdmissionAvailable(m, loans) <= Budget
              /\ Borrowers(loans) # {} =>
                   m.allocated + reserve + AdmissionAvailable(m, loans) + 1 <= Budget
<1>1. PICK c \in Nat : c = Cardinality(Borrowers(loans)) /\ (Borrowers(loans) # {} => c = 1)
  BY BorrowersFacts
<1>2. PICK n \in Int : n = Budget - m.allocated - reserve - Fallback * c
  BY <1>1, UnitsAssumption DEF Fallback
<1>3. AdmissionAvailable(m, loans) = Positive(n)
  BY <1>1, <1>2 DEF AdmissionAvailable
<1>4. n = Budget - m.allocated - reserve - c
  BY <1>1, <1>2, UnitsAssumption DEF Fallback
<1> QED BY <1>1, <1>3, <1>4, PositiveFacts, UnitsAssumption

-----------------------------------------------------------------------------
(***************************************************************************)
(* Resizing: what any outcome keeps.                                       *)
(***************************************************************************)
Memories == [size : [Table -> Nat], allocated : Nat, over : BOOLEAN]

(* m is counted right and within the budget, with p for caches to come. *)
Good(m, p) ==
  /\ m \in Memories
  /\ ~m.over
  /\ m.allocated = Total(m.size) + p
  /\ m.allocated <= Budget

(* m became k, whose cache t has size n. *)
Resized(m, k, t, n) ==
  /\ k.size = [m.size EXCEPT ![t] = n]
  /\ k.allocated = m.allocated - m.size[t] + n

LEMMA GoodFacts ==
  ASSUME NEW m, NEW p \in Nat, Good(m, p), NEW t \in Table
  PROVE  /\ m.size \in [Table -> Nat] /\ m.size[t] \in Nat
         /\ m.allocated \in Nat /\ m.size[t] <= m.allocated
<1>1. m.size \in [Table -> Nat] /\ m.allocated \in Nat /\ m.allocated = Total(m.size) + p
  BY DEF Good, Memories
<1>2. Total(m.size) \in Nat /\ m.size[t] \in Nat /\ m.size[t] <= Total(m.size)
  BY <1>1, TotalStep
<1> QED BY <1>1, <1>2

LEMMA SizedFacts ==
  ASSUME NEW m, NEW p \in Nat, Good(m, p), NEW t \in Table, NEW n \in Nat,
         NEW peak \in Int, peak <= Budget, NEW k, k = Sized(m, t, n, peak),
         m.allocated - m.size[t] + n <= Budget
  PROVE  Good(k, p) /\ Resized(m, k, t, n)
<1>1. /\ m.size \in [Table -> Nat] /\ m.allocated \in Nat /\ m.size[t] \in Nat
      /\ m.allocated = Total(m.size) + p
  BY GoodFacts DEF Good
<1>2. PICK h : h = [m.size EXCEPT ![t] = n]
  OBVIOUS
<1>3. /\ h \in [Table -> Nat] /\ Total(m.size) \in Nat /\ Total(h) \in Nat
      /\ Total(h) = (Total(m.size) - m.size[t]) + n
  BY <1>1, <1>2, TotalStep
<1>4. k.size = h /\ k.allocated = m.allocated - m.size[t] + n
  BY <1>2 DEF Sized
<1>5. k.over \in BOOLEAN /\ ~k.over
  <2>1. ~m.over /\ ~(peak > Budget)
    BY UnitsAssumption DEF Good
  <2>2. k.over = (m.over \/ peak > Budget)
    BY DEF Sized
  <2> QED BY <2>1, <2>2
<1>6. k.allocated = Total(h) + p /\ k.allocated \in Nat /\ k.allocated <= Budget
  BY <1>1, <1>3, <1>4
<1>7. k \in Memories
  <2>1. k = [size |-> h, allocated |-> k.allocated, over |-> k.over]
    BY <1>2 DEF Sized
  <2> QED BY <2>1, <1>3, <1>5, <1>6 DEF Memories
<1> QED BY <1>2, <1>4, <1>5, <1>6, <1>7 DEF Good, Resized

LEMMA SameFacts ==
  ASSUME NEW m, NEW p \in Nat, Good(m, p), NEW t \in Table
  PROVE  Resized(m, m, t, m.size[t])
BY GoodFacts DEF Resized

LEMMA OutcomeIs ==
  ASSUME NEW ok, NEW m
  PROVE  Outcome(ok, m).ok = ok /\ Outcome(ok, m).mem = m
BY DEF Outcome

LEMMA MigrateFacts ==
  ASSUME NEW m, NEW p \in Nat, Good(m, p), NEW t \in Table, NEW n \in Nat,
         n # m.size[t] => n <= Free(m), NEW o \in Migrate(m, t, n)
  PROVE  /\ Good(o.mem, p) /\ o.ok \in BOOLEAN
         /\ o.ok => Resized(m, o.mem, t, n)
         /\ ~o.ok => o.mem = m
<1>1. m.allocated \in Nat /\ m.size[t] \in Nat /\ m.size[t] <= m.allocated
  BY GoodFacts
<1>2. CASE n = m.size[t]
  <2>1. o = Outcome(TRUE, m)
    BY <1>2 DEF Migrate
  <2> QED BY <1>2, <2>1, SameFacts DEF Outcome
<1>3. CASE n # m.size[t]
  <2>1. PICK k : k = Sized(m, t, n, m.allocated + n)
    OBVIOUS
  <2>2. m.allocated + n \in Int /\ m.allocated + n <= Budget /\ m.allocated - m.size[t] + n <= Budget
    BY <1>1, <1>3, UnitsAssumption DEF Free
  <2>3. Good(k, p) /\ Resized(m, k, t, n)
    BY <2>1, <2>2, SizedFacts
  <2>4. o = Outcome(TRUE, k) \/ o = Outcome(FALSE, m)
    BY <1>3, <2>1 DEF Migrate, Failing
  <2>5. CASE o = Outcome(TRUE, k)
    BY <2>3, <2>5, OutcomeIs
  <2>6. CASE o = Outcome(FALSE, m)
    BY <2>6, OutcomeIs
  <2> QED BY <2>4, <2>5, <2>6
<1> QED BY <1>2, <1>3

LEMMA DiscardFacts ==
  ASSUME NEW m, NEW p \in Nat, Good(m, p), NEW t \in Table, m.size[t] > 0, NEW n \in Nat,
         n # m.size[t] => 1 <= Free(m) /\ n <= Free(m) + m.size[t] - 1,
         NEW o \in Discard(m, t, n)
  PROVE  /\ Good(o.mem, p) /\ o.ok \in BOOLEAN
         /\ o.ok => Resized(m, o.mem, t, n)
         /\ ~o.ok => o.mem = m \/ Resized(m, o.mem, t, 1)
<1>1. m.size \in [Table -> Nat] /\ m.allocated \in Nat /\ m.size[t] \in Nat /\ m.size[t] <= m.allocated
  BY GoodFacts
<1>2. CASE n = m.size[t]
  <2>1. o = Outcome(TRUE, m)
    BY <1>2 DEF Discard
  <2> QED BY <1>2, <2>1, SameFacts DEF Outcome
<1>3. CASE n # m.size[t]
  <2>1. PICK small : small = Sized(m, t, Fallback, m.allocated + Fallback)
    OBVIOUS
  <2>2. Good(small, p) /\ Resized(m, small, t, 1)
    <3>1. m.allocated + 1 \in Int /\ m.allocated + 1 <= Budget /\ m.allocated - m.size[t] + 1 <= Budget
      BY <1>1, <1>3, UnitsAssumption DEF Free
    <3>2. small = Sized(m, t, 1, m.allocated + 1)
      BY <2>1 DEF Fallback
    <3> QED BY <3>1, <3>2, SizedFacts
  <2>3. small.size[t] = 1 /\ small.allocated = m.allocated - m.size[t] + 1 /\ small.allocated \in Nat
    BY <1>1, <2>2 DEF Resized
  <2>4. PICK k : k = Sized(small, t, n, small.allocated + n)
    OBVIOUS
  <2>5. Good(k, p) /\ Resized(small, k, t, n)
    <3>1. /\ small.allocated + n \in Int /\ small.allocated + n <= Budget
          /\ small.allocated - small.size[t] + n <= Budget
      BY <1>1, <1>3, <2>3, UnitsAssumption DEF Free
    <3> QED BY <2>2, <2>4, <3>1, SizedFacts
  <2>6. Resized(m, k, t, n)
    BY <1>1, <2>2, <2>3, <2>5 DEF Resized
  <2>7. o = Outcome(TRUE, k) \/ o = Outcome(FALSE, m) \/ o = Outcome(FALSE, small)
    BY <1>3, <2>1, <2>4 DEF Discard, Failing
  <2>8. CASE o = Outcome(TRUE, k)
    BY <2>5, <2>6, <2>8, OutcomeIs
  <2>9. CASE o = Outcome(FALSE, m)
    BY <2>9, OutcomeIs
  <2>10. CASE o = Outcome(FALSE, small)
    <3>1. o.ok = FALSE /\ o.mem = small
      BY <2>10, OutcomeIs
    <3> QED BY <2>2, <3>1
  <2> QED BY <2>7, <2>8, <2>9, <2>10
<1> QED BY <1>2, <1>3

(* Only an active transfer risks the fallback.                             *)
LEMMA CoordinatedFacts ==
  ASSUME NEW m, NEW p \in Nat, Good(m, p), NEW t \in Table, m.size[t] > 0, NEW n \in Nat,
         NEW active \in BOOLEAN, NEW o \in Coordinated(m, t, n, active)
  PROVE  /\ Good(o.mem, p) /\ o.ok \in BOOLEAN
         /\ o.ok => Resized(m, o.mem, t, n)
         /\ ~o.ok => o.mem = m \/ (active /\ Resized(m, o.mem, t, 1))
<1>1. m.allocated \in Nat /\ m.size[t] \in Nat /\ Free(m) \in Int
  BY GoodFacts, UnitsAssumption DEF Free
<1>2. CASE Refused(m, t, n, active)
  <2>1. o = Outcome(FALSE, m)
    BY <1>2 DEF Coordinated
  <2> QED BY <2>1 DEF Outcome
<1>3. CASE ~Refused(m, t, n, active) /\ n <= Free(m)
  <2>1. o \in Migrate(m, t, n)
    BY <1>1, <1>3 DEF Coordinated
  <2> QED BY <1>3, <2>1, MigrateFacts
<1>4. CASE ~Refused(m, t, n, active) /\ n > Free(m)
  <2>1. o \in Discard(m, t, n)
    BY <1>4 DEF Coordinated
  <2>2. n # m.size[t] => active /\ 1 <= Free(m) /\ n <= Free(m) + m.size[t] - 1
    BY <1>1, <1>4 DEF Refused, Fallback
  <2>3. CASE n = m.size[t]
    <3>1. o = Outcome(TRUE, m)
      BY <2>1, <2>3 DEF Discard
    <3> QED BY <2>3, <3>1, SameFacts DEF Outcome
  <2>4. CASE n # m.size[t]
    BY <2>1, <2>2, <2>4, DiscardFacts
  <2> QED BY <2>3, <2>4
<1> QED BY <1>1, <1>2, <1>3, <1>4

-----------------------------------------------------------------------------
(***************************************************************************)
(* Transfers: whatever comes of one, the sizes from before it can be had   *)
(* again.                                                                  *)
(***************************************************************************)
Trials ==
  [donor : Table \cup {None}, receiver : Table \cup {None}, donorSize : Nat,
   receiverSize : Nat, active : BOOLEAN, rollback : BOOLEAN]

(* The sizes once tr is undone.                                            *)
Restored(m, tr) ==
  [t \in Table |-> IF t = tr.donor THEN tr.donorSize
                   ELSE IF t = tr.receiver THEN tr.receiverSize ELSE m.size[t]]

(* s is over or still leads back to the sizes `own`.                       *)
Held(s, own, active) ==
  /\ Good(s.mem, 0)
  /\ \A t \in Table : s.mem.size[t] > 0 <=> own[t] > 0
  /\ \/ /\ s.reserve = 0 /\ s.trial = NoTrial /\ s.mem.size = own
        /\ active => s.mem.allocated + 1 <= Budget
     \/ /\ s.trial \in Trials /\ s.trial.active = active
        /\ Recoverable(s.mem, s.reserve, s.trial)
        /\ Restored(s.mem, s.trial) = own

LEMMA RecoverableFacts ==
  ASSUME NEW m, Good(m, 0), NEW tr \in Trials, NEW res, Recoverable(m, res, tr)
  PROVE  /\ tr.donor \in Table /\ tr.receiver \in Table \cup {None} /\ tr.receiver # tr.donor
         /\ m.size \in [Table -> Nat] /\ m.allocated \in Nat /\ res \in Nat
         /\ m.size[tr.donor] \in Nat \ {0} /\ tr.donorSize \in Nat \ {0}
         /\ m.size[tr.donor] <= m.allocated
         /\ tr.receiver # None => /\ tr.receiver \in Table
                                  /\ m.size[tr.receiver] \in Nat \ {0}
                                  /\ m.size[tr.receiver] <= m.allocated
                                  /\ tr.receiverSize \in Nat \ {0}
         /\ tr.receiverSize \in Nat /\ tr.active \in BOOLEAN
         /\ m.allocated + res <= Budget
         /\ \A t \in Table : m.size[t] > 0 <=> Restored(m, tr)[t] > 0
<1>1. /\ tr.donor \in Table /\ m.size[tr.donor] > 0 /\ tr.donorSize > 0
      /\ tr.receiver # tr.donor
      /\ tr.receiver # None => m.size[tr.receiver] > 0 /\ tr.receiverSize > 0
      /\ res \in Nat /\ m.allocated + res <= Budget
  BY DEF Recoverable
<1>2. /\ tr.receiver \in Table \cup {None} /\ tr.donorSize \in Nat /\ tr.receiverSize \in Nat
      /\ tr.active \in BOOLEAN
  BY DEF Trials
<1>3. /\ m.size \in [Table -> Nat] /\ m.allocated \in Nat
      /\ \A t \in Table : m.size[t] \in Nat /\ m.size[t] <= m.allocated
  BY <1>1, GoodFacts
<1>4. None \notin Table
  BY TableAssumption
<1>5. \A t \in Table : m.size[t] > 0 <=> Restored(m, tr)[t] > 0
  BY <1>1, <1>2, <1>3, <1>4 DEF Restored
<1> QED BY <1>1, <1>2, <1>3, <1>4, <1>5

(* A resize that fails leaves the recovery where it was, or closer to its  *)
(* goal in memory.                                                         *)
LEMMA DeferredFacts ==
  ASSUME NEW m, Good(m, 0), NEW tr \in Trials, NEW res, Recoverable(m, res, tr),
         NEW t \in Table, t \in {tr.donor, tr.receiver}, NEW k, Good(k, 0),
         k = m \/ (tr.active /\ Resized(m, k, t, 1)), NEW peak, peak = m.allocated + res
  PROVE  Held(Deferred(k, peak, tr), Restored(m, tr), tr.active)
<1>1. PICK q : q = [tr EXCEPT !.rollback = TRUE]
  OBVIOUS
<1>2. /\ q \in Trials /\ q.donor = tr.donor /\ q.receiver = tr.receiver /\ q.active = tr.active
      /\ q.donorSize = tr.donorSize /\ q.receiverSize = tr.receiverSize
  BY <1>1 DEF Trials
<1>3. PICK s : s = Deferred(k, peak, tr)
  OBVIOUS
<1>4. s.mem = k /\ s.reserve = peak - k.allocated /\ s.trial = q
  BY <1>1, <1>3 DEF Deferred
<1>5. /\ \A u \in Table : k.size[u] = IF k # m /\ u = t THEN 1 ELSE m.size[u]
      /\ k.allocated \in Nat
      /\ k.allocated = IF k = m THEN m.allocated ELSE m.allocated - m.size[t] + 1
  BY GoodFacts DEF Resized
<1>6. Recoverable(k, s.reserve, q)
  <2>1. CASE k = m
    <3>1. s.reserve = res
      BY <1>4, <2>1, RecoverableFacts
    <3> QED BY <1>2, <2>1, <3>1 DEF Recoverable
  <2>2. CASE k # m /\ t = tr.donor
    <3>1. tr.active /\ s.reserve = res + m.size[t] - 1
      BY <1>4, <1>5, <2>2, RecoverableFacts
    <3>2. k.size[tr.donor] = 1 /\ \A u \in Table : u # tr.donor => k.size[u] = m.size[u]
      BY <1>5, <2>2
    <3>3. /\ tr.receiver # None => k.size[tr.receiver] = m.size[tr.receiver]
      BY <3>2, RecoverableFacts
    <3>4. k.allocated = m.allocated - m.size[tr.donor] + 1
      BY <1>5, <2>2
    <3> QED BY <1>2, <2>2, <3>1, <3>2, <3>3, <3>4, RecoverableFacts DEF Recoverable
  <2>3. CASE k # m /\ t = tr.receiver
    <3>1. tr.active /\ s.reserve = res + m.size[t] - 1
      BY <1>4, <1>5, <2>3, RecoverableFacts
    <3>2. k.size[tr.receiver] = 1 /\ k.size[tr.donor] = m.size[tr.donor] /\ tr.receiver # None
      BY <1>5, <2>3, RecoverableFacts, TableAssumption
    <3>4. k.allocated = m.allocated - m.size[tr.receiver] + 1
      BY <1>5, <2>3
    <3> QED BY <1>2, <2>3, <3>1, <3>2, <3>4, RecoverableFacts DEF Recoverable
  <2> QED BY <2>1, <2>2, <2>3
<1>7. Restored(k, q) = Restored(m, tr)
  <2>1. \A u \in Table : u # tr.donor /\ u # tr.receiver => k.size[u] = m.size[u]
    BY <1>5
  <2> QED BY <1>2, <2>1 DEF Restored
<1>8. \A u \in Table : k.size[u] > 0 <=> Restored(m, tr)[u] > 0
  BY <1>2, <1>6, <1>7, RecoverableFacts
<1> QED BY <1>2, <1>3, <1>4, <1>6, <1>7, <1>8 DEF Held

LEMMA ReceivedFacts ==
  ASSUME NEW m, Good(m, 0), NEW tr \in Trials, NEW res, Recoverable(m, res, tr),
         tr.receiver # None, NEW k, Good(k, 0), Resized(m, k, tr.receiver, tr.receiverSize)
  PROVE  /\ Recoverable(k, (m.allocated + res) - k.allocated, tr)
         /\ Restored(k, tr) = Restored(m, tr)
         /\ k.size[tr.receiver] = tr.receiverSize
<1>1. /\ \A u \in Table : k.size[u] = IF u = tr.receiver THEN tr.receiverSize ELSE m.size[u]
      /\ k.allocated = m.allocated - m.size[tr.receiver] + tr.receiverSize
      /\ k.size[tr.receiver] = tr.receiverSize /\ k.size[tr.donor] = m.size[tr.donor]
  BY RecoverableFacts DEF Resized
<1>2. k.allocated \in Nat
  BY RecoverableFacts, GoodFacts
<1>3. Recoverable(k, (m.allocated + res) - k.allocated, tr)
  BY <1>1, <1>2, RecoverableFacts DEF Recoverable
<1>4. Restored(k, tr) = Restored(m, tr)
  <2>1. \A u \in Table : u # tr.donor /\ u # tr.receiver => k.size[u] = m.size[u]
    BY <1>1
  <2> QED BY <2>1 DEF Restored
<1> QED BY <1>1, <1>3, <1>4

LEMMA FinishedFacts ==
  ASSUME NEW m, Good(m, 0), NEW tr \in Trials, NEW res, Recoverable(m, res, tr),
         tr.receiver = None \/ m.size[tr.receiver] = tr.receiverSize,
         NEW k, Good(k, 0), Resized(m, k, tr.donor, tr.donorSize)
  PROVE  Held(Finished(k), Restored(m, tr), tr.active)
<1>1. /\ \A u \in Table : k.size[u] = IF u = tr.donor THEN tr.donorSize ELSE m.size[u]
      /\ k.allocated = m.allocated - m.size[tr.donor] + tr.donorSize
      /\ k.size \in [Table -> Nat]
  BY RecoverableFacts, GoodFacts DEF Resized
<1>2. k.size = Restored(m, tr)
  <2>1. \A u \in Table : k.size[u] = Restored(m, tr)[u]
    BY <1>1, TableAssumption DEF Restored
  <2>2. Restored(m, tr) = [u \in Table |-> Restored(m, tr)[u]]
    BY DEF Restored
  <2> QED BY <1>1, <2>1, <2>2
<1>3. ASSUME tr.active PROVE k.allocated + 1 <= Budget
  <2>1. /\ tr.receiver # None
        /\ res >= tr.donorSize - m.size[tr.donor] - (m.size[tr.receiver] - tr.receiverSize) + 1
    BY <1>3 DEF Recoverable
  <2>2. m.size[tr.receiver] - tr.receiverSize = 0
    BY <2>1, RecoverableFacts
  <2>3. res >= tr.donorSize - m.size[tr.donor] + 1
    BY <2>1, <2>2, RecoverableFacts
  <2> QED BY <1>1, <2>3, RecoverableFacts, UnitsAssumption
<1>4. PICK s : s = Finished(k)
  OBVIOUS
<1>5. s.mem = k /\ s.reserve = 0 /\ s.trial = NoTrial
  BY <1>4 DEF Finished
<1> QED BY <1>2, <1>3, <1>4, <1>5 DEF Held

LEMMA UndoneFacts ==
  ASSUME NEW m, Good(m, 0), NEW tr \in Trials, NEW res, Recoverable(m, res, tr),
         NEW s \in Undone(m, res, tr)
  PROVE  Held(s, Restored(m, tr), tr.active)
<1>1. PICK peak : peak = m.allocated + res
  OBVIOUS
<1>2. PICK o : /\ o \in IF tr.receiver = None THEN {Outcome(TRUE, m)}
                        ELSE Coordinated(m, tr.receiver, tr.receiverSize, tr.active)
               /\ s \in IF ~o.ok THEN {Deferred(o.mem, peak, tr)}
                        ELSE {IF d.ok THEN Finished(d.mem) ELSE Deferred(d.mem, peak, tr) :
                                d \in Coordinated(o.mem, tr.donor, tr.donorSize, tr.active)}
  <2> DEFINE Received == IF tr.receiver = None THEN {Outcome(TRUE, m)}
                         ELSE Coordinated(m, tr.receiver, tr.receiverSize, tr.active)
             After(o) == IF ~o.ok THEN {Deferred(o.mem, peak, tr)}
                         ELSE {IF d.ok THEN Finished(d.mem) ELSE Deferred(d.mem, peak, tr) :
                                 d \in Coordinated(o.mem, tr.donor, tr.donorSize, tr.active)}
  <2>1. Undone(m, res, tr) = UNION {After(o) : o \in Received}
    BY <1>1 DEF Undone
  <2> HIDE DEF Received, After
  <2>2. \E o \in Received : s \in After(o)
    BY <2>1
  <2> QED BY <2>2 DEF Received, After
<1>3. /\ Good(o.mem, 0) /\ o.ok \in BOOLEAN
      /\ tr.receiver = None => o.ok /\ o.mem = m
      /\ tr.receiver # None /\ o.ok => Resized(m, o.mem, tr.receiver, tr.receiverSize)
      /\ ~o.ok => o.mem = m \/ (tr.active /\ Resized(m, o.mem, tr.receiver, 1))
  <2>1. CASE tr.receiver = None
    <3>1. o.ok = TRUE /\ o.mem = m
      BY <1>2, <2>1, OutcomeIs
    <3> QED BY <2>1, <3>1
  <2>2. CASE tr.receiver # None
    <3>1. /\ tr.receiver \in Table /\ m.size[tr.receiver] > 0 /\ tr.receiverSize \in Nat
          /\ tr.active \in BOOLEAN
      BY <2>2, RecoverableFacts
    <3>2. o \in Coordinated(m, tr.receiver, tr.receiverSize, tr.active)
      BY <1>2, <2>2
    <3> QED BY <2>2, <3>1, <3>2, CoordinatedFacts
  <2> QED BY <2>1, <2>2
<1>4. CASE ~o.ok
  <2>1. s = Deferred(o.mem, peak, tr)
    BY <1>2, <1>4
  <2>2. tr.receiver # None /\ tr.receiver \in Table
    BY <1>3, <1>4, RecoverableFacts
  <2>3. o.mem = m \/ (tr.active /\ Resized(m, o.mem, tr.receiver, 1))
    BY <1>3, <1>4
  <2> QED BY <1>1, <1>3, <2>1, <2>2, <2>3, DeferredFacts
<1>5. CASE o.ok
  <2>1. PICK k : k = o.mem
    OBVIOUS
  <2>2. PICK left : left = peak - k.allocated
    OBVIOUS
  <2>3. /\ Good(k, 0) /\ Recoverable(k, left, tr) /\ Restored(k, tr) = Restored(m, tr)
        /\ tr.receiver = None \/ k.size[tr.receiver] = tr.receiverSize
    <3>1. CASE tr.receiver = None
      <4>1. k = m /\ left = res
        BY <1>1, <1>3, <2>1, <2>2, <3>1, RecoverableFacts
      <4> QED BY <3>1, <4>1
    <3>2. CASE tr.receiver # None
      <4>1. Good(k, 0) /\ Resized(m, k, tr.receiver, tr.receiverSize)
        BY <1>3, <1>5, <2>1, <3>2
      <4> QED BY <1>1, <2>2, <3>2, <4>1, ReceivedFacts
    <3> QED BY <3>1, <3>2
  <2>4. PICK d \in Coordinated(k, tr.donor, tr.donorSize, tr.active) :
          s = IF d.ok THEN Finished(d.mem) ELSE Deferred(d.mem, peak, tr)
    BY <1>2, <1>5, <2>1
  <2>5. /\ tr.donor \in Table /\ k.size[tr.donor] > 0 /\ tr.donorSize \in Nat
        /\ tr.active \in BOOLEAN
    BY <2>3, RecoverableFacts
  <2>6. /\ Good(d.mem, 0) /\ d.ok \in BOOLEAN
        /\ d.ok => Resized(k, d.mem, tr.donor, tr.donorSize)
        /\ ~d.ok => d.mem = k \/ (tr.active /\ Resized(k, d.mem, tr.donor, 1))
    BY <2>3, <2>4, <2>5, CoordinatedFacts
  <2>7. CASE d.ok
    <3>1. Resized(k, d.mem, tr.donor, tr.donorSize) /\ s = Finished(d.mem)
      BY <2>4, <2>6, <2>7
    <3>2. Held(Finished(d.mem), Restored(k, tr), tr.active)
      BY <2>3, <2>6, <3>1, FinishedFacts
    <3> QED BY <2>3, <3>1, <3>2
  <2>8. CASE ~d.ok
    <3>1. s = Deferred(d.mem, peak, tr)
      BY <2>4, <2>8
    <3>2. d.mem = k \/ (tr.active /\ Resized(k, d.mem, tr.donor, 1))
      BY <2>6, <2>8
    <3>3. peak = k.allocated + left
      <4>1. k.allocated \in Nat /\ peak \in Int
        BY <1>1, <2>3, RecoverableFacts
      <4> QED BY <2>2, <4>1
    <3>4. Held(Deferred(d.mem, peak, tr), Restored(k, tr), tr.active)
      BY <2>3, <2>5, <2>6, <3>2, <3>3, DeferredFacts
    <3> QED BY <2>3, <3>1, <3>4
  <2> QED BY <2>6, <2>7, <2>8
<1> QED BY <1>3, <1>4, <1>5

(* A transfer step by step.                                               *)
Attempted(tr, donorTo, receiverTo, peak, s) ==
  \E o \in Coordinated(mem, tr.donor, donorTo, tr.active) :
    \/ /\ ~o.ok
       /\ s \in IF tr.active THEN Undone(o.mem, peak - o.mem.allocated, tr)
                ELSE {[mem |-> o.mem, reserve |-> 0, trial |-> NoTrial]}
    \/ /\ o.ok
       /\ \E g \in IF tr.receiver = None THEN {o}
                   ELSE Coordinated(o.mem, tr.receiver, receiverTo, tr.active) :
            s \in IF g.ok
                  THEN {[mem |-> g.mem, reserve |-> peak - g.mem.allocated, trial |-> tr]}
                  ELSE Undone(g.mem, IF tr.active THEN peak - g.mem.allocated
                                     ELSE peak - o.mem.allocated,
                              IF tr.active THEN tr ELSE [tr EXCEPT !.receiver = None])

LEMMA TransferredIs ==
  ASSUME NEW tr, NEW donorTo, NEW receiverTo, NEW peak,
         NEW s \in Transferred(tr, donorTo, receiverTo, peak)
  PROVE  Attempted(tr, donorTo, receiverTo, peak, s)
<1> DEFINE Enlarged(o) == IF tr.receiver = None THEN {o}
                       ELSE Coordinated(o.mem, tr.receiver, receiverTo, tr.active)
           Alone == IF tr.active THEN tr ELSE [tr EXCEPT !.receiver = None]
           Without(o) == IF tr.active THEN Undone(o.mem, peak - o.mem.allocated, tr)
                         ELSE {[mem |-> o.mem, reserve |-> 0, trial |-> NoTrial]}
           Last(o, g) ==
             IF g.ok THEN {[mem |-> g.mem, reserve |-> peak - g.mem.allocated, trial |-> tr]}
             ELSE Undone(g.mem, IF tr.active THEN peak - g.mem.allocated
                                ELSE peak - o.mem.allocated, Alone)
           Begun(o) == IF ~o.ok THEN Without(o) ELSE UNION {Last(o, g) : g \in Enlarged(o)}
<1>1. Transferred(tr, donorTo, receiverTo, peak) =
        UNION {Begun(o) : o \in Coordinated(mem, tr.donor, donorTo, tr.active)}
  BY DEF Transferred
<1> HIDE DEF Enlarged, Alone, Without, Last, Begun
<1>2. PICK o \in Coordinated(mem, tr.donor, donorTo, tr.active) : s \in Begun(o)
  BY <1>1
<1>3. \/ ~o.ok /\ s \in Without(o)
      \/ o.ok /\ s \in UNION {Last(o, g) : g \in Enlarged(o)}
  BY <1>2 DEF Begun
<1>4. \/ ~o.ok /\ s \in Without(o)
      \/ o.ok /\ \E g \in Enlarged(o) : s \in Last(o, g)
  BY <1>3
<1>5. CASE ~o.ok /\ s \in Without(o)
  BY <1>5 DEF Without, Attempted
<1>6. CASE o.ok /\ \E g \in Enlarged(o) : s \in Last(o, g)
  <2>1. PICK g \in Enlarged(o) : s \in Last(o, g)
    BY <1>6
  <2> QED BY <1>6, <2>1 DEF Enlarged, Last, Alone, Attempted
<1> QED BY <1>4, <1>5, <1>6

LEMMA TrialFacts ==
  ASSUME Good(mem, 0), NEW d \in Table, NEW r, r = None \/ r \in Table,
         NEW active \in BOOLEAN, NEW tr, tr = Trial(d, r, active)
  PROVE  /\ tr \in Trials
         /\ tr.donor = d /\ tr.receiver = r /\ tr.active = active
         /\ tr.donorSize = mem.size[d]
         /\ r # None => r \in Table /\ tr.receiverSize = mem.size[r]
<1>1. \A t \in Table : mem.size[t] \in Nat
  BY GoodFacts
<1>3. /\ tr.donor = d /\ tr.receiver = r /\ tr.active = active /\ tr.donorSize = mem.size[d]
      /\ tr.receiverSize = IF r = None THEN 0 ELSE mem.size[r]
      /\ tr.rollback = FALSE
      /\ tr = [donor |-> tr.donor, receiver |-> tr.receiver, donorSize |-> tr.donorSize,
               receiverSize |-> tr.receiverSize, active |-> tr.active, rollback |-> tr.rollback]
  BY DEF Trial
<1>4. tr.receiverSize \in Nat /\ tr.donorSize \in Nat
  BY <1>1, <1>3
<1> QED BY <1>3, <1>4 DEF Trials

(* What a transfer starts from is what it restores.                        *)
LEMMA RestoredFacts ==
  ASSUME Good(mem, 0), NEW tr, tr.donor \in Table, tr.donorSize = mem.size[tr.donor],
         tr.receiver # None => tr.receiverSize = mem.size[tr.receiver],
         NEW k, \A t \in Table : t # tr.donor /\ t # tr.receiver => k.size[t] = mem.size[t]
  PROVE  Restored(k, tr) = mem.size
<1>1. mem.size \in [Table -> Nat]
  BY GoodFacts
<1>2. \A t \in Table : Restored(k, tr)[t] = mem.size[t]
  BY TableAssumption DEF Restored
<1>3. Restored(k, tr) = [t \in Table |-> Restored(k, tr)[t]]
  BY DEF Restored
<1> QED BY <1>1, <1>2, <1>3

LEMMA IdleTransferFacts ==
  ASSUME Good(mem, 0), NEW d \in Table, mem.size[d] > 0,
         NEW r \in Table \cup {None}, r # d, r # None => mem.size[r] > 0,
         NEW small \in Nat, 0 < small, small < mem.size[d],
         NEW target \in Nat, r # None => target > 0,
         NEW peak \in Int, peak <= Budget,
         peak >= mem.allocated + small,
         r # None => peak >= mem.allocated - mem.size[d] + small + target,
         NEW active \in BOOLEAN, ~active, NEW tr, tr = Trial(d, r, active),
         NEW s \in Transferred(tr, small, target, peak)
  PROVE  Held(s, mem.size, active)
<1>2. /\ tr \in Trials /\ tr.donor = d /\ tr.receiver = r /\ tr.active = active
      /\ tr.donorSize = mem.size[d]
      /\ r # None => r \in Table /\ tr.receiverSize = mem.size[r]
  BY TrialFacts
<1>3. /\ mem.size \in [Table -> Nat] /\ mem.allocated \in Nat
      /\ mem.size[d] \in Nat /\ mem.size[d] <= mem.allocated
      /\ r # None => mem.size[r] \in Nat /\ mem.size[r] <= mem.allocated
  BY <1>2, GoodFacts
<1>4. PICK o \in Coordinated(mem, tr.donor, small, tr.active) :
        \/ /\ ~o.ok
           /\ s \in IF tr.active THEN Undone(o.mem, peak - o.mem.allocated, tr)
                    ELSE {[mem |-> o.mem, reserve |-> 0, trial |-> NoTrial]}
        \/ /\ o.ok
           /\ \E g \in IF tr.receiver = None THEN {o}
                       ELSE Coordinated(o.mem, tr.receiver, target, tr.active) :
                s \in IF g.ok
                      THEN {[mem |-> g.mem, reserve |-> peak - g.mem.allocated, trial |-> tr]}
                      ELSE Undone(g.mem, IF tr.active THEN peak - g.mem.allocated
                                         ELSE peak - o.mem.allocated,
                                  IF tr.active THEN tr ELSE [tr EXCEPT !.receiver = None])
  <2>1. Attempted(tr, small, target, peak, s)
    BY TransferredIs
  <2> QED BY <2>1 DEF Attempted
<1>5. /\ Good(o.mem, 0) /\ o.ok \in BOOLEAN
      /\ o.ok => Resized(mem, o.mem, d, small)
      /\ ~o.ok => o.mem = mem
  <2>1. o \in Coordinated(mem, d, small, active)
    BY <1>2, <1>4
  <2> QED BY <2>1, CoordinatedFacts
<1>6. CASE ~o.ok
  <2>1. s = [mem |-> mem, reserve |-> 0, trial |-> NoTrial]
    BY <1>2, <1>4, <1>5, <1>6
  <2>2. s.mem = mem /\ s.reserve = 0 /\ s.trial = NoTrial
    BY <2>1
  <2> QED BY <2>2 DEF Held
<1>7. CASE o.ok
  <2>1. PICK k : k = o.mem
    OBVIOUS
  <2>2. /\ Good(k, 0) /\ k.allocated = mem.allocated - mem.size[d] + small /\ k.allocated \in Nat
        /\ \A t \in Table : k.size[t] = IF t = d THEN small ELSE mem.size[t]
    BY <1>3, <1>5, <1>7, <2>1, GoodFacts DEF Resized
  <2>3. r # None => k.size[r] = mem.size[r]
    BY <1>2, <2>2
  <2>4. PICK g \in IF r = None THEN {o} ELSE Coordinated(k, r, target, active) :
          s \in IF g.ok
                THEN {[mem |-> g.mem, reserve |-> peak - g.mem.allocated, trial |-> tr]}
                ELSE Undone(g.mem, peak - k.allocated, [tr EXCEPT !.receiver = None])
    BY <1>2, <1>4, <1>7, <2>1
  <2>5. /\ Good(g.mem, 0) /\ g.ok \in BOOLEAN
        /\ r = None => g.ok /\ g.mem = k
        /\ r # None /\ g.ok => Resized(k, g.mem, r, target)
        /\ ~g.ok => g.mem = k
    <3>1. CASE r = None
      <4>1. g = o
        BY <2>4, <3>1
      <4> QED BY <1>7, <2>1, <2>2, <3>1, <4>1
    <3>2. CASE r # None
      <4>1. r \in Table /\ k.size[r] > 0
        BY <1>2, <2>3, <3>2
      <4>2. g \in Coordinated(k, r, target, active)
        BY <2>4, <3>2
      <4> QED BY <2>2, <3>2, <4>1, <4>2, CoordinatedFacts
    <3> QED BY <3>1, <3>2
  <2>6. CASE g.ok
    <3>1. PICK h : h = g.mem
      OBVIOUS
    <3>2. s = [mem |-> h, reserve |-> peak - h.allocated, trial |-> tr]
      BY <2>4, <2>6, <3>1
    <3>3. s.mem = h /\ s.reserve = peak - h.allocated /\ s.trial = tr
      BY <3>2
    <3>4. /\ \A t \in Table : h.size[t] = IF t = d THEN small ELSE IF t = r THEN target ELSE mem.size[t]
          /\ h.allocated = IF r = None THEN k.allocated ELSE k.allocated - mem.size[r] + target
          /\ h.allocated \in Nat
      <4>1. CASE r = None
        BY <2>2, <2>5, <3>1, <4>1, TableAssumption
      <4>2. CASE r # None
        <5>1. Resized(k, h, r, target) /\ k.size \in [Table -> Nat] /\ h.allocated \in Nat
          BY <1>2, <2>2, <2>5, <2>6, <3>1, <4>2, GoodFacts
        <5> QED BY <1>2, <2>2, <2>3, <4>2, <5>1 DEF Resized
      <4> QED BY <4>1, <4>2
    <3>5. Recoverable(h, s.reserve, tr)
      <4>1. h.size[d] = small /\ (r # None => h.size[r] = target)
        BY <1>2, <3>4
      <4>2. CASE r = None
        <5>1. s.reserve = peak - (mem.allocated - mem.size[d] + small)
          BY <2>2, <3>3, <3>4, <4>2
        <5>2. h.allocated = mem.allocated - mem.size[d] + small
          BY <2>2, <3>4, <4>2
        <5> QED BY <1>2, <1>3, <4>1, <4>2, <5>1, <5>2, UnitsAssumption DEF Recoverable
      <4>3. CASE r # None
        <5>1. h.allocated = mem.allocated - mem.size[d] + small - mem.size[r] + target
          BY <1>3, <2>2, <3>4, <4>3
        <5>2. /\ s.reserve \in Nat /\ h.allocated + s.reserve <= Budget
              /\ s.reserve >= mem.size[r] /\ s.reserve >= mem.size[d] - (target - mem.size[r])
          BY <1>3, <3>3, <4>3, <5>1, UnitsAssumption
        <5> QED BY <1>2, <1>3, <4>1, <4>3, <5>2 DEF Recoverable
      <4> QED BY <4>2, <4>3
    <3>6. Restored(h, tr) = mem.size
      <4>1. \A t \in Table : t # d /\ t # r => h.size[t] = mem.size[t]
        BY <3>4
      <4> QED BY <1>2, <4>1, RestoredFacts
    <3>7. \A t \in Table : h.size[t] > 0 <=> mem.size[t] > 0
      BY <1>2, <2>5, <3>1, <3>5, <3>6, RecoverableFacts
    <3> QED BY <1>2, <2>5, <3>1, <3>3, <3>5, <3>6, <3>7 DEF Held
  <2>7. CASE ~g.ok
    <3>1. g.mem = k
      BY <2>5, <2>7
    <3>2. PICK q : q = [tr EXCEPT !.receiver = None]
      OBVIOUS
    <3>3. /\ q \in Trials /\ q.donor = d /\ q.receiver = None /\ q.active = active
          /\ q.donorSize = mem.size[d]
      BY <1>2, <3>2 DEF Trials
    <3>4. s \in Undone(k, peak - k.allocated, q)
      BY <2>4, <2>7, <3>1, <3>2
    <3>5. Recoverable(k, peak - k.allocated, q)
      <4>1. k.size[d] = small
        BY <2>2
      <4>2. peak - k.allocated = peak - (mem.allocated - mem.size[d] + small)
        BY <2>2
      <4> QED BY <1>3, <2>2, <3>3, <4>1, <4>2, UnitsAssumption, TableAssumption DEF Recoverable
    <3>6. Restored(k, q) = mem.size
      <4>1. \A t \in Table : t # d /\ t # None => k.size[t] = mem.size[t]
        BY <2>2
      <4> QED BY <3>3, <4>1, RestoredFacts
    <3> QED BY <2>2, <3>3, <3>4, <3>5, <3>6, UndoneFacts
  <2> QED BY <2>5, <2>6, <2>7
<1> QED BY <1>5, <1>6, <1>7

LEMMA ActiveRecoverable ==
  ASSUME Good(mem, 0), NEW d \in Table, NEW r \in Table, d # r,
         mem.size[d] > 0, mem.size[r] > 0, mem.allocated + 1 <= Budget,
         NEW active \in BOOLEAN, NEW tr, tr = Trial(d, r, active), tr.active,
         NEW k, Good(k, 0), \A t \in Table : t # d /\ t # r => k.size[t] = mem.size[t],
         0 < k.size[d], k.size[d] <= mem.size[d], 0 < k.size[r],
         k.allocated = mem.allocated - (mem.size[d] - k.size[d]) + (k.size[r] - mem.size[r]),
         k.allocated <= mem.allocated
  PROVE  /\ Recoverable(k, (mem.allocated + 1) - k.allocated, tr)
         /\ Restored(k, tr) = mem.size
         /\ \A t \in Table : k.size[t] > 0 <=> mem.size[t] > 0
<1>1. r # None
  BY TableAssumption
<1>2. /\ tr \in Trials /\ tr.donor = d /\ tr.receiver = r /\ tr.active = active
      /\ tr.donorSize = mem.size[d] /\ tr.receiverSize = mem.size[r]
  <2>1. r = None \/ r \in Table
    OBVIOUS
  <2>2. \A q : q = Trial(d, r, active) =>
          /\ q \in Trials /\ q.donor = d /\ q.receiver = r /\ q.active = active
          /\ q.donorSize = mem.size[d] /\ (r # None => q.receiverSize = mem.size[r])
    BY <2>1, TrialFacts
  <2> QED BY <1>1, <2>2
<1>3. /\ mem.allocated \in Nat /\ mem.size[d] \in Nat /\ mem.size[r] \in Nat
      /\ k.allocated \in Nat /\ k.size[d] \in Nat /\ k.size[r] \in Nat
  BY GoodFacts
<1>4. PICK left \in Nat : left = (mem.allocated + 1) - k.allocated
  BY <1>3
<1>5. left >= 1 /\ left >= (mem.size[d] - k.size[d]) - (k.size[r] - mem.size[r]) + 1
  BY <1>3, <1>4
<1>6. k.allocated + left <= Budget
  BY <1>3, <1>4, UnitsAssumption
<1>7. Recoverable(k, left, tr)
  BY <1>1, <1>2, <1>3, <1>5, <1>6 DEF Recoverable
<1>8. Restored(k, tr) = mem.size
  BY <1>1, <1>2, RestoredFacts
<1> QED BY <1>2, <1>4, <1>7, <1>8, RecoverableFacts

LEMMA ActiveTransferFacts ==
  ASSUME Good(mem, 0), NEW d \in Table, NEW r \in Table, d # r,
         mem.size[d] > 0, mem.size[r] > 0,
         NEW donorTo \in Nat, 0 < donorTo, donorTo <= mem.size[d],
         NEW target \in Nat, target > mem.size[r],
         target - mem.size[r] <= mem.size[d] - donorTo,
         NEW peak, peak = mem.allocated + 1, peak <= Budget,
         NEW active \in BOOLEAN, NEW tr, tr = Trial(d, r, active), tr.active,
         NEW s \in Transferred(tr, donorTo, target, peak)
  PROVE  Held(s, mem.size, active)
<1>1. r # None
  BY TableAssumption
<1>2. /\ tr \in Trials /\ tr.donor = d /\ tr.receiver = r /\ tr.active = active
      /\ tr.donorSize = mem.size[d] /\ tr.receiverSize = mem.size[r]
  <2>1. r = None \/ r \in Table
    OBVIOUS
  <2>2. \A q : q = Trial(d, r, active) =>
          /\ q \in Trials /\ q.donor = d /\ q.receiver = r /\ q.active = active
          /\ q.donorSize = mem.size[d] /\ (r # None => q.receiverSize = mem.size[r])
    BY <2>1, TrialFacts
  <2> QED BY <1>1, <2>2
<1>3. /\ mem.allocated \in Nat /\ mem.size[d] \in Nat /\ mem.size[r] \in Nat
  BY GoodFacts
<1>4. PICK o \in Coordinated(mem, d, donorTo, active) :
        \/ ~o.ok /\ s \in Undone(o.mem, peak - o.mem.allocated, tr)
        \/ /\ o.ok
           /\ \E g \in Coordinated(o.mem, r, target, active) :
                s \in IF g.ok
                      THEN {[mem |-> g.mem, reserve |-> peak - g.mem.allocated, trial |-> tr]}
                      ELSE Undone(g.mem, peak - g.mem.allocated, tr)
  <2>1. PICK o \in Coordinated(mem, tr.donor, donorTo, tr.active) :
           \/ /\ ~o.ok
              /\ s \in IF tr.active THEN Undone(o.mem, peak - o.mem.allocated, tr)
                       ELSE {[mem |-> o.mem, reserve |-> 0, trial |-> NoTrial]}
           \/ /\ o.ok
              /\ \E g \in IF tr.receiver = None THEN {o}
                          ELSE Coordinated(o.mem, tr.receiver, target, tr.active) :
                   s \in IF g.ok
                         THEN {[mem |-> g.mem, reserve |-> peak - g.mem.allocated, trial |-> tr]}
                         ELSE Undone(g.mem, IF tr.active THEN peak - g.mem.allocated
                                            ELSE peak - o.mem.allocated,
                                     IF tr.active THEN tr ELSE [tr EXCEPT !.receiver = None])
    <3>1. Attempted(tr, donorTo, target, peak, s)
      BY TransferredIs
    <3> QED BY <3>1 DEF Attempted
  <2>2. o \in Coordinated(mem, d, donorTo, active)
    BY <1>2, <2>1
  <2> QED BY <1>1, <1>2, <2>1, <2>2
<1>5. /\ Good(o.mem, 0) /\ o.ok \in BOOLEAN
      /\ o.ok => Resized(mem, o.mem, d, donorTo)
      /\ ~o.ok => o.mem = mem \/ Resized(mem, o.mem, d, 1)
  BY <1>4, CoordinatedFacts
<1>6. PICK k : k = o.mem
  OBVIOUS
<1>7. /\ Good(k, 0) /\ k.allocated \in Nat /\ k.size \in [Table -> Nat]
      /\ \A t \in Table : t # d => k.size[t] = mem.size[t]
      /\ k.size[d] \in Nat /\ 0 < k.size[d] /\ k.size[d] <= mem.size[d]
      /\ k.allocated = mem.allocated - (mem.size[d] - k.size[d])
      /\ o.ok => k.size[d] = donorTo
  <2>1. Good(k, 0) /\ k.allocated \in Nat /\ k.size \in [Table -> Nat] /\ mem.size \in [Table -> Nat]
    BY <1>5, <1>6, GoodFacts
  <2>2. CASE o.ok
    <3>1. Resized(mem, k, d, donorTo)
      BY <1>5, <1>6, <2>2
    <3> QED BY <1>3, <2>1, <3>1 DEF Resized
  <2>3. CASE ~o.ok /\ k = mem
    BY <1>3, <2>1, <2>3
  <2>4. CASE ~o.ok /\ Resized(mem, k, d, 1)
    BY <1>3, <2>1, <2>4 DEF Resized
  <2> QED BY <1>5, <1>6, <2>2, <2>3, <2>4
<1>8. k.size[r] = mem.size[r]
  BY <1>7
<1>9. CASE ~o.ok
  <2>1. s \in Undone(k, peak - k.allocated, tr)
    BY <1>4, <1>6, <1>9
  <2>2. k.allocated = mem.allocated - (mem.size[d] - k.size[d]) + (k.size[r] - mem.size[r])
    BY <1>3, <1>7, <1>8
  <2>3. Recoverable(k, peak - k.allocated, tr) /\ Restored(k, tr) = mem.size
    BY <1>3, <1>7, <1>8, <2>2, ActiveRecoverable
  <2> QED BY <1>2, <1>7, <2>1, <2>3, UndoneFacts
<1>10. CASE o.ok
  <2>1. PICK g \in Coordinated(k, r, target, active) :
          s \in IF g.ok
                THEN {[mem |-> g.mem, reserve |-> peak - g.mem.allocated, trial |-> tr]}
                ELSE Undone(g.mem, peak - g.mem.allocated, tr)
    BY <1>4, <1>6, <1>10
  <2>2. /\ Good(g.mem, 0) /\ g.ok \in BOOLEAN
        /\ g.ok => Resized(k, g.mem, r, target)
        /\ ~g.ok => g.mem = k \/ Resized(k, g.mem, r, 1)
    BY <1>7, <1>8, <2>1, CoordinatedFacts
  <2>3. PICK h : h = g.mem
    OBVIOUS
  <2>4. /\ Good(h, 0) /\ h.allocated \in Nat
        /\ \A t \in Table : t # d /\ t # r => h.size[t] = mem.size[t]
        /\ h.size[d] = donorTo /\ h.size[r] \in Nat /\ 0 < h.size[r]
        /\ h.size[r] - mem.size[r] <= mem.size[d] - donorTo
        /\ h.allocated = k.allocated + (h.size[r] - mem.size[r])
    <3>1. Good(h, 0) /\ h.allocated \in Nat
      BY <2>2, <2>3, GoodFacts
    <3>2. CASE g.ok
      <4>1. Resized(k, h, r, target)
        BY <2>2, <2>3, <3>2
      <4> QED BY <1>3, <1>7, <1>8, <1>10, <3>1, <4>1 DEF Resized
    <3>3. CASE ~g.ok /\ h = k
      BY <1>3, <1>7, <1>8, <1>10, <3>1, <3>3
    <3>4. CASE ~g.ok /\ Resized(k, h, r, 1)
      BY <1>3, <1>7, <1>8, <1>10, <3>1, <3>4 DEF Resized
    <3> QED BY <2>2, <2>3, <3>2, <3>3, <3>4
  <2>5. /\ h.allocated = mem.allocated - (mem.size[d] - h.size[d]) + (h.size[r] - mem.size[r])
        /\ h.allocated <= mem.allocated
    BY <1>3, <1>7, <1>10, <2>4
  <2>6. /\ Recoverable(h, peak - h.allocated, tr) /\ Restored(h, tr) = mem.size
        /\ \A t \in Table : h.size[t] > 0 <=> mem.size[t] > 0
    BY <1>3, <2>4, <2>5, ActiveRecoverable
  <2>7. CASE g.ok
    <3>1. s = [mem |-> h, reserve |-> peak - h.allocated, trial |-> tr]
      BY <2>1, <2>3, <2>7
    <3>2. s.mem = h /\ s.reserve = peak - h.allocated /\ s.trial = tr
      BY <3>1
    <3> QED BY <1>2, <2>4, <2>6, <3>2 DEF Held
  <2>8. CASE ~g.ok
    <3>1. s \in Undone(h, peak - h.allocated, tr)
      BY <2>1, <2>3, <2>8
    <3> QED BY <1>2, <2>4, <2>6, <3>1, UndoneFacts
  <2> QED BY <2>2, <2>7, <2>8
<1> QED BY <1>5, <1>9, <1>10

-----------------------------------------------------------------------------
(***************************************************************************)
(* The invariant.                                                          *)
(***************************************************************************)
LEMMA PromisedFacts ==
  ASSUME PoolTypeOK
  PROVE  /\ Promised \in [Table -> Nat] /\ Charged \in [Table -> Nat]
         /\ \A t \in Table : Granted(t, Initial) \in Nat \ {0} /\ Full[t] \in Nat \ {0}
<1>1. \A t \in Table : Granted(t, Initial) \in Nat \ {0} /\ Full[t] \in Nat \ {0}
  BY GrantedFacts, FullAssumption, UnitsAssumption
<1> QED BY <1>1 DEF Promised, Charged

LEMMA PoolGood ==
  ASSUME PoolInv
  PROVE  /\ Good(mem, Total(Promised)) /\ Total(Promised) \in Nat
         /\ (\A t \in Table : entry[t] # "creating") => Good(mem, 0)
<1>1. PICK f : f = Promised
  OBVIOUS
<1>2. PoolTypeOK /\ BudgetHolds
  BY DEF PoolInv
<1>3. f \in [Table -> Nat] /\ Total(f) \in Nat
  BY <1>1, <1>2, PromisedFacts, TotalType
<1>4. mem \in Memories /\ ~mem.over /\ mem.allocated = Total(mem.size) + Total(f)
  BY <1>1, <1>2 DEF PoolTypeOK, BudgetHolds, Memories
<1>5. mem.allocated <= Budget
  <2>1. mem.allocated \in Nat /\ reserve \in Nat /\ mem.allocated + reserve <= Budget
    BY <1>2 DEF PoolTypeOK, BudgetHolds
  <2> QED BY <2>1, UnitsAssumption
<1>6. Good(mem, Total(f))
  BY <1>4, <1>5 DEF Good
<1>7. ASSUME \A t \in Table : entry[t] # "creating" PROVE Total(f) = 0
  <2>1. \A t \in Table : f[t] = 0
    BY <1>1, <1>7 DEF Promised
  <2> QED BY <1>3, <2>1, TotalZero
<1> QED BY <1>1, <1>3, <1>6, <1>7

LEMMA QuiescentFacts ==
  ASSUME PoolInv, Quiescent
  PROVE  /\ Good(mem, 0)
         /\ \A t \in Table : entry[t] # "creating"
         /\ \A w \in Thread : call[w].step = "idle"
         /\ mem.allocated + reserve <= Budget
<1>1. CallsInv /\ \A w \in Thread : call[w].step = "idle"
  BY DEF PoolInv, Quiescent
<1>2. \A t \in Table : entry[t] # "creating"
  BY <1>1 DEF CallsInv
<1> QED BY <1>1, <1>2, PoolGood DEF PoolInv, BudgetHolds

(* The memory is counted right after a step.                               *)
LEMMA BudgetStep ==
  ASSUME PoolInv, PoolTypeOK', NEW m, mem' = m, Good(m, 0),
         \A t \in Table : entry'[t] # "creating",
         \A t \in Table : entry'[t] \in {"loading", "resident"}
                            <=> entry[t] \in {"loading", "resident"},
         m.allocated + reserve' <= Budget, UNCHANGED <<config, used>>
  PROVE  BudgetHolds'
<1>1. PICK f : f = Promised'
  OBVIOUS
<1>2. f \in [Table -> Nat] /\ \A t \in Table : f[t] = 0
  BY <1>1 DEF Promised
<1>3. Total(f) = 0
  BY <1>2, TotalZero
<1>4. Charged' = Charged
  BY DEF Charged
<1>5. used = Total(Charged) /\ used <= config.budget
  BY DEF PoolInv, BudgetHolds
<1>6. used' = Total(Charged')
  BY <1>4, <1>5
<1>7. ~m.over /\ m.allocated = Total(m.size) + Total(f)
  BY <1>3 DEF Good
<1> QED BY <1>1, <1>5, <1>6, <1>7 DEF BudgetHolds

LEMMA IdleCalls ==
  ASSUME PoolInv, Quiescent, call' = call,
         \A t \in Table : entry'[t] # "creating",
         \A t \in Table : mem'.size[t] > 0 <=> entry'[t] = "shared"
  PROVE  CallsInv'
<1>1. \A w \in Thread : call'[w].step = "idle"
  BY QuiescentFacts
<1> QED BY <1>1 DEF CallsInv

(* A step of a transfer.                                                   *)
LEMMA HeldStep ==
  ASSUME PoolInv, Quiescent, NEW s, NEW own, NEW active, Held(s, own, active), Adopt(s),
         \A t \in Table : own[t] = Owned(t),
         \A t \in Table : own[t] > 0 <=> mem.size[t] > 0,
         active <=> config.policy = "idle-reclaim",
         UNCHANGED <<config, entry, views, stopped, used, loan, call, asleep>>
  PROVE  PoolInv'
<1>1. mem' = s.mem /\ reserve' = s.reserve /\ trial' = s.trial
  BY DEF Adopt
<1>2. PICK m, left, tr : m = s.mem /\ left = s.reserve /\ tr = s.trial
  OBVIOUS
<1>3. /\ Good(m, 0) /\ \A t \in Table : m.size[t] > 0 <=> own[t] > 0
      /\ \/ left = 0 /\ tr = NoTrial /\ m.size = own /\ (active => m.allocated + 1 <= Budget)
         \/ /\ tr \in Trials /\ tr.active = active
            /\ Recoverable(m, left, tr) /\ Restored(m, tr) = own
  BY <1>2 DEF Held
<1>4. m.allocated \in Nat /\ m.allocated <= Budget
  BY <1>3 DEF Good, Memories
<1>5. tr \in Trials /\ left \in Nat /\ m.allocated + left <= Budget
  <2>1. CASE left = 0 /\ tr = NoTrial
    BY <1>4, <2>1 DEF NoTrial, Trials
  <2>2. CASE tr \in Trials /\ Recoverable(m, left, tr)
    BY <2>2 DEF Recoverable
  <2> QED BY <1>3, <2>1, <2>2
<1>6. PoolTypeOK'
  BY <1>1, <1>2, <1>3, <1>5 DEF PoolInv, PoolTypeOK, Good, Memories, Trials
<1>7. \A t \in Table : entry'[t] # "creating"
  BY QuiescentFacts
<1>8. BudgetHolds'
  BY <1>1, <1>2, <1>3, <1>5, <1>6, <1>7, BudgetStep
<1>9. CallsInv'
  <2>1. \A t \in Table : mem'.size[t] > 0 <=> entry'[t] = "shared"
    BY <1>1, <1>2, <1>3 DEF PoolInv, CallsInv
  <2> QED BY <1>7, <2>1, IdleCalls
<1>10. TransferInv'
  <2>1. CASE left = 0 /\ tr = NoTrial
    BY <1>1, <1>2, <1>4, <2>1 DEF TransferInv, NoTrial
  <2>2. CASE Recoverable(m, left, tr) /\ tr.active = active
    <3>1. tr.donor # None
      BY <2>2, TableAssumption DEF Recoverable
    <3> QED BY <1>1, <1>2, <2>2, <3>1 DEF TransferInv
  <2> QED BY <1>3, <2>1, <2>2
<1>11. \A t \in Table : Owned(t)' = own[t]
  <2>1. CASE tr = NoTrial /\ m.size = own
    BY <1>1, <1>2, <2>1 DEF Owned, NoTrial
  <2>2. CASE Recoverable(m, left, tr) /\ Restored(m, tr) = own
    <3>1. tr.donor # None
      BY <2>2, TableAssumption DEF Recoverable
    <3> QED BY <1>1, <1>2, <2>2, <3>1 DEF Owned, Restored
  <2> QED BY <1>3, <2>1, <2>2
<1>12. LoansInv'
  <2>1. /\ \A t, u \in Borrowers(loan) : t = u
        /\ \A t \in Borrowers(loan) : config.policy = "idle-reclaim" /\ loan[t] < own[t]
    BY DEF PoolInv, LoansInv, Borrowers
  <2>2. active /\ tr.donor = None => m.allocated + 1 <= Budget
    BY <1>3, TableAssumption DEF Recoverable
  <2> QED BY <1>1, <1>2, <1>11, <2>1, <2>2 DEF LoansInv, Fallback, Borrowers
<1> QED BY <1>6, <1>8, <1>9, <1>10, <1>12 DEF PoolInv

(* A step without a transfer.                                              *)
LoansHold(m, loans) ==
  /\ loans \in [Table -> Nat]
  /\ OneBorrower(loans)
  /\ \A t \in Borrowers(loans) :
       /\ config.policy = "idle-reclaim"
       /\ loans[t] < m.size[t] /\ m.allocated + 1 <= Budget

LEMMA QuietStep ==
  ASSUME PoolInv, Quiescent, trial.donor = None, NEW m, NEW loans,
         Good(m, 0), LoansHold(m, loans), mem' = m, loan' = loans,
         entry' \in [Table -> Modes], \A t \in Table : entry'[t] # "creating",
         \A t \in Table : entry'[t] \in {"loading", "resident"}
                            <=> entry[t] \in {"loading", "resident"},
         \A t \in Table : m.size[t] > 0 <=> entry'[t] = "shared",
         views' \subseteq Table, stopped' \subseteq Table,
         UNCHANGED <<config, used, reserve, trial, call, asleep>>
  PROVE  PoolInv'
<1>1. m \in Memories /\ m.allocated \in Nat /\ m.allocated <= Budget
  BY DEF Good, Memories
<1>2. reserve = 0
  BY DEF PoolInv, TransferInv
<1>3. PoolTypeOK'
  BY <1>1 DEF PoolInv, PoolTypeOK, LoansHold, Memories
<1>4. BudgetHolds'
  BY <1>1, <1>2, <1>3, BudgetStep
<1>5. CallsInv'
  BY IdleCalls
<1>6. TransferInv'
  BY <1>1, <1>2 DEF TransferInv
<1>7. LoansInv'
  <2>1. \A t \in Table : Owned(t)' = m.size[t]
    BY DEF Owned
  <2> QED BY <2>1 DEF LoansInv, LoansHold, OneBorrower, Fallback, Borrowers
<1> QED BY <1>3, <1>4, <1>5, <1>6, <1>7 DEF PoolInv

LEMMA QuietFacts ==
  ASSUME PoolInv, Quiescent, trial.donor = None
  PROVE  /\ Good(mem, 0) /\ reserve = 0 /\ LoansHold(mem, loan)
         /\ entry \in [Table -> Modes] /\ \A t \in Table : entry[t] # "creating"
         /\ \A t \in Table : mem.size[t] > 0 <=> entry[t] = "shared"
         /\ views \subseteq Table /\ stopped \subseteq Table
<1>1. loan \in [Table -> Nat] /\ OneBorrower(loan)
  BY DEF PoolInv, PoolTypeOK, LoansInv, OneBorrower
<1>2. LoansHold(mem, loan)
  BY <1>1 DEF PoolInv, LoansInv, LoansHold, Owned, Fallback, Borrowers
<1> QED BY <1>2, QuiescentFacts DEF PoolInv, PoolTypeOK, CallsInv, TransferInv

LEMMA PoolInit ==
  ASSUME Init
  PROVE  PoolInv
<1>1. PICK z : z = [t \in Table |-> 0]
  OBVIOUS
<1>2. Total(z) = 0
  BY <1>1, TotalZero
<1>3. Promised = z /\ Charged = z /\ mem.size = z
  BY <1>1 DEF Init, Promised, Charged
<1>4. PoolTypeOK
  BY DEF Init, PoolTypeOK, NoTrial, Modes, Steps
<1>5. BudgetHolds
  <2>1. config.budget \in Nat
    BY ConfigsAssumption DEF Init
  <2> QED BY <1>2, <1>3, <2>1, UnitsAssumption DEF Init, BudgetHolds
<1>6. CallsInv
  BY DEF Init, CallsInv
<1>7. TransferInv
  BY UnitsAssumption DEF Init, TransferInv, NoTrial
<1>8. LoansInv
  BY DEF Init, LoansInv, Borrowers
<1> QED BY <1>4, <1>5, <1>6, <1>7, <1>8 DEF PoolInv

-----------------------------------------------------------------------------
(***************************************************************************)
(* The coordinator's steps.                                                *)
(***************************************************************************)
LEMMA RollbackStep ==
  ASSUME PoolInv, Rollback
  PROVE  PoolInv'
<1>1. PICK s \in Undone(mem, reserve, trial) : Adopt(s)
  BY DEF Rollback
<1>2. trial \in Trials /\ Recoverable(mem, reserve, trial) /\ trial.donor # None
  BY DEF Rollback, PoolInv, PoolTypeOK, TransferInv, Trials
<1>3. Good(mem, 0) /\ Quiescent
  BY QuiescentFacts DEF Rollback
<1>4. PICK own : own = Restored(mem, trial)
  OBVIOUS
<1>5. PICK active : active = trial.active
  OBVIOUS
<1>6. Held(s, own, active)
  BY <1>1, <1>2, <1>3, <1>4, <1>5, UndoneFacts
<1>7. \A t \in Table : own[t] = Owned(t)
  BY <1>2, <1>4 DEF Restored, Owned
<1>8. \A t \in Table : own[t] > 0 <=> mem.size[t] > 0
  BY <1>2, <1>3, <1>4, RecoverableFacts
<1>9. active <=> config.policy = "idle-reclaim"
  BY <1>2, <1>5 DEF PoolInv, TransferInv
<1> QED BY <1>1, <1>3, <1>6, <1>7, <1>8, <1>9, HeldStep DEF Rollback

LEMMA AcceptStep ==
  ASSUME PoolInv, Accept
  PROVE  PoolInv'
<1>1. Good(mem, 0) /\ Quiescent /\ \A t \in Table : entry[t] # "creating"
  BY QuiescentFacts DEF Accept
<1>2. mem' = mem /\ reserve' = 0 /\ trial' = NoTrial
  BY DEF Accept, Adopt, Finished
<1>3. /\ trial \in Trials /\ Recoverable(mem, reserve, trial) /\ trial.donor # None
      /\ trial.active <=> config.policy = "idle-reclaim"
  BY DEF Accept, PoolInv, PoolTypeOK, TransferInv, Trials
<1>4. /\ mem.allocated \in Nat /\ mem.allocated <= Budget
      /\ trial.active => mem.allocated + 1 <= Budget
  BY <1>3, RecoverableFacts, <1>1, UnitsAssumption DEF Recoverable
<1>5. /\ loan \in [Table -> Nat] /\ loan' \in [Table -> Nat]
      /\ \A t \in Table : loan'[t] = loan[t] \/ loan'[t] = 0
  BY DEF Accept, Settled, PoolInv, PoolTypeOK
<1>6. PoolTypeOK'
  BY <1>2, <1>5 DEF Accept, PoolInv, PoolTypeOK, NoTrial
<1>7. BudgetHolds'
  BY <1>1, <1>2, <1>4, <1>6, BudgetStep DEF Accept
<1>8. CallsInv'
  BY <1>1, <1>2, IdleCalls DEF Accept, PoolInv, CallsInv
<1>9. TransferInv'
  BY <1>2, <1>4 DEF TransferInv, NoTrial
<1>10. LoansInv'
  <2>1. \A t \in Borrowers(loan') : t \in Borrowers(loan) /\ loan'[t] = loan[t]
    BY <1>5 DEF Borrowers
  <2>2. ASSUME NEW t \in Borrowers(loan')
        PROVE  config.policy = "idle-reclaim" /\ trial.active /\ loan[t] < Owned(t)
    BY <1>3, <2>1, <2>2 DEF PoolInv, LoansInv
  <2>3. ASSUME NEW t \in Borrowers(loan')
        PROVE  loan'[t] < mem.size[t]
    <3>1. /\ t \in Table /\ loan'[t] # 0 /\ loan'[t] = loan[t]
          /\ loan' = Settled(trial.donor, trial.receiver)
      BY <1>5, <2>1, <2>2, <2>3 DEF Accept, Borrowers
    <3>2. t # trial.receiver /\ (t = trial.donor => ~(loan[t] >= mem.size[t]))
      BY <3>1 DEF Settled
    <3>3. mem.size[t] \in Nat /\ loan[t] \in Nat
      BY <1>1, <1>5, <3>1, GoodFacts
    <3>4. t # trial.donor => Owned(t) = mem.size[t]
      BY <1>3, <3>2 DEF Owned
    <3> QED BY <2>2, <3>1, <3>2, <3>3, <3>4
  <2>4. \A t \in Table : Owned(t)' = mem.size[t]
    BY <1>2 DEF Owned, NoTrial
  <2>5. \A t, u \in Borrowers(loan') : t = u
    BY <2>1 DEF PoolInv, LoansInv
  <2>6. Borrowers(loan') \subseteq Table
    BY DEF Borrowers
  <2>7. /\ \A t, u \in Borrowers(loan)' : t = u
        /\ \A t \in Borrowers(loan)' :
             /\ config'.policy = "idle-reclaim" /\ loan'[t] < Owned(t)'
             /\ mem'.allocated + Fallback <= Budget
    BY <1>2, <1>4, <2>2, <2>3, <2>4, <2>5, <2>6 DEF Accept, Borrowers, Fallback
  <2> QED BY <2>7 DEF LoansInv
<1> QED BY <1>6, <1>7, <1>8, <1>9, <1>10 DEF PoolInv

LEMMA StartTransferStep ==
  ASSUME PoolInv, NEW d \in Table, NEW r \in Table \cup {None}, NEW small, NEW target,
         StartTransfer(d, r, small, target)
  PROVE  PoolInv'
<1>1. /\ Quiescent /\ trial.donor = None /\ config.policy # "idle-reclaim"
      /\ mem.size[d] > 0 /\ d # r /\ small \in Floor .. mem.size[d] - 1
      /\ r = None => target = 0
      /\ r # None => mem.size[r] > 0 /\ target \in mem.size[r] + 1 .. Full[r]
  BY DEF StartTransfer, Shared, Unfunded
<1>2. Good(mem, 0)
  BY <1>1, QuiescentFacts
<1>3. /\ mem.allocated \in Nat /\ mem.size[d] \in Nat /\ mem.size[d] <= mem.allocated
      /\ r # None => r \in Table /\ mem.size[r] \in Nat /\ Full[r] \in Nat
  BY <1>2, GoodFacts, FullAssumption
<1>4. small \in Nat /\ 0 < small /\ small < mem.size[d]
  BY <1>1, <1>3, UnitsAssumption
<1>5. target \in Nat /\ (r # None => target > 0)
  BY <1>1, <1>3
<1>6. PICK ra \in Nat : ra = IF r = None THEN 0 ELSE mem.size[r]
  BY <1>3
<1>7. PICK peaks : peaks = Peaks(small, mem.size[d], target, ra)
  OBVIOUS
<1>8. /\ \A p \in peaks : p <= Budget
      /\ \E s \in Transferred(Trial(d, r, FALSE), small, target, Max(peaks)) : Adopt(s)
  BY <1>6, <1>7 DEF StartTransfer
<1>9. PICK a, b, c : /\ a = mem.allocated + small
                     /\ b = mem.allocated - mem.size[d] + small + target
                     /\ c = (mem.allocated - mem.size[d] + small) - ra + target + ra
  OBVIOUS
<1>10. a \in Int /\ b \in Int /\ c \in Int /\ peaks = {a, b, c}
  <2>1. a \in Int /\ b \in Int /\ c \in Int
    BY <1>3, <1>4, <1>5, <1>6, <1>9
  <2>2. Peaks(small, mem.size[d], target, ra) =
          {mem.allocated + small, mem.allocated - mem.size[d] + small + target,
           (mem.allocated - mem.size[d] + small) - ra + target + ra}
    BY DEF Peaks
  <2>3. peaks = {a, b, c}
    BY <1>7, <1>9, <2>2
  <2> QED BY <2>1, <2>3
<1>11. PICK peak : peak = Max(peaks)
  OBVIOUS
<1>12. peak \in peaks /\ peak \in Int /\ peak >= a /\ peak >= b /\ peak <= Budget
  <2>1. peak = Max({a, b, c})
    BY <1>10, <1>11
  <2>2. peak \in {a, b, c} /\ peak >= a /\ peak >= b
    BY <1>10, <2>1, MaxOfThree
  <2> QED BY <1>8, <1>10, <2>2
<1>13. PICK active \in BOOLEAN : active = FALSE
  OBVIOUS
<1>14. PICK tr : tr = Trial(d, r, active)
  OBVIOUS
<1>15. PICK s \in Transferred(tr, small, target, peak) : Adopt(s)
  BY <1>8, <1>11, <1>13, <1>14
<1>16. Held(s, mem.size, active)
  BY <1>1, <1>2, <1>4, <1>5, <1>9, <1>12, <1>13, <1>14, <1>15, IdleTransferFacts
<1>17. \A t \in Table : mem.size[t] = Owned(t)
  BY <1>1 DEF Owned
<1> QED BY <1>1, <1>13, <1>15, <1>16, <1>17, HeldStep DEF StartTransfer

LEMMA StartActiveStep ==
  ASSUME PoolInv, NEW d \in Table, NEW r \in Table, NEW amount, StartActive(d, r, amount)
  PROVE  PoolInv'
<1>1. PICK grown, peak :
        /\ grown = Granted(r, mem.size[r] + amount)
        /\ peak = Max({mem.allocated, mem.allocated - amount - mem.size[r] + grown})
  OBVIOUS
<1>2. /\ Quiescent /\ trial.donor = None /\ config.policy = "idle-reclaim"
      /\ mem.size[d] > 0 /\ mem.size[r] > 0 /\ d # r
      /\ amount \in 1 .. Min({MaxStep, mem.size[r] \div 2})
      /\ mem.size[d] - amount >= Initial
      /\ grown > mem.size[r] /\ peak + Fallback <= Budget
      /\ \E s \in Transferred(Trial(d, r, TRUE), mem.size[d] - amount, grown, peak + Fallback) :
           Adopt(s)
  BY <1>1 DEF StartActive, Shared, Unfunded
<1>3. Good(mem, 0)
  BY <1>2, QuiescentFacts
<1>4. mem.allocated \in Nat /\ mem.size[d] \in Nat /\ mem.size[r] \in Nat
  BY <1>3, GoodFacts
<1>5. amount \in Nat \ {0}
  <2>1. mem.size[r] \div 2 \in Int
    BY <1>4
  <2>2. Min({MaxStep, mem.size[r] \div 2}) \in Int
    BY <2>1, MinOfTwo, UnitsAssumption
  <2> QED BY <1>2, <2>2
<1>6. /\ grown \in Nat /\ grown <= mem.size[r] + amount
  BY <1>1, <1>4, <1>5, GrantedFacts
<1>7. peak = mem.allocated
  <2>1. PICK b \in Int : b = mem.allocated - amount - mem.size[r] + grown
    BY <1>4, <1>5, <1>6
  <2>2. b <= mem.allocated
    BY <1>4, <1>5, <1>6, <2>1
  <2> QED BY <1>1, <1>4, <2>1, <2>2, MaxOfTwo
<1>8. PICK donorTo \in Nat : donorTo = mem.size[d] - amount
  BY <1>2, <1>4, <1>5, UnitsAssumption
<1>9. /\ 0 < donorTo /\ donorTo <= mem.size[d]
      /\ grown - mem.size[r] <= mem.size[d] - donorTo
  BY <1>2, <1>4, <1>5, <1>6, <1>8, UnitsAssumption
<1>10. PICK top : top = mem.allocated + 1
  OBVIOUS
<1>11. peak + Fallback = top /\ top <= Budget
  BY <1>2, <1>7, <1>10 DEF Fallback
<1>12. PICK active \in BOOLEAN : active = TRUE
  OBVIOUS
<1>13. PICK tr : tr = Trial(d, r, active)
  OBVIOUS
<1>14. PICK s \in Transferred(tr, donorTo, grown, top) : Adopt(s)
  BY <1>2, <1>8, <1>11, <1>12, <1>13
<1>15. tr.active
  BY <1>12, <1>13 DEF Trial
<1>16. Held(s, mem.size, active)
  BY <1>2, <1>3, <1>6, <1>9, <1>10, <1>11, <1>13, <1>14, <1>15, ActiveTransferFacts
<1>17. \A t \in Table : mem.size[t] = Owned(t)
  BY <1>2 DEF Owned
<1> QED BY <1>2, <1>12, <1>14, <1>16, <1>17, HeldStep DEF StartActive

(* A cache that shrinks, and its loan that is given back.                  *)
Lighter(k, loans) ==
  /\ Good(k, 0) /\ LoansHold(k, loans)
  /\ \A t \in Table : k.size[t] > 0 <=> mem.size[t] > 0

LEMMA LighterFacts ==
  ASSUME Good(mem, 0), LoansHold(mem, loan), NEW e \in Table, mem.size[e] > 0,
         NEW n \in Nat, 0 < n, n <= mem.size[e],
         NEW k, Good(k, 0), k = mem \/ Resized(mem, k, e, n) \/ Resized(mem, k, e, 1),
         NEW loans, loans = Repaid(loan, e, k)
  PROVE  Lighter(k, loans)
<1>1. /\ mem.size \in [Table -> Nat] /\ mem.allocated \in Nat /\ mem.size[e] \in Nat
      /\ k.size \in [Table -> Nat] /\ k.allocated \in Nat
  BY GoodFacts
<1>2. PICK v \in Nat : v = k.size[e]
  BY <1>1
<1>3. /\ 0 < v /\ v <= mem.size[e]
      /\ \A t \in Table : k.size[t] = IF t = e THEN v ELSE mem.size[t]
      /\ k.allocated <= mem.allocated
  <2>1. CASE k = mem
    BY <1>1, <1>2, <2>1
  <2>2. CASE Resized(mem, k, e, n)
    BY <1>1, <1>2, <2>2 DEF Resized
  <2>3. CASE Resized(mem, k, e, 1)
    BY <1>1, <1>2, <2>3 DEF Resized
  <2> QED BY <2>1, <2>2, <2>3
<1>4. loan \in [Table -> Nat] /\ loan[e] \in Nat
  BY DEF LoansHold
<1>5. /\ loans \in [Table -> Nat]
      /\ \A t \in Table : loans[t] = IF t = e /\ v <= loan[e] THEN 0 ELSE loan[t]
  BY <1>2, <1>4 DEF Repaid
<1>6. \A t \in Borrowers(loans) : t \in Borrowers(loan) /\ loans[t] = loan[t] /\ (t = e => ~(v <= loan[e]))
  BY <1>5 DEF Borrowers
<1>7. \A t \in Borrowers(loans) : config.policy = "idle-reclaim" /\ k.allocated + 1 <= Budget
  <2> SUFFICES ASSUME NEW t \in Borrowers(loans)
               PROVE  config.policy = "idle-reclaim" /\ k.allocated + 1 <= Budget
    OBVIOUS
  <2>1. config.policy = "idle-reclaim" /\ mem.allocated + 1 <= Budget
    BY <1>6 DEF LoansHold
  <2> QED BY <1>1, <1>3, <2>1, UnitsAssumption
<1>8. \A t \in Borrowers(loans) : loans[t] < k.size[t]
  <2> SUFFICES ASSUME NEW t \in Borrowers(loans)
               PROVE  loans[t] < k.size[t]
    OBVIOUS
  <2>1. t \in Table /\ loans[t] = loan[t] /\ loan[t] < mem.size[t] /\ (t = e => ~(v <= loan[e]))
    BY <1>6 DEF LoansHold, Borrowers
  <2> QED BY <1>2, <1>3, <1>4, <2>1
<1>9. OneBorrower(loans)
  BY <1>6 DEF LoansHold, OneBorrower
<1> QED BY <1>1, <1>3, <1>5, <1>7, <1>8, <1>9 DEF Lighter, LoansHold

LEMMA ReclaimedFacts ==
  ASSUME Good(mem, 0), LoansHold(mem, loan), NEW e \in Table, NEW o \in Reclaimed(e)
  PROVE  Lighter(o.mem, o.loan)
<1>1. /\ mem.size[e] > Floor /\ Fallback <= Free(mem)
      /\ o \in Settle(e, Discard(mem, e, Floor))
  BY DEF Reclaimed
<1>2. PICK d \in Discard(mem, e, Floor) : o = [mem |-> d.mem, loan |-> Repaid(loan, e, d.mem)]
  BY <1>1 DEF Settle
<1>3. /\ mem.size[e] \in Nat /\ mem.allocated \in Nat /\ Floor \in Nat \ {0} /\ Free(mem) \in Int
  BY GoodFacts, UnitsAssumption DEF Free
<1>4. /\ Good(d.mem, 0) /\ d.ok \in BOOLEAN
      /\ d.ok => Resized(mem, d.mem, e, Floor)
      /\ ~d.ok => d.mem = mem \/ Resized(mem, d.mem, e, 1)
  <2>1. mem.size[e] > 0 /\ 1 <= Free(mem) /\ Floor <= Free(mem) + mem.size[e] - 1 /\ Floor \in Nat
    BY <1>1, <1>3 DEF Fallback
  <2> QED BY <1>2, <2>1, DiscardFacts
<1>5. o.mem = d.mem /\ o.loan = Repaid(loan, e, d.mem)
  BY <1>2
<1>6. 0 < Floor /\ Floor <= mem.size[e] /\ mem.size[e] > 0 /\ Floor \in Nat
  BY <1>1, <1>3
<1> QED BY <1>4, <1>5, <1>6, LighterFacts

LEMMA ReturnedFacts ==
  ASSUME Good(mem, 0), LoansHold(mem, loan), Fallback <= Free(mem),
         NEW e \in Borrowers(loan), NEW o \in Returned(e)
  PROVE  Lighter(o.mem, o.loan)
<1>1. /\ e \in Table /\ loan[e] \in Nat /\ 0 < loan[e] /\ loan[e] < mem.size[e]
      /\ mem.size[e] \in Nat /\ mem.allocated \in Nat /\ Free(mem) \in Int /\ 1 <= Free(mem)
  BY GoodFacts, UnitsAssumption DEF Borrowers, LoansHold, Free, Fallback
<1>2. PICK n \in Nat : n = loan[e]
  BY <1>1
<1>3. PICK d \in IF n <= Free(mem) THEN Migrate(mem, e, n) ELSE Discard(mem, e, n) :
        o = [mem |-> d.mem, loan |-> Repaid(loan, e, d.mem)]
  BY <1>2 DEF Returned, Settle
<1>4. mem.size[e] > 0 /\ n <= Free(mem) + mem.size[e] - 1
  BY <1>1, <1>2
<1>5. /\ Good(d.mem, 0) /\ d.ok \in BOOLEAN
      /\ d.ok => Resized(mem, d.mem, e, n)
      /\ ~d.ok => d.mem = mem \/ Resized(mem, d.mem, e, 1)
  <2>1. CASE n <= Free(mem)
    <3>1. d \in Migrate(mem, e, n)
      BY <1>3, <2>1
    <3> QED BY <1>1, <2>1, <3>1, MigrateFacts
  <2>2. CASE ~(n <= Free(mem))
    <3>1. d \in Discard(mem, e, n)
      BY <1>3, <2>2
    <3> QED BY <1>1, <1>4, <3>1, DiscardFacts
  <2> QED BY <2>1, <2>2
<1>6. o.mem = d.mem /\ o.loan = Repaid(loan, e, d.mem)
  BY <1>3
<1>7. 0 < n /\ n <= mem.size[e]
  BY <1>1, <1>2
<1> QED BY <1>1, <1>4, <1>5, <1>6, <1>7, LighterFacts

LEMMA RepaidForFacts ==
  ASSUME Good(mem, 0), LoansHold(mem, loan), NEW t \in Table, NEW o \in RepaidFor(t)
  PROVE  Lighter(o.mem, o.loan)
<1>1. /\ Fallback <= Free(mem)
      /\ o \in UNION {Reclaimed(e) \cup Returned(e) : e \in Borrowers(loan) \ {t}}
  BY DEF RepaidFor
<1>2. PICK e \in Borrowers(loan) : o \in Reclaimed(e) \cup Returned(e)
  BY <1>1
<1>3. e \in Table
  BY DEF Borrowers
<1>4. CASE o \in Reclaimed(e)
  BY <1>3, <1>4, ReclaimedFacts
<1>5. CASE o \in Returned(e)
  BY <1>1, <1>5, ReturnedFacts
<1> QED BY <1>2, <1>4, <1>5

LEMMA LighterStep ==
  ASSUME PoolInv, Quiescent, trial.donor = None, NEW k, NEW loans, Lighter(k, loans),
         mem' = k, loan' = loans, stopped' \subseteq Table,
         UNCHANGED <<config, entry, views, used, reserve, trial, call, asleep>>
  PROVE  PoolInv'
<1>1. /\ Good(k, 0) /\ LoansHold(k, loans)
      /\ \A t \in Table : k.size[t] > 0 <=> mem.size[t] > 0
  BY DEF Lighter
<1> QED BY <1>1, QuietFacts, QuietStep

LEMMA ReclaimStep ==
  ASSUME PoolInv, NEW r \in Table, NEW t \in Table, Reclaim(r, t)
  PROVE  PoolInv'
<1>1. PICK o \in Reclaimed(t) : mem' = o.mem /\ loan' = o.loan
  BY DEF Reclaim
<1>2. Quiescent /\ trial.donor = None
  BY <1>1 DEF Reclaim, Reclaimed
<1>3. Good(mem, 0) /\ LoansHold(mem, loan) /\ stopped \subseteq Table
  BY <1>2, QuietFacts
<1>4. Lighter(o.mem, o.loan)
  BY <1>3, ReclaimedFacts
<1> QED BY <1>1, <1>2, <1>3, <1>4, LighterStep DEF Reclaim

LEMMA RepayWaiterStep ==
  ASSUME PoolInv, NEW t \in Table, RepayWaiter(t)
  PROVE  PoolInv'
<1>1. PICK o \in RepaidFor(t) : mem' = o.mem /\ loan' = o.loan
  BY DEF RepayWaiter
<1>2. Quiescent /\ trial.donor = None
  BY <1>1 DEF RepayWaiter, RepaidFor
<1>3. Good(mem, 0) /\ LoansHold(mem, loan) /\ stopped \subseteq Table
  BY <1>2, QuietFacts
<1>4. Lighter(o.mem, o.loan)
  BY <1>3, RepaidForFacts
<1> QED BY <1>1, <1>2, <1>3, <1>4, LighterStep DEF RepayWaiter

LEMMA ReservedFacts ==
  ASSUME NEW k \in Memories, ~k.over, NEW n \in Int, k.allocated + n \in Nat,
         k.allocated + n <= Budget, NEW q, q = Reserved(k, n)
  PROVE  q \in Memories /\ ~q.over /\ q.size = k.size /\ q.allocated = k.allocated + n
<1>1. q.size = k.size /\ q.allocated = k.allocated + n
  BY DEF Reserved, Memories
<1>2. q.over = (k.over \/ k.allocated + n > Budget)
  BY DEF Reserved, Memories
<1>3. ~q.over /\ q.over \in BOOLEAN
  <2>1. ~(k.allocated + n > Budget)
    BY UnitsAssumption
  <2> QED BY <1>2, <2>1
<1>4. q \in Memories
  <2>1. q = [k EXCEPT !.allocated = q.allocated, !.over = q.over]
    BY <1>1, <1>2 DEF Reserved
  <2> QED BY <1>1, <1>3, <2>1 DEF Memories
<1> QED BY <1>1, <1>3, <1>4

LEMMA MaintainPrivateStep ==
  ASSUME PoolInv, NEW t \in Table, MaintainPrivate(t)
  PROVE  PoolInv'
<1>1. PICK n : n = Granted(t, Initial)
  OBVIOUS
<1>2. Quiescent /\ trial.donor = None /\ entry[t] = "private"
  BY DEF MaintainPrivate
<1>3. /\ Good(mem, 0) /\ reserve = 0 /\ LoansHold(mem, loan)
      /\ entry \in [Table -> Modes] /\ \A u \in Table : entry[u] # "creating"
      /\ \A u \in Table : mem.size[u] > 0 <=> entry[u] = "shared"
      /\ views \subseteq Table /\ stopped \subseteq Table
  BY <1>2, QuietFacts
<1>4. n \in Nat \ {0}
  BY <1>1, GrantedFacts, UnitsAssumption
<1>5. PICK o \in IF n <= AdmissionAvailable(mem, loan) THEN {[mem |-> mem, loan |-> loan]}
                 ELSE IF RepaidFor(t) # {} THEN RepaidFor(t)
                 ELSE UNION {Reclaimed(e) : e \in Table \ {t}} :
        /\ loan' = o.loan
        /\ \/ /\ n <= AdmissionAvailable(o.mem, o.loan)
              /\ entry' = [entry EXCEPT ![t] = "shared"]
              /\ mem' = [Reserved(o.mem, n) EXCEPT !.size[t] = n]
           \/ mem' = o.mem /\ entry' = entry
  <2> DEFINE Recalled == IF RepaidFor(t) # {} THEN RepaidFor(t)
                         ELSE UNION {Reclaimed(e) : e \in Table \ {t}}
             Now == [mem |-> mem, loan |-> loan]
             From == IF n <= AdmissionAvailable(Now.mem, Now.loan) THEN {Now} ELSE Recalled
  <2>1. PICK o \in From :
        /\ loan' = o.loan
        /\ \/ /\ n <= AdmissionAvailable(o.mem, o.loan)
              /\ entry' = [entry EXCEPT ![t] = "shared"]
              /\ mem' = [Reserved(o.mem, n) EXCEPT !.size[t] = n]
           \/ mem' = o.mem /\ entry' = entry
    BY <1>1 DEF MaintainPrivate
  <2>2. Now.mem = mem /\ Now.loan = loan
    OBVIOUS
  <2> HIDE DEF Recalled, Now
  <2>3. o \in IF n <= AdmissionAvailable(mem, loan) THEN {Now} ELSE Recalled
    BY <2>1, <2>2
  <2> QED BY <2>1, <2>3 DEF Recalled, Now
<1>6. Lighter(o.mem, o.loan)
  <2>1. CASE o = [mem |-> mem, loan |-> loan]
    <3>1. o.mem = mem /\ o.loan = loan
      BY <2>1
    <3> QED BY <1>3, <3>1 DEF Lighter
  <2>2. CASE o \in RepaidFor(t)
    BY <1>3, <2>2, RepaidForFacts
  <2>3. CASE o \in UNION {Reclaimed(e) : e \in Table \ {t}}
    <3>1. PICK e \in Table : o \in Reclaimed(e)
      BY <2>3
    <3> QED BY <1>3, <3>1, ReclaimedFacts
  <2> QED BY <1>5, <2>1, <2>2, <2>3
<1>7. PICK k, loans : k = o.mem /\ loans = o.loan
  OBVIOUS
<1>8. /\ Good(k, 0) /\ LoansHold(k, loans)
      /\ \A u \in Table : k.size[u] > 0 <=> mem.size[u] > 0
  BY <1>6, <1>7 DEF Lighter
<1>9. UNCHANGED <<config, views, stopped, used, reserve, trial, call, asleep>>
  BY DEF MaintainPrivate
<1>10. CASE mem' = k /\ entry' = entry
  BY <1>2, <1>3, <1>5, <1>6, <1>7, <1>9, <1>10, LighterStep
<1>11. CASE /\ n <= AdmissionAvailable(k, loans)
            /\ entry' = [entry EXCEPT ![t] = "shared"]
            /\ mem' = [Reserved(k, n) EXCEPT !.size[t] = n]
  <2>1. /\ k \in Memories /\ k.allocated \in Nat /\ k.size \in [Table -> Nat] /\ k.size[t] \in Nat
        /\ k.size[t] = 0 /\ OneBorrower(loans) /\ loans \in [Table -> Nat]
    BY <1>2, <1>3, <1>8, GoodFacts DEF Good, LoansHold
  <2>2. /\ k.allocated + n <= Budget
        /\ Borrowers(loans) # {} => k.allocated + n + 1 <= Budget
    BY <1>3, <1>4, <1>11, <2>1, AdmissionFacts, UnitsAssumption
  <2>3. PICK h : h = mem'
    OBVIOUS
  <2>4. PICK q : q = Reserved(k, n)
    OBVIOUS
  <2>5. Good(h, 0) /\ Resized(k, h, t, n)
    <3>1. q \in Memories /\ ~q.over /\ q.size = k.size /\ q.allocated = k.allocated + n
      BY <1>4, <1>8, <2>1, <2>2, <2>4, ReservedFacts DEF Good
    <3>2. h = [q EXCEPT !.size[t] = n]
      BY <1>11, <2>3, <2>4
    <3>3. PICK f : f = [k.size EXCEPT ![t] = n]
      OBVIOUS
    <3>4. h.size = f /\ h.allocated = k.allocated + n /\ h.over = q.over /\ h \in Memories
      <4>1. f \in [Table -> Nat]
        BY <1>4, <2>1, <3>3
      <4> QED BY <3>1, <3>2, <3>3, <4>1 DEF Memories
    <3>5. Total(f) = Total(k.size) - k.size[t] + n /\ Total(k.size) \in Nat
      BY <1>4, <2>1, <3>3, TotalStep
    <3>6. k.allocated = Total(k.size) + 0
      BY <1>8 DEF Good
    <3> QED BY <1>4, <2>1, <2>2, <3>1, <3>3, <3>4, <3>5, <3>6 DEF Good, Resized
  <2>6. /\ \A u \in Table : h.size[u] = IF u = t THEN n ELSE k.size[u]
        /\ h.allocated = k.allocated + n
    BY <1>4, <2>1, <2>5 DEF Resized
  <2>7. LoansHold(h, loans)
    <3>1. ASSUME NEW u \in Borrowers(loans)
          PROVE  config.policy = "idle-reclaim" /\ loans[u] < h.size[u] /\ h.allocated + 1 <= Budget
      <4>1. u \in Table /\ config.policy = "idle-reclaim" /\ loans[u] < k.size[u] /\ loans[u] \in Nat
        BY <1>8, <2>1 DEF LoansHold, Borrowers
      <4>2. u # t
        BY <2>1, <4>1
      <4> QED BY <2>2, <2>6, <4>1, <4>2
    <3> QED BY <2>1, <3>1 DEF LoansHold
  <2>8. /\ entry' \in [Table -> Modes]
        /\ \A u \in Table : entry'[u] = IF u = t THEN "shared" ELSE entry[u]
    BY <1>3, <1>11 DEF Modes
  <2>9. \A u \in Table : h.size[u] > 0 <=> entry'[u] = "shared"
    BY <1>3, <1>4, <1>8, <2>6, <2>8
  <2>10. /\ \A u \in Table : entry'[u] # "creating"
         /\ \A u \in Table : entry'[u] \in {"loading", "resident"}
                               <=> entry[u] \in {"loading", "resident"}
    BY <1>2, <1>3, <2>8
  <2> QED BY <1>2, <1>3, <1>5, <1>7, <1>9, <2>3, <2>5, <2>7, <2>8, <2>9, <2>10, QuietStep
<1> QED BY <1>5, <1>7, <1>10, <1>11

LEMMA CapacityFacts ==
  ASSUME NEW t \in Table, mem.size[t] \in Nat \ {0}, NEW a \in Nat, NEW b \in Nat, a <= b
  PROVE  /\ Capacity(t, a) \in Nat /\ Capacity(t, b) \in Nat
         /\ Capacity(t, a) <= Capacity(t, b)
         /\ Capacity(t, b) > 0 => b >= 1 /\ Capacity(t, b) = b + mem.size[t] - 1
BY DEF Capacity, Fallback

(* What a cache may grow to can be had without its old contents.           *)
LEMMA LimitFacts ==
  ASSUME Good(mem, 0), LoansHold(mem, loan), reserve = 0, NEW t \in Table, mem.size[t] > 0
  PROVE  /\ Physical(t) \in Nat /\ Protected(t) \in Nat /\ Protected(t) <= Physical(t)
         /\ Physical(t) > 0 =>
              /\ mem.allocated + 1 <= Budget
              /\ mem.allocated - mem.size[t] + Physical(t) + 1 <= Budget
<1>1. mem.size[t] \in Nat \ {0} /\ mem.allocated \in Nat
  BY GoodFacts
<1>2. PICK a : a = AdmissionAvailable(mem, loan)
  OBVIOUS
<1>3. a \in Nat /\ (a # 0 => mem.allocated + a <= Budget)
  <2>1. OneBorrower(loan) /\ reserve \in Nat
    BY DEF LoansHold
  <2> QED BY <1>1, <1>2, <2>1, AdmissionFacts, UnitsAssumption
<1>4. PICK x \in Nat : x = IF config.policy = "idle-reclaim" THEN Headroom ELSE 0
  BY UnitsAssumption
<1>5. PICK b : b = Positive(a - x)
  OBVIOUS
<1>6. b \in Nat /\ b <= a
  BY <1>3, <1>4, <1>5, PositiveFacts
<1>7. Physical(t) = Capacity(t, a) /\ Protected(t) = Capacity(t, b)
  BY <1>2, <1>4, <1>5 DEF Physical, Protected
<1> QED BY <1>1, <1>3, <1>6, <1>7, CapacityFacts, UnitsAssumption

LEMMA GrowStep ==
  ASSUME PoolInv, NEW t \in Table, NEW n, NEW returning \in BOOLEAN, Grow(t, n, returning)
  PROVE  PoolInv'
<1>1. PICK claim, protected, limit, resized :
        /\ claim = IF returning THEN Min({Bootstrap, Physical(t)}) ELSE 0
        /\ protected = Max({Protected(t), claim})
        /\ limit = IF MayBorrow(t, protected) THEN Max({protected, Physical(t)}) ELSE protected
        /\ resized = IF n > Free(mem) THEN Discard(mem, t, n) ELSE Migrate(mem, t, n)
  OBVIOUS
<1>2. /\ Quiescent /\ trial.donor = None /\ mem.size[t] > 0
      /\ n \in mem.size[t] + 1 .. Min({limit, Full[t]})
      /\ \E o \in resized :
           /\ mem' = o.mem
           /\ IF o.ok
                THEN /\ loan' = [loan EXCEPT ![t] = LoanAfter(t, n, n > protected)]
                     /\ UNCHANGED stopped
                ELSE /\ loan' = Repaid(loan, t, o.mem)
                     /\ stopped' = stopped \cup {t}
  BY <1>1 DEF Grow, Shared
<1>3. /\ Good(mem, 0) /\ reserve = 0 /\ LoansHold(mem, loan)
      /\ entry \in [Table -> Modes] /\ \A u \in Table : entry[u] # "creating"
      /\ \A u \in Table : mem.size[u] > 0 <=> entry[u] = "shared"
      /\ views \subseteq Table /\ stopped \subseteq Table
  BY <1>2, QuietFacts
<1>4. /\ mem.size \in [Table -> Nat] /\ mem.size[t] \in Nat /\ mem.allocated \in Nat
      /\ mem.size[t] <= mem.allocated /\ Full[t] \in Nat
      /\ loan \in [Table -> Nat] /\ loan[t] \in Nat
  BY <1>3, GoodFacts, FullAssumption DEF LoansHold
<1>5. /\ Physical(t) \in Nat /\ Protected(t) \in Nat /\ Protected(t) <= Physical(t)
      /\ Physical(t) > 0 =>
           /\ mem.allocated + 1 <= Budget
           /\ mem.allocated - mem.size[t] + Physical(t) + 1 <= Budget
  BY <1>2, <1>3, LimitFacts
<1>6. claim \in Nat /\ claim <= Physical(t)
  <2>1. Min({Bootstrap, Physical(t)}) \in Nat /\ Min({Bootstrap, Physical(t)}) <= Physical(t)
    BY <1>5, MinOfTwo, UnitsAssumption
  <2> QED BY <1>1, <1>5, <2>1
<1>7. protected \in Nat /\ protected <= Physical(t)
  <2>1. Max({Protected(t), claim}) = IF Protected(t) >= claim THEN Protected(t) ELSE claim
    BY <1>5, <1>6, MaxOfTwo
  <2> QED BY <1>1, <1>5, <1>6, <2>1
<1>8. limit \in Nat /\ limit <= Physical(t)
  <2>1. Max({protected, Physical(t)}) = Physical(t)
    BY <1>5, <1>7, MaxOfTwo
  <2> QED BY <1>1, <1>5, <1>7, <2>1
<1>9. n \in Nat /\ mem.size[t] < n /\ n <= limit
  <2>1. Min({limit, Full[t]}) \in Nat /\ Min({limit, Full[t]}) <= limit
    BY <1>4, <1>8, MinOfTwo
  <2> QED BY <1>2, <1>4, <1>8, <2>1
<1>10. mem.allocated + 1 <= Budget /\ mem.allocated - mem.size[t] + n + 1 <= Budget
  BY <1>4, <1>5, <1>8, <1>9, UnitsAssumption
<1>11. PICK o \in resized :
           /\ mem' = o.mem
           /\ IF o.ok
                THEN /\ loan' = [loan EXCEPT ![t] = LoanAfter(t, n, n > protected)]
                     /\ UNCHANGED stopped
                ELSE /\ loan' = Repaid(loan, t, o.mem)
                     /\ stopped' = stopped \cup {t}
  BY <1>2
<1>12. /\ Good(o.mem, 0) /\ o.ok \in BOOLEAN
       /\ o.ok => Resized(mem, o.mem, t, n)
       /\ ~o.ok => o.mem = mem \/ Resized(mem, o.mem, t, 1)
  <2>1. Free(mem) \in Int /\ Free(mem) = Budget - mem.allocated
    BY <1>4, UnitsAssumption DEF Free
  <2>2. CASE n > Free(mem)
    <3>1. o \in Discard(mem, t, n)
      BY <1>1, <1>11, <2>2
    <3>2. 1 <= Free(mem) /\ n <= Free(mem) + mem.size[t] - 1
      BY <1>4, <1>9, <1>10, <2>1, UnitsAssumption
    <3> QED BY <1>2, <1>3, <1>9, <3>1, <3>2, DiscardFacts
  <2>3. CASE n <= Free(mem)
    <3>1. o \in Migrate(mem, t, n)
      BY <1>1, <1>9, <1>11, <2>1, <2>3
    <3> QED BY <1>3, <1>9, <2>3, <3>1, MigrateFacts
  <2> QED BY <1>9, <2>1, <2>2, <2>3
<1>13. UNCHANGED <<config, entry, views, used, reserve, trial, call, asleep>>
  BY DEF Grow
<1>14. CASE ~o.ok
  <2>1. Lighter(o.mem, Repaid(loan, t, o.mem))
    <3>1. mem.size[t] \in Nat /\ 0 < mem.size[t]
      BY <1>2, <1>4
    <3> QED BY <1>2, <1>3, <1>12, <1>14, <3>1, LighterFacts
  <2>2. stopped' \subseteq Table
    BY <1>3, <1>11, <1>14
  <2> QED BY <1>2, <1>11, <1>13, <1>14, <2>1, <2>2, LighterStep
<1>15. CASE o.ok
  <2>1. PICK k : k = o.mem
    OBVIOUS
  <2>2. /\ Good(k, 0) /\ k.allocated + 1 <= Budget
        /\ \A u \in Table : k.size[u] = IF u = t THEN n ELSE mem.size[u]
    BY <1>4, <1>9, <1>10, <1>12, <1>15, <2>1 DEF Resized
  <2>3. PICK own \in Nat : own = LoanAfter(t, n, n > protected)
    BY <1>4, <1>9 DEF LoanAfter
  <2>4. /\ loan' \in [Table -> Nat]
        /\ \A u \in Table : loan'[u] = IF u = t THEN own ELSE loan[u]
    BY <1>4, <1>11, <1>15, <2>3
  <2>5. ~(n > protected) => (own = 0 <=> loan[t] = 0)
    BY <1>4, <1>9, <2>3 DEF LoanAfter
  <2>6. n > protected => config.policy = "idle-reclaim" /\ Borrowers(loan) \subseteq {t}
    <3>1. n > protected => MayBorrow(t, protected)
      BY <1>1, <1>7, <1>9
    <3> QED BY <3>1 DEF MayBorrow
  <2>7. own < n
    <3>1. loan[t] > 0 => loan[t] < mem.size[t]
      BY <1>3, <1>4 DEF LoansHold, Borrowers
    <3> QED BY <1>2, <1>4, <1>9, <2>3, <3>1 DEF LoanAfter
  <2>8. \A u \in Borrowers(loan') : u \in Borrowers(loan) \/ (u = t /\ n > protected)
    BY <1>4, <1>7, <1>9, <2>4, <2>5 DEF Borrowers
  <2>9. LoansHold(k, loan')
    <3>1. ASSUME NEW u \in Borrowers(loan')
          PROVE  config.policy = "idle-reclaim" /\ loan'[u] < k.size[u] /\ k.allocated + 1 <= Budget
      <4>1. u \in Table
        BY DEF Borrowers
      <4>2. config.policy = "idle-reclaim"
        BY <1>3, <2>6, <2>8 DEF LoansHold
      <4>3. u # t => loan'[u] < k.size[u]
        <5>1. u # t => u \in Borrowers(loan) /\ loan'[u] = loan[u]
          BY <2>4, <2>8, <4>1
        <5> QED BY <1>3, <2>2, <4>1, <5>1 DEF LoansHold
      <4> QED BY <2>2, <2>4, <2>7, <4>1, <4>2, <4>3
    <3>2. OneBorrower(loan')
      BY <1>3, <2>6, <2>8 DEF LoansHold, OneBorrower
    <3> QED BY <2>4, <3>1, <3>2 DEF LoansHold
  <2>10. \A u \in Table : k.size[u] > 0 <=> entry'[u] = "shared"
    BY <1>2, <1>3, <1>4, <1>9, <1>13, <2>2
  <2> QED BY <1>2, <1>3, <1>11, <1>13, <1>15, <2>1, <2>2, <2>9, <2>10, QuietStep
<1> QED BY <1>12, <1>14, <1>15

(* A step that changes nothing but views and the calls that are over.      *)
LEMMA SameStep ==
  ASSUME PoolInv, views' \subseteq Table, asleep' \subseteq Thread,
         UNCHANGED <<config, entry, stopped, used, mem, loan, reserve, trial, call>>
  PROVE  PoolInv'
<1>1. PoolTypeOK'
  BY DEF PoolInv, PoolTypeOK
<1>2. Promised' = Promised /\ Charged' = Charged
  BY DEF Promised, Charged
<1>3. BudgetHolds'
  BY <1>2 DEF PoolInv, BudgetHolds
<1>4. CallsInv' /\ TransferInv'
  BY DEF PoolInv, CallsInv, TransferInv
<1>5. \A t \in Table : Owned(t)' = Owned(t)
  BY DEF Owned
<1>6. LoansInv'
  BY <1>5 DEF PoolInv, LoansInv, Borrowers
<1> QED BY <1>1, <1>3, <1>4, <1>6 DEF PoolInv

LEMMA UnregisterStep ==
  ASSUME PoolInv, NEW t \in Table, Unregister(t)
  PROVE  PoolInv'
BY SameStep DEF Unregister, PoolInv, PoolTypeOK

LEMMA CoordinateStep ==
  ASSUME PoolInv, Coordinate
  PROVE  PoolInv'
<1>1. CASE Rollback
  BY <1>1, RollbackStep
<1>2. CASE Accept
  BY <1>2, AcceptStep
<1>3. ASSUME NEW t \in Table, MaintainPrivate(t) PROVE PoolInv'
  BY <1>3, MaintainPrivateStep
<1>4. ASSUME NEW t \in Table, RepayWaiter(t) PROVE PoolInv'
  BY <1>4, RepayWaiterStep
<1>5. ASSUME NEW t \in Table, Unregister(t) PROVE PoolInv'
  BY <1>5, UnregisterStep
<1>6. ASSUME NEW t \in Table, NEW n, NEW returning \in BOOLEAN, Grow(t, n, returning) PROVE PoolInv'
  BY <1>6, GrowStep
<1>7. ASSUME NEW t \in Table, NEW r \in Table, Reclaim(r, t) PROVE PoolInv'
  BY <1>7, ReclaimStep
<1>8. ASSUME NEW t \in Table, NEW r \in Table, NEW n, StartActive(t, r, n) PROVE PoolInv'
  BY <1>8, StartActiveStep
<1>9. ASSUME NEW t \in Table, NEW r \in Table \cup {None}, NEW small, NEW n,
             StartTransfer(t, r, small, n)
      PROVE  PoolInv'
  BY <1>9, StartTransferStep
<1> QED BY <1>1, <1>2, <1>3, <1>4, <1>5, <1>6, <1>7, <1>8, <1>9 DEF Coordinate

-----------------------------------------------------------------------------
(***************************************************************************)
(* The workers' steps.                                                     *)
(***************************************************************************)
Calls == [step : Steps, table : Table \cup {None}]
Busily == {"load", "create"}

LEMMA CallFacts ==
  ASSUME PoolInv, NEW w \in Thread
  PROVE  /\ call \in [Thread -> Calls] /\ call[w] \in Calls
         /\ call[w].step \notin {"idle", "failed"} => call[w].table \in Table
BY DEF PoolInv, PoolTypeOK, CallsInv, Calls

(* Who else loads or creates what w does, or what nobody has begun?        *)
LEMMA AloneFacts ==
  ASSUME PoolInv, NEW w \in Thread, NEW t \in Table, t = call[w].table,
         call[w].step \in Busily \/ entry[t] \notin {"loading", "creating"}
  PROVE  \A v \in Thread : v # w => ~(call[v].step \in Busily /\ call[v].table = t)
<1> SUFFICES ASSUME NEW v \in Thread, v # w, call[v].step \in Busily, call[v].table = t
             PROVE  FALSE
  OBVIOUS
<1>1. /\ call[v].step = "load" => entry[t] = "loading"
      /\ call[v].step = "create" => entry[t] = "creating"
      /\ call[w].step = "load" => entry[t] = "loading"
      /\ call[w].step = "create" => entry[t] = "creating"
  BY DEF PoolInv, CallsInv
<1>2. call[w].step \in Busily /\ call[v].step = call[w].step
  BY <1>1 DEF Busily
<1>3. call[v] \in Calls /\ call[w] \in Calls
  BY CallFacts
<1>4. call[v] = call[w]
  BY <1>2, <1>3 DEF Calls
<1> QED BY <1>2, <1>4 DEF PoolInv, CallsInv, Busily

LEMMA CallStep ==
  ASSUME PoolInv, NEW w \in Thread, NEW t \in Table, NEW c \in Calls,
         call[w].step \in Busily => call[w].table = t,
         call' = [call EXCEPT ![w] = c],
         c.step \notin {"idle", "failed"} => c.table = t,
         entry' \in [Table -> Modes], \A u \in Table : u # t => entry'[u] = entry[u],
         c.step = "load" => entry'[t] = "loading",
         c.step = "create" => entry'[t] = "creating",
         \/ entry'[t] = entry[t] /\ c.step \notin Busily /\ call[w].step \notin Busily
         \/ /\ \A v \in Thread : v # w => ~(call[v].step \in Busily /\ call[v].table = t)
            /\ entry'[t] = "creating" => c.step = "create",
         \A u \in Table : mem'.size[u] > 0 <=> entry'[u] = "shared"
  PROVE  CallsInv'
<1>1. /\ call \in [Thread -> Calls] /\ call'[w] = c
      /\ \A v \in Thread : v # w => call'[v] = call[v]
  BY CallFacts
<1>2. /\ \A v \in Thread : call[v].step \notin {"idle", "failed"} => call[v].table \in Table
      /\ \A v \in Thread : call[v].step = "load" => entry[call[v].table] = "loading"
      /\ \A v \in Thread : call[v].step = "create" => entry[call[v].table] = "creating"
      /\ \A v, x \in Thread : call[v].step \in {"load", "create"} /\ call[v] = call[x] => v = x
      /\ \A u \in Table : entry[u] = "creating" =>
           \E v \in Thread : call[v].step = "create" /\ call[v].table = u
  BY DEF PoolInv, CallsInv
<1>3. \A v \in Thread : call'[v].step \notin {"idle", "failed"} => call'[v].table \in Table
  BY <1>1, <1>2
<1>4. ASSUME NEW v \in Thread
      PROVE  /\ call'[v].step = "load" => entry'[call'[v].table] = "loading"
             /\ call'[v].step = "create" => entry'[call'[v].table] = "creating"
  <2>1. CASE v = w
    BY <1>1, <2>1
  <2>2. CASE v # w
    <3>1. call'[v] = call[v] /\ (call[v].step \in Busily => call[v].table \in Table)
      BY <1>1, <1>2, <2>2 DEF Busily
    <3>2. CASE call[v].table # t
      BY <1>2, <3>1, <3>2 DEF Busily
    <3>3. CASE call[v].table = t
      BY <1>2, <2>2, <3>1, <3>3 DEF Busily
    <3> QED BY <3>2, <3>3
  <2> QED BY <2>1, <2>2
<1>5. ASSUME NEW v \in Thread, NEW x \in Thread, call'[v].step \in Busily, call'[v] = call'[x]
      PROVE  v = x
  <2>1. CASE v # w /\ x # w
    BY <1>1, <1>2, <1>5, <2>1 DEF Busily
  <2>2. CASE v = w /\ x # w
    <3>1. call[x] = c /\ c.step \in Busily /\ c.table = t
      BY <1>1, <1>5, <2>2 DEF Busily
    <3> QED BY <2>2, <3>1
  <2>3. CASE v # w /\ x = w
    <3>1. call[v] = c /\ c.step \in Busily /\ c.table = t
      BY <1>1, <1>5, <2>3 DEF Busily
    <3> QED BY <2>3, <3>1
  <2> QED BY <2>1, <2>2, <2>3
<1>6. ASSUME NEW u \in Table, entry'[u] = "creating"
      PROVE  \E v \in Thread : call'[v].step = "create" /\ call'[v].table = u
  <2>1. CASE u = t /\ c.step = "create"
    BY <1>1, <2>1
  <2>2. CASE u = t /\ c.step # "create"
    <3>1. entry[t] = "creating" /\ call[w].step \notin Busily
      BY <1>6, <2>2
    <3>2. PICK v \in Thread : call[v].step = "create" /\ call[v].table = u
      BY <1>2, <2>2, <3>1
    <3>3. v # w
      BY <3>1, <3>2 DEF Busily
    <3> QED BY <1>1, <3>2, <3>3
  <2>3. CASE u # t
    <3>1. PICK v \in Thread : call[v].step = "create" /\ call[v].table = u
      BY <1>2, <1>6, <2>3
    <3>2. v # w
      BY <2>3, <3>1 DEF Busily
    <3> QED BY <1>1, <3>1, <3>2
  <2> QED BY <2>1, <2>2, <2>3
<1> QED BY <1>3, <1>4, <1>5, <1>6 DEF CallsInv, Busily

(* A transfer and a loan do not notice a cache that is new.                *)
LEMMA MemoryStep ==
  ASSUME PoolInv, NEW m, mem' = m, m.allocated \in Nat,
         \A u \in Table : m.size[u] = mem.size[u] \/ mem.size[u] = 0,
         m.allocated + reserve <= Budget,
         trial.donor = None /\ Borrowers(loan) # {} => m.allocated + 1 <= Budget,
         UNCHANGED <<config, loan, reserve, trial>>
  PROVE  TransferInv' /\ LoansInv'
<1>1. /\ reserve \in Nat /\ mem.size \in [Table -> Nat] /\ loan \in [Table -> Nat]
      /\ trial \in Trials
  BY DEF PoolInv, PoolTypeOK, Trials
<1>2. TransferInv'
  <2>1. CASE trial.donor = None
    <3>1. reserve = 0
      BY <2>1 DEF PoolInv, TransferInv
    <3> QED BY <2>1, <3>1 DEF TransferInv
  <2>2. CASE trial.donor # None
    <3>1. Recoverable(mem, reserve, trial) /\ (trial.active <=> config.policy = "idle-reclaim")
      BY <2>2 DEF PoolInv, TransferInv
    <3>2. /\ trial.donor \in Table /\ mem.size[trial.donor] > 0
          /\ trial.receiver # None => trial.receiver \in Table /\ mem.size[trial.receiver] > 0
      BY <1>1, <3>1 DEF Recoverable, Trials
    <3>3. /\ m.size[trial.donor] = mem.size[trial.donor]
          /\ trial.receiver # None => m.size[trial.receiver] = mem.size[trial.receiver]
      BY <1>1, <3>2
    <3>4. Recoverable(m, reserve, trial)
      BY <3>1, <3>3 DEF Recoverable
    <3> QED BY <2>2, <3>1, <3>4 DEF TransferInv
  <2> QED BY <2>1, <2>2
<1>3. ASSUME NEW u \in Borrowers(loan)
      PROVE  config.policy = "idle-reclaim" /\ loan[u] < Owned(u)'
  <2>1. /\ u \in Table /\ config.policy = "idle-reclaim" /\ loan[u] < Owned(u)
        /\ loan[u] \in Nat /\ loan[u] > 0
    BY <1>1 DEF PoolInv, LoansInv, Borrowers
  <2>2. Owned(u)' = Owned(u)
    BY <1>1, <2>1 DEF Owned
  <2> QED BY <2>1, <2>2
<1>4. \A t, u \in Borrowers(loan) : t = u
  BY DEF PoolInv, LoansInv
<1>5. LoansInv'
  BY <1>3, <1>4 DEF LoansInv, Fallback, Borrowers
<1> QED BY <1>2, <1>5

LEMMA SameMemory ==
  ASSUME PoolInv, UNCHANGED <<config, mem, loan, reserve, trial>>
  PROVE  TransferInv' /\ LoansInv'
<1>1. TransferInv'
  BY DEF PoolInv, TransferInv
<1>2. \A t \in Table : Owned(t)' = Owned(t)
  BY DEF Owned
<1>3. LoansInv'
  BY <1>2 DEF PoolInv, LoansInv, Borrowers
<1> QED BY <1>1, <1>3

(* Only the call and the views change.                                     *)
LEMMA CallOnlyStep ==
  ASSUME PoolInv, NEW w \in Thread, NEW t \in Table, NEW c \in Calls,
         call' = [call EXCEPT ![w] = c],
         c.step \notin {"idle", "failed"} => c.table = t,
         c.step \notin Busily, call[w].step \notin Busily,
         views' \subseteq Table,
         UNCHANGED <<config, entry, stopped, used, mem, loan, reserve, trial, asleep>>
  PROVE  PoolInv'
<1>1. call' \in [Thread -> Calls]
  BY CallFacts
<1>2. PoolTypeOK'
  BY <1>1 DEF PoolInv, PoolTypeOK, Calls
<1>3. Promised' = Promised /\ Charged' = Charged
  BY DEF Promised, Charged
<1>4. BudgetHolds'
  BY <1>3 DEF PoolInv, BudgetHolds
<1>5. CallsInv'
  <2>1. /\ entry' \in [Table -> Modes]
        /\ \A u \in Table : mem'.size[u] > 0 <=> entry'[u] = "shared"
    BY DEF PoolInv, PoolTypeOK, CallsInv
  <2>2. c.step # "load" /\ c.step # "create"
    BY DEF Busily
  <2> QED BY <2>1, <2>2, CallStep
<1> QED BY <1>2, <1>4, <1>5, SameMemory DEF PoolInv

Moved(w, step) == [step |-> step, table |-> IF step \in {"idle", "failed"} THEN None ELSE call[w].table]

LEMMA ToFacts ==
  ASSUME PoolInv, NEW w \in Thread, call[w].step \notin {"idle", "failed"},
         NEW step \in Steps, To(w, step), NEW c, c = Moved(w, step)
  PROVE  /\ call' = [call EXCEPT ![w] = c] /\ c \in Calls /\ c.step = step
         /\ call[w].table \in Table
         /\ c.step \notin {"idle", "failed"} => c.table = call[w].table
<1>1. call[w].table \in Table
  BY CallFacts
<1>2. c \in Calls /\ c.step = step
  BY <1>1 DEF Moved, Calls
<1>3. c.step \notin {"idle", "failed"} => c.table = call[w].table
  BY <1>2 DEF Moved
<1>4. call' = [call EXCEPT ![w] = c]
  BY DEF To, Moved
<1> QED BY <1>1, <1>2, <1>3, <1>4

LEMMA ToStep ==
  ASSUME PoolInv, NEW w \in Thread, call[w].step \notin {"idle", "failed", "load", "create"},
         NEW step \in Steps \ Busily, To(w, step), views' \subseteq Table,
         UNCHANGED <<config, entry, stopped, used, mem, loan, reserve, trial, asleep>>
  PROVE  PoolInv'
<1>1. PICK c : c = Moved(w, step)
  OBVIOUS
<1>2. PICK t : t = call[w].table
  OBVIOUS
<1>3. /\ call' = [call EXCEPT ![w] = c] /\ c \in Calls /\ c.step = step /\ t \in Table
      /\ c.step \notin {"idle", "failed"} => c.table = t
  BY <1>1, <1>2, ToFacts
<1> QED BY <1>3, CallOnlyStep DEF Busily

LEMMA AskStep ==
  ASSUME PoolInv, NEW w \in Thread, NEW t \in Table, Ask(w, t)
  PROVE  PoolInv'
<1>1. PICK c : c = [step |-> "resident", table |-> t]
  OBVIOUS
<1>2. c \in Calls /\ c.step = "resident" /\ c.table = t
  BY <1>1 DEF Calls, Steps
<1>3. call' = [call EXCEPT ![w] = c] /\ call[w].step = "idle"
  BY <1>1 DEF Ask
<1>4. views \subseteq Table
  BY DEF PoolInv, PoolTypeOK
<1>5. c.step \notin Busily /\ call[w].step \notin Busily
  BY <1>2, <1>3 DEF Busily
<1>6. UNCHANGED <<config, entry, views, stopped, used, mem, loan, reserve, trial, asleep>>
  BY DEF Ask, pool
<1> QED BY <1>2, <1>3, <1>4, <1>5, <1>6, CallOnlyStep

LEMMA WaitStep ==
  ASSUME PoolInv, NEW w \in Thread, Wait(w)
  PROVE  PoolInv'
<1>1. views \subseteq Table /\ asleep' \subseteq Thread
  BY DEF PoolInv, PoolTypeOK, Wait
<1> QED BY <1>1, SameStep DEF Wait, pool

LEMMA FindStep ==
  ASSUME PoolInv, NEW w \in Thread, Find(w)
  PROVE  PoolInv'
<1>1. PICK step : step = CASE entry[call[w].table] = "failed" -> "failed"
                           [] entry[call[w].table] = "resident" -> "idle"
                           [] OTHER -> "share"
  OBVIOUS
<1>2. step \in {"failed", "idle", "share"}
  BY <1>1
<1>3. step \in Steps \ Busily
  BY <1>2 DEF Steps, Busily
<1>4. To(w, step) /\ call[w].step = "resident"
  BY <1>1 DEF Find, Awake
<1>5. views \subseteq Table
  BY DEF PoolInv, PoolTypeOK
<1> QED BY <1>3, <1>4, <1>5, ToStep DEF Find, pool

LEMMA FollowStep ==
  ASSUME PoolInv, NEW w \in Thread, Follow(w)
  PROVE  PoolInv'
<1>1. PICK step : step = CASE entry[call[w].table] = "failed" -> "failed"
                           [] entry[call[w].table] = "shared" -> "idle"
                           [] OTHER -> "view"
  OBVIOUS
<1>2. step \in {"failed", "idle", "view"}
  BY <1>1
<1>3. step \in Steps \ Busily
  BY <1>2 DEF Steps, Busily
<1>4. To(w, step) /\ call[w].step = "share"
  BY <1>1 DEF Follow, Awake
<1>5. views \subseteq Table
  BY DEF PoolInv, PoolTypeOK
<1> QED BY <1>3, <1>4, <1>5, ToStep DEF Follow, pool

LEMMA RegisterStep ==
  ASSUME PoolInv, NEW w \in Thread, Register(w)
  PROVE  PoolInv'
<1>1. "idle" \in Steps \ Busily /\ To(w, "idle") /\ call[w].step = "view"
  BY DEF Register, Steps, Busily
<1>2. views' \subseteq Table
  BY <1>1, CallFacts DEF Register, PoolInv, PoolTypeOK
<1> QED BY <1>1, <1>2, ToStep DEF Register

LEMMA CallFailsStep ==
  ASSUME PoolInv, NEW w \in Thread, CallFails(w)
  PROVE  PoolInv'
<1>1. /\ "failed" \in Steps \ Busily /\ To(w, "failed")
      /\ call[w].step \in {"resident", "share", "view"}
  BY DEF CallFails, Awake, Steps, Busily
<1>2. views \subseteq Table
  BY DEF PoolInv, PoolTypeOK
<1> QED BY <1>1, <1>2, ToStep DEF CallFails, pool

(* What is charged changes at one table.                                   *)
LEMMA ChargeStep ==
  ASSUME PoolInv, NEW t \in Table, NEW n \in Nat,
         NEW f, f = [Charged EXCEPT ![t] = n]
  PROVE  /\ Charged[t] \in Nat /\ Charged[t] <= used /\ used \in Nat
         /\ Total(f) = (used - Charged[t]) + n
<1>1. PICK g : g = Charged
  OBVIOUS
<1>2. g \in [Table -> Nat] /\ used = Total(g)
  BY <1>1, PromisedFacts DEF PoolInv, BudgetHolds
<1>3. PICK h : h = [g EXCEPT ![t] = n]
  OBVIOUS
<1>4. g[t] \in Nat /\ g[t] <= Total(g) /\ Total(g) \in Nat /\ Total(h) = (Total(g) - g[t]) + n
  BY <1>2, <1>3, TotalStep
<1>5. f = h
  BY <1>1, <1>3
<1> QED BY <1>1, <1>2, <1>4, <1>5

LEMMA PromiseStep ==
  ASSUME PoolInv, NEW t \in Table, NEW n \in Nat,
         NEW f, f = [Promised EXCEPT ![t] = n]
  PROVE  /\ Promised[t] \in Nat /\ Promised[t] <= Total(Promised) /\ Total(Promised) \in Nat
         /\ Total(f) = (Total(Promised) - Promised[t]) + n
<1>1. PICK g : g = Promised
  OBVIOUS
<1>2. g \in [Table -> Nat]
  BY <1>1, PromisedFacts DEF PoolInv
<1>3. PICK h : h = [g EXCEPT ![t] = n]
  OBVIOUS
<1>4. g[t] \in Nat /\ g[t] <= Total(g) /\ Total(g) \in Nat /\ Total(h) = (Total(g) - g[t]) + n
  BY <1>2, <1>3, TotalStep
<1>5. f = h
  BY <1>1, <1>3
<1> QED BY <1>1, <1>4, <1>5

LEMMA EnterStep ==
  ASSUME PoolInv, NEW w \in Thread, Enter(w)
  PROVE  PoolInv'
<1>1. PICK t : t = call[w].table
  OBVIOUS
<1>2. t \in Table /\ call[w].step = "resident" /\ entry[t] = "absent"
  BY <1>1, CallFacts DEF Enter, Awake
<1>3. PICK step, e : /\ step = (IF Fits(t) THEN "load" ELSE "share")
                     /\ e = IF Fits(t) THEN "loading" ELSE "cached"
  OBVIOUS
<1>4. /\ step \in Steps /\ e \in Modes /\ step \in {"load", "share"} /\ e \in {"loading", "cached"}
      /\ step = "load" <=> e = "loading"
      /\ step = "load" <=> Fits(t)
  BY <1>3 DEF Steps, Modes
<1>5. /\ entry' = [entry EXCEPT ![t] = e] /\ To(w, step)
      /\ used' = IF Fits(t) THEN used + Full[t] ELSE used
      /\ UNCHANGED <<config, views, stopped, mem, loan, reserve, trial, asleep>>
  BY <1>1, <1>3 DEF Enter
<1>6. PICK c : c = Moved(w, step)
  OBVIOUS
<1>7. /\ call' = [call EXCEPT ![w] = c] /\ c \in Calls /\ c.step = step
      /\ c.step \notin {"idle", "failed"} => c.table = t
  BY <1>1, <1>2, <1>4, <1>5, <1>6, ToFacts
<1>8. /\ entry \in [Table -> Modes] /\ entry' \in [Table -> Modes]
      /\ \A u \in Table : entry'[u] = IF u = t THEN e ELSE entry[u]
  BY <1>2, <1>4, <1>5 DEF PoolInv, PoolTypeOK
<1>9. CallsInv'
  <2>1. \A v \in Thread : v # w => ~(call[v].step \in Busily /\ call[v].table = t)
    BY <1>1, <1>2, AloneFacts
  <2>2. \A u \in Table : mem'.size[u] > 0 <=> entry'[u] = "shared"
    BY <1>2, <1>4, <1>5, <1>8 DEF PoolInv, CallsInv
  <2>3. call[w].step \notin Busily
    BY <1>2 DEF Busily
  <2>4. /\ c.step = "load" => entry'[t] = "loading"
        /\ c.step # "create" /\ entry'[t] # "creating"
    BY <1>2, <1>4, <1>7, <1>8
  <2>5. \A u \in Table : u # t => entry'[u] = entry[u]
    BY <1>8
  <2> QED BY <1>2, <1>7, <1>8, <2>1, <2>2, <2>3, <2>4, <2>5, CallStep
<1>10. Promised' = Promised
  BY <1>2, <1>4, <1>8 DEF Promised
<1>11. PICK f : f = Charged'
  OBVIOUS
<1>12. used' = Total(f) /\ used' \in Nat /\ used' <= config.budget
  <2>1. used \in Nat /\ used = Total(Charged) /\ used <= config.budget
    BY DEF PoolInv, PoolTypeOK, BudgetHolds
  <2>2. CASE ~Fits(t)
    <3>1. Charged' = Charged
      BY <1>2, <1>4, <1>8, <2>2 DEF Charged
    <3> QED BY <1>5, <1>11, <2>1, <2>2, <3>1
  <2>3. CASE Fits(t)
    <3>1. Full[t] \in Nat /\ config.budget \in Nat
      BY <1>2, FullAssumption, ConfigsAssumption DEF PoolInv, PoolTypeOK
    <3>2. f = [Charged EXCEPT ![t] = Full[t]] /\ Charged[t] = 0
      BY <1>2, <1>4, <1>8, <1>11, <2>3 DEF Charged
    <3>3. Total(f) = (used - 0) + Full[t]
      BY <1>2, <1>11, <3>1, <3>2, ChargeStep
    <3> QED BY <1>5, <2>1, <2>3, <3>1, <3>3 DEF Fits
  <2> QED BY <2>2, <2>3
<1>13. PoolTypeOK'
  BY <1>5, <1>7, <1>8, <1>12, CallFacts DEF PoolInv, PoolTypeOK, Calls
<1>14. BudgetHolds'
  BY <1>5, <1>10, <1>11, <1>12 DEF PoolInv, BudgetHolds
<1> QED BY <1>5, <1>9, <1>13, <1>14, SameMemory DEF PoolInv

LEMMA LoadStep ==
  ASSUME PoolInv, NEW w \in Thread, NEW ok \in BOOLEAN, Load(w, ok)
  PROVE  PoolInv'
<1>1. PICK t : t = call[w].table
  OBVIOUS
<1>2. call[w].step = "load" /\ t \in Table /\ entry[t] = "loading"
  <2>1. call[w].step = "load"
    BY DEF Load
  <2> QED BY <1>1, <2>1, CallFacts DEF PoolInv, CallsInv
<1>3. PICK step, e : /\ step = (IF ok THEN "idle" ELSE "failed")
                     /\ e = IF ok THEN "resident" ELSE "failed"
  OBVIOUS
<1>4. /\ step \in Steps /\ e \in Modes /\ step \in {"idle", "failed"} /\ e \in {"resident", "failed"}
      /\ e = "resident" <=> ok
  BY <1>3 DEF Steps, Modes
<1>5. /\ entry' = [entry EXCEPT ![t] = e] /\ To(w, step) /\ asleep' = {}
      /\ used' = IF ok THEN used ELSE used - Full[t]
      /\ UNCHANGED <<config, views, stopped, mem, loan, reserve, trial>>
  BY <1>1, <1>3 DEF Load, Woken
<1>6. PICK c : c = Moved(w, step)
  OBVIOUS
<1>7. /\ call' = [call EXCEPT ![w] = c] /\ c \in Calls /\ c.step = step
  BY <1>2, <1>4, <1>5, <1>6, ToFacts
<1>8. /\ entry \in [Table -> Modes] /\ entry' \in [Table -> Modes]
      /\ \A u \in Table : entry'[u] = IF u = t THEN e ELSE entry[u]
  BY <1>2, <1>4, <1>5 DEF PoolInv, PoolTypeOK
<1>9. CallsInv'
  <2>1. \A v \in Thread : v # w => ~(call[v].step \in Busily /\ call[v].table = t)
    BY <1>1, <1>2, AloneFacts DEF Busily
  <2>2. \A u \in Table : mem'.size[u] > 0 <=> entry'[u] = "shared"
    BY <1>2, <1>4, <1>5, <1>8 DEF PoolInv, CallsInv
  <2>3. c.step \in {"idle", "failed"} /\ entry'[t] # "creating"
    BY <1>2, <1>4, <1>7, <1>8
  <2> QED BY <1>1, <1>2, <1>7, <1>8, <2>1, <2>2, <2>3, CallStep
<1>10. Promised' = Promised
  BY <1>2, <1>4, <1>8 DEF Promised
<1>11. PICK f : f = Charged'
  OBVIOUS
<1>12. used' = Total(f) /\ used' \in Nat /\ used' <= config.budget
  <2>1. used \in Nat /\ used = Total(Charged) /\ used <= config.budget /\ config.budget \in Nat
    BY ConfigsAssumption DEF PoolInv, PoolTypeOK, BudgetHolds
  <2>2. CASE ok
    <3>1. Charged' = Charged
      BY <1>2, <1>4, <1>8, <2>2 DEF Charged
    <3> QED BY <1>5, <1>11, <2>1, <2>2, <3>1
  <2>3. CASE ~ok
    <3>1. Full[t] \in Nat
      BY <1>2, FullAssumption
    <3>2. f = [Charged EXCEPT ![t] = 0] /\ Charged[t] = Full[t]
      BY <1>2, <1>4, <1>8, <1>11, <2>3 DEF Charged
    <3>3. Total(f) = (used - Full[t]) + 0 /\ Full[t] <= used
      BY <1>2, <1>11, <3>1, <3>2, ChargeStep
    <3> QED BY <1>5, <2>1, <2>3, <3>1, <3>3
  <2> QED BY <2>2, <2>3
<1>13. PoolTypeOK'
  BY <1>5, <1>7, <1>8, <1>12, CallFacts DEF PoolInv, PoolTypeOK, Calls
<1>14. BudgetHolds'
  BY <1>5, <1>10, <1>11, <1>12 DEF PoolInv, BudgetHolds
<1> QED BY <1>5, <1>9, <1>13, <1>14, SameMemory DEF PoolInv

LEMMA DecideStep ==
  ASSUME PoolInv, NEW w \in Thread, Decide(w)
  PROVE  PoolInv'
<1>1. PICK t, n : t = call[w].table /\ n = Granted(t, Initial)
  OBVIOUS
<1>2. t \in Table /\ call[w].step = "share" /\ entry[t] = "cached"
  BY <1>1, CallFacts DEF Decide, Awake
<1>3. n \in Nat \ {0}
  BY <1>1, <1>2, GrantedFacts, UnitsAssumption
<1>4. PICK given \in BOOLEAN : given = ~(n > AdmissionAvailable(mem, loan))
  OBVIOUS
<1>5. PICK step, e : /\ step = (IF given THEN "create" ELSE "view")
                     /\ e = IF given THEN "creating" ELSE "private"
  OBVIOUS
<1>6. /\ step \in Steps /\ e \in Modes /\ step \in {"create", "view"} /\ e \in {"creating", "private"}
      /\ (step = "create" <=> given) /\ (e = "creating" <=> given)
  BY <1>5 DEF Steps, Modes
<1>7. /\ entry' = [entry EXCEPT ![t] = e] /\ To(w, step)
      /\ mem' = IF given THEN Reserved(mem, n) ELSE mem
      /\ UNCHANGED <<config, views, stopped, used, loan, reserve, trial, asleep>>
  BY <1>1, <1>4, <1>5 DEF Decide
<1>8. PICK c : c = Moved(w, step)
  OBVIOUS
<1>9. /\ call' = [call EXCEPT ![w] = c] /\ c \in Calls /\ c.step = step
      /\ c.step \notin {"idle", "failed"} => c.table = t
  BY <1>1, <1>2, <1>6, <1>7, <1>8, ToFacts
<1>10. /\ entry \in [Table -> Modes] /\ entry' \in [Table -> Modes]
       /\ \A u \in Table : entry'[u] = IF u = t THEN e ELSE entry[u]
  BY <1>2, <1>6, <1>7 DEF PoolInv, PoolTypeOK
<1>11. /\ mem \in Memories /\ ~mem.over /\ mem.allocated \in Nat /\ reserve \in Nat
       /\ mem.allocated + reserve <= Budget
       /\ mem.allocated = Total(mem.size) + Total(Promised)
       /\ mem.size \in [Table -> Nat]
  BY DEF PoolInv, PoolTypeOK, BudgetHolds, Memories
<1>12. given => /\ mem.allocated + reserve + n <= Budget
                /\ Borrowers(loan) # {} => mem.allocated + reserve + n + 1 <= Budget
  <2>1. PICK a : a = AdmissionAvailable(mem, loan)
    OBVIOUS
  <2>2. /\ a \in Nat
        /\ a # 0 => /\ mem.allocated + reserve + a <= Budget
                    /\ Borrowers(loan) # {} => mem.allocated + reserve + a + 1 <= Budget
    <3>1. OneBorrower(loan)
      BY DEF PoolInv, LoansInv, OneBorrower
    <3> QED BY <1>11, <2>1, <3>1, AdmissionFacts
  <2>3. given => n <= a
    <3>1. given => ~(n > a)
      BY <1>4, <2>1
    <3> QED BY <1>3, <2>2, <3>1
  <2> QED BY <1>3, <1>11, <2>2, <2>3, UnitsAssumption
<1>13. PICK m : m = mem'
  OBVIOUS
<1>14. /\ m \in Memories /\ ~m.over /\ m.size = mem.size
       /\ m.allocated = IF given THEN mem.allocated + n ELSE mem.allocated
  <2>1. CASE given
    <3>1. mem.allocated + n \in Nat /\ mem.allocated + n <= Budget
      BY <1>3, <1>11, <1>12, <2>1, UnitsAssumption
    <3> QED BY <1>3, <1>7, <1>11, <1>13, <2>1, <3>1, ReservedFacts
  <2>2. CASE ~given
    BY <1>7, <1>11, <1>13, <2>2
  <2> QED BY <2>1, <2>2
<1>15. m.allocated \in Nat /\ m.allocated + reserve <= Budget
  BY <1>3, <1>11, <1>12, <1>14, UnitsAssumption
<1>16. CallsInv'
  <2>1. \A v \in Thread : v # w => ~(call[v].step \in Busily /\ call[v].table = t)
    BY <1>1, <1>2, AloneFacts
  <2>2. \A u \in Table : mem'.size[u] > 0 <=> entry'[u] = "shared"
    BY <1>2, <1>6, <1>10, <1>13, <1>14 DEF PoolInv, CallsInv
  <2>3. call[w].step \notin Busily
    BY <1>2 DEF Busily
  <2> QED BY <1>2, <1>6, <1>9, <1>10, <2>1, <2>2, <2>3, CallStep
<1>17. PICK f : f = Promised'
  OBVIOUS
<1>18. m.allocated = Total(m.size) + Total(f)
  <2>1. CASE ~given
    <3>1. Promised' = Promised
      BY <1>2, <1>6, <1>10, <2>1 DEF Promised
    <3> QED BY <1>11, <1>14, <1>17, <2>1, <3>1
  <2>2. CASE given
    <3>1. f = [Promised EXCEPT ![t] = n] /\ Promised[t] = 0
      BY <1>1, <1>2, <1>6, <1>10, <1>17, <2>2 DEF Promised
    <3>2. Total(f) = (Total(Promised) - 0) + n /\ Total(Promised) \in Nat
      BY <1>2, <1>3, <1>17, <3>1, PromiseStep
    <3>3. Total(mem.size) \in Nat
      BY <1>11, TotalType
    <3> QED BY <1>3, <1>11, <1>14, <2>2, <3>2, <3>3
  <2> QED BY <2>1, <2>2
<1>19. Charged' = Charged
  BY <1>2, <1>6, <1>10 DEF Charged
<1>20. PoolTypeOK'
  BY <1>7, <1>9, <1>10, <1>13, <1>14, CallFacts DEF PoolInv, PoolTypeOK, Calls, Memories
<1>21. BudgetHolds'
  BY <1>7, <1>13, <1>14, <1>15, <1>17, <1>18, <1>19 DEF PoolInv, BudgetHolds
<1>22. trial.donor = None /\ Borrowers(loan) # {} => m.allocated + 1 <= Budget
  <2>1. trial.donor = None /\ Borrowers(loan) # {} => mem.allocated + 1 <= Budget
    BY DEF PoolInv, LoansInv, Fallback
  <2>2. Borrowers(loan) # {} /\ given => mem.allocated + n + 1 <= Budget
    BY <1>3, <1>11, <1>12, UnitsAssumption
  <2> QED BY <1>14, <2>1, <2>2
<1>23. TransferInv' /\ LoansInv'
  BY <1>7, <1>13, <1>14, <1>15, <1>22, MemoryStep
<1> QED BY <1>16, <1>20, <1>21, <1>23 DEF PoolInv

LEMMA CreateStep ==
  ASSUME PoolInv, NEW w \in Thread, NEW ok \in BOOLEAN, Create(w, ok)
  PROVE  PoolInv'
<1>1. PICK t, n : t = call[w].table /\ n = Granted(t, Initial)
  OBVIOUS
<1>2. call[w].step = "create" /\ t \in Table /\ entry[t] = "creating"
  <2>1. call[w].step = "create"
    BY DEF Create
  <2> QED BY <1>1, <2>1, CallFacts DEF PoolInv, CallsInv
<1>3. n \in Nat \ {0}
  BY <1>1, <1>2, GrantedFacts, UnitsAssumption
<1>4. PICK step, e : /\ step = (IF ok THEN "idle" ELSE "failed")
                     /\ e = IF ok THEN "shared" ELSE "failed"
  OBVIOUS
<1>5. /\ step \in Steps /\ e \in Modes /\ step \in {"idle", "failed"} /\ e \in {"shared", "failed"}
      /\ e = "shared" <=> ok
  BY <1>4 DEF Steps, Modes
<1>6. /\ entry' = [entry EXCEPT ![t] = e] /\ To(w, step) /\ asleep' = {}
      /\ mem' = IF ok THEN [mem EXCEPT !.size[t] = n] ELSE Reserved(mem, -n)
      /\ UNCHANGED <<config, views, stopped, used, loan, reserve, trial>>
  BY <1>1, <1>4 DEF Create, Woken
<1>7. PICK c : c = Moved(w, step)
  OBVIOUS
<1>8. call' = [call EXCEPT ![w] = c] /\ c \in Calls /\ c.step = step
  BY <1>2, <1>5, <1>6, <1>7, ToFacts
<1>9. /\ entry \in [Table -> Modes] /\ entry' \in [Table -> Modes]
      /\ \A u \in Table : entry'[u] = IF u = t THEN e ELSE entry[u]
  BY <1>2, <1>5, <1>6 DEF PoolInv, PoolTypeOK
<1>10. /\ mem \in Memories /\ ~mem.over /\ mem.allocated \in Nat /\ reserve \in Nat
       /\ mem.allocated + reserve <= Budget
       /\ mem.allocated = Total(mem.size) + Total(Promised)
       /\ mem.size \in [Table -> Nat] /\ mem.size[t] = 0
  <2>1. mem.size[t] \in Nat /\ ~(mem.size[t] > 0)
    BY <1>2 DEF PoolInv, PoolTypeOK, CallsInv
  <2> QED BY <2>1 DEF PoolInv, PoolTypeOK, BudgetHolds, Memories
<1>11. PICK f : f = Promised'
  OBVIOUS
<1>12. /\ Total(Promised) \in Nat /\ n <= Total(Promised)
       /\ Total(f) = (Total(Promised) - n) + 0
  <2>1. f = [Promised EXCEPT ![t] = 0] /\ Promised[t] = n
    BY <1>1, <1>2, <1>5, <1>9, <1>11 DEF Promised
  <2> QED BY <1>2, <1>3, <1>11, <2>1, PromiseStep
<1>13. Total(mem.size) \in Nat
  BY <1>10, TotalType
<1>14. PICK m : m = mem'
  OBVIOUS
<1>15. /\ m \in Memories /\ ~m.over /\ m.allocated \in Nat /\ m.allocated <= mem.allocated
       /\ m.allocated = Total(m.size) + Total(f)
       /\ \A u \in Table : m.size[u] = IF u = t /\ ok THEN n ELSE mem.size[u]
  <2>1. CASE ok
    <3>1. PICK g : g = [mem.size EXCEPT ![t] = n]
      OBVIOUS
    <3>2. g \in [Table -> Nat] /\ Total(g) = (Total(mem.size) - 0) + n
      BY <1>2, <1>3, <1>10, <3>1, TotalStep
    <3>3. m.size = g /\ m.allocated = mem.allocated /\ m.over = mem.over /\ m \in Memories
      BY <1>6, <1>10, <1>14, <2>1, <3>1, <3>2 DEF Memories
    <3> QED BY <1>2, <1>3, <1>10, <1>12, <1>13, <2>1, <3>1, <3>2, <3>3
  <2>2. CASE ~ok
    <3>1. /\ -n \in Int /\ mem.allocated + (-n) \in Nat /\ mem.allocated + (-n) <= Budget
      BY <1>3, <1>10, <1>12, <1>13, UnitsAssumption
    <3>2. m \in Memories /\ ~m.over /\ m.size = mem.size /\ m.allocated = mem.allocated + (-n)
      BY <1>6, <1>10, <1>14, <2>2, <3>1, ReservedFacts
    <3> QED BY <1>3, <1>10, <1>12, <1>13, <2>2, <3>1, <3>2
  <2> QED BY <2>1, <2>2
<1>16. m.allocated + reserve <= Budget
  BY <1>10, <1>15, UnitsAssumption
<1>17. CallsInv'
  <2>1. \A v \in Thread : v # w => ~(call[v].step \in Busily /\ call[v].table = t)
    BY <1>1, <1>2, AloneFacts DEF Busily
  <2>2. \A u \in Table : mem'.size[u] > 0 <=> entry'[u] = "shared"
    BY <1>2, <1>3, <1>5, <1>9, <1>10, <1>14, <1>15 DEF PoolInv, CallsInv
  <2>3. c.step \in {"idle", "failed"} /\ entry'[t] # "creating"
    BY <1>2, <1>5, <1>8, <1>9
  <2> QED BY <1>1, <1>2, <1>8, <1>9, <2>1, <2>2, <2>3, CallStep
<1>18. Charged' = Charged
  BY <1>2, <1>5, <1>9 DEF Charged
<1>19. PoolTypeOK'
  BY <1>6, <1>8, <1>9, <1>14, <1>15, CallFacts DEF PoolInv, PoolTypeOK, Calls, Memories
<1>20. BudgetHolds'
  BY <1>6, <1>11, <1>14, <1>15, <1>16, <1>18 DEF PoolInv, BudgetHolds
<1>21. trial.donor = None /\ Borrowers(loan) # {} => m.allocated + 1 <= Budget
  <2>1. trial.donor = None /\ Borrowers(loan) # {} => mem.allocated + 1 <= Budget
    BY DEF PoolInv, LoansInv, Fallback
  <2> QED BY <1>10, <1>15, <2>1, UnitsAssumption
<1>22. TransferInv' /\ LoansInv'
  <2>1. \A u \in Table : m.size[u] = mem.size[u] \/ mem.size[u] = 0
    BY <1>10, <1>15
  <2> QED BY <1>6, <1>14, <1>15, <1>16, <1>21, <2>1, MemoryStep
<1> QED BY <1>17, <1>19, <1>20, <1>22 DEF PoolInv

LEMMA PoolStep ==
  ASSUME PoolInv, [Next]_vars
  PROVE  PoolInv'
<1>1. CASE UNCHANGED vars
  <2>1. views' \subseteq Table /\ asleep' \subseteq Thread
    BY <1>1 DEF PoolInv, PoolTypeOK, vars, pool
  <2> QED BY <1>1, <2>1, SameStep DEF vars, pool
<1>2. ASSUME NEW w \in Thread, Continue(w) PROVE PoolInv'
  BY <1>2, WaitStep, EnterStep, FindStep, DecideStep, FollowStep, RegisterStep, LoadStep, CreateStep
     DEF Continue
<1>3. ASSUME NEW w \in Thread, Fail(w) PROVE PoolInv'
  BY <1>3, CallFailsStep, LoadStep, CreateStep DEF Fail
<1>4. ASSUME NEW w \in Thread, NEW t \in Table, Ask(w, t) PROVE PoolInv'
  BY <1>4, AskStep
<1>5. CASE Coordinate
  BY <1>5, CoordinateStep
<1> QED BY <1>1, <1>2, <1>3, <1>4, <1>5 DEF Next

-----------------------------------------------------------------------------
(***************************************************************************)
(* What it is for.                                                         *)
(***************************************************************************)
LEMMA RollbackFunded ==
  ASSUME PoolInv
  PROVE  RollbackIsFunded
<1> SUFFICES ASSUME trial.donor # None
             PROVE  /\ trial.receiver # None =>
                         ~Refused(mem, trial.receiver, trial.receiverSize, trial.active)
                    /\ ~Refused(IF trial.receiver = None THEN mem
                                ELSE Sized(mem, trial.receiver, trial.receiverSize, 0),
                                trial.donor, trial.donorSize, trial.active)
  BY DEF RollbackIsFunded
<1>1. /\ Good(mem, Total(Promised)) /\ Total(Promised) \in Nat
      /\ trial \in Trials /\ Recoverable(mem, reserve, trial)
  BY PoolGood DEF PoolInv, PoolTypeOK, TransferInv, Trials
<1>2. PICK d, r, ds, rs, sd, a :
        /\ d = trial.donor /\ r = trial.receiver /\ ds = trial.donorSize
        /\ rs = trial.receiverSize /\ sd = mem.size[d] /\ a = mem.allocated
  OBVIOUS
<1>3. /\ d \in Table /\ r # d /\ sd \in Nat \ {0} /\ ds \in Nat \ {0} /\ a \in Nat
      /\ reserve \in Nat /\ a + reserve <= Budget
      /\ r # None => r \in Table /\ rs \in Nat \ {0} /\ mem.size[r] \in Nat \ {0}
  <2>1. \A t \in Table : mem.size[t] \in Nat
    BY <1>1, GoodFacts
  <2>2. mem.allocated \in Nat
    BY <1>1 DEF Good, Memories
  <2> QED BY <1>1, <1>2, <2>1, <2>2 DEF Recoverable, Trials
<1>4. PICK taken \in Int : taken = IF r = None THEN 0 ELSE mem.size[r] - rs
  BY <1>3
<1>5. IF trial.active
      THEN /\ r # None /\ ds - sd >= 0
           /\ reserve >= 1 /\ reserve >= (ds - sd) - taken + 1
      ELSE /\ taken # 0 => reserve >= rs
           /\ ds - sd # 0 => reserve >= ds - taken
  BY <1>1, <1>2, <1>4 DEF Recoverable
<1>6. ASSUME r # None PROVE ~Refused(mem, r, rs, trial.active)
  <2>1. PICK sr \in Nat \ {0} : sr = mem.size[r]
    BY <1>3, <1>6
  <2>2. Free(mem) = Budget - a
    BY <1>2 DEF Free
  <2> QED BY <1>2, <1>3, <1>4, <1>5, <1>6, <2>1, <2>2, UnitsAssumption DEF Refused, Fallback
<1>7. PICK m : m = IF r = None THEN mem ELSE Sized(mem, r, rs, 0)
  OBVIOUS
<1>8. m.size[d] = sd /\ m.allocated = a - taken
  <2>1. CASE r = None
    BY <1>2, <1>3, <1>4, <1>7, <2>1
  <2>2. CASE r # None
    <3>1. m = Sized(mem, r, rs, 0)
      BY <1>7, <2>2
    <3>2. m.size = [mem.size EXCEPT ![r] = rs] /\ m.allocated = a - mem.size[r] + rs
      BY <1>2, <3>1 DEF Sized
    <3>3. mem.size \in [Table -> Nat]
      BY <1>1 DEF Good, Memories
    <3> QED BY <1>2, <1>3, <1>4, <2>2, <3>2, <3>3
  <2> QED BY <2>1, <2>2
<1>9. ~Refused(m, d, ds, trial.active)
  <2>1. Free(m) = Budget - (a - taken)
    BY <1>8 DEF Free
  <2>2. CASE trial.active
    <3>1. Fallback <= Free(m) /\ ds <= Free(m) + m.size[d] - Fallback
      BY <1>3, <1>4, <1>5, <1>8, <2>1, <2>2, UnitsAssumption DEF Fallback
    <3> QED BY <1>3, <1>4, <1>8, <2>1, <2>2, <3>1, UnitsAssumption DEF Refused, Fallback
  <2>3. CASE ~trial.active
    <3>1. ds # m.size[d] => ds <= Free(m)
      BY <1>3, <1>4, <1>5, <1>8, <2>1, <2>3, UnitsAssumption
    <3> QED BY <1>3, <1>4, <2>1, <3>1, UnitsAssumption DEF Refused
  <2> QED BY <2>2, <2>3
<1> QED BY <1>2, <1>6, <1>7, <1>9

LEMMA LoansRepayable ==
  ASSUME PoolInv
  PROVE  LoanIsRepayable
<1>1. Cardinality(Borrowers(loan)) <= 1
  BY BorrowersFacts DEF PoolInv, LoansInv, OneBorrower
<1>2. ASSUME trial.donor = None, NEW t \in Borrowers(loan)
      PROVE  /\ loan[t] < mem.size[t] /\ Fallback <= Free(mem)
             /\ loan[t] <= Free(mem) + mem.size[t] - Fallback
  <2>1. t \in Table /\ loan[t] < Owned(t) /\ mem.allocated + Fallback <= Budget
    BY <1>2 DEF PoolInv, LoansInv, Borrowers
  <2>2. Owned(t) = mem.size[t]
    BY <1>2 DEF Owned
  <2>3. loan[t] \in Nat /\ mem.size[t] \in Nat /\ mem.allocated \in Nat
    BY <2>1 DEF PoolInv, PoolTypeOK
  <2> QED BY <2>1, <2>2, <2>3, UnitsAssumption DEF Free, Fallback
<1> QED BY <1>1, <1>2 DEF LoanIsRepayable

LEMMA PoolFunds ==
  ASSUME PoolInv
  PROVE  MemoryIsFunded
<1>1. TypeOK
  BY DEF PoolInv, PoolTypeOK, TypeOK
<1> QED BY <1>1, RollbackFunded, LoansRepayable DEF PoolInv, MemoryIsFunded

(* For every number of tables and threads, every budget and every policy,  *)
(* whatever fails: what is allocated and what is reserved stays within the *)
(* budget, even in the middle of a resize, nothing is lost or counted      *)
(* twice, a transfer can always be undone and a loan always be repaid.     *)
THEOREM MemoryCorrect == Spec => []MemoryIsFunded
<1>1. Init => PoolInv
  BY PoolInit
<1>2. PoolInv /\ [Next]_vars => PoolInv'
  BY PoolStep
<1>3. PoolInv => MemoryIsFunded
  BY PoolFunds
<1> QED BY <1>1, <1>2, <1>3, PTL DEF Spec
=============================================================================
