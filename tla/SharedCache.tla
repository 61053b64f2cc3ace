---------------------------- MODULE SharedCache ----------------------------
(***************************************************************************)
(* The optimistic shared page cache (egtb.c, egtb_shared_probe_get and     *)
(* shared_probe_miss): a sequence lock per slot, readers that never write  *)
(* and never wait, and C11 relaxed accesses to tag and payload.            *)
(*                                                                         *)
(* One slot is modelled; the pages are the ones that map to it.  A page is *)
(* Words 64-bit words, and a lookup needs one of them.                     *)
(*                                                                         *)
(* Memory is the C11 fragment the code uses.  Every atomic location keeps  *)
(* all its messages in modification order; a thread may read any message   *)
(* it has not been told is overwritten.  Acquire loads and fences take     *)
(* over the view a message carries, release stores and fences attach the   *)
(* view of the writer.  A writer holds the odd sequence number, so that    *)
(* every store goes to the end of its location's modification order.       *)
(***************************************************************************)
EXTENDS Integers, Sequences

CONSTANTS Prober,   \* threads that look up pages
          SlotPage, \* pages that map to the slot
          Words,    \* 64-bit words of a page
          SeqMax,   \* UINT64_MAX of the sequence counter
          Survivor  \* a thread that is never suspended

ASSUME CacheAssumption ==
  Survivor \in Prober /\ Words \in Nat \ {0} /\ SeqMax \in Nat /\ SeqMax % 2 = 1

NoPage == "no page"     \* the tag UINT64_MAX, and the zeroed payload

SeqAt == 0
TagAt == Words + 1

Location == SeqAt .. TagAt     \* the words are the locations 1 .. Words

View == [Location -> Nat]

VARIABLES
  memory,   \* location -> its messages, in modification order
  cur,      \* thread -> the view it reads and writes with
  acq,      \* thread -> what an acquire fence would add
  rel,      \* thread -> what a release fence has attached
  pc,       \* thread -> its next step
  page,     \* thread -> the page it looks up
  word,     \* thread -> the word it needs, or the next one it stores
  seq,      \* thread -> before, or the sequence it publishes from
  value     \* thread -> the payload it returns, named by its page

slotVars == <<memory, cur, acq, rel, pc, page, word, seq, value>>

SlotSteps == {"idle", "before", "tag", "word", "after", "miss", "publish",
          "store", "retag", "release", "hit", "missed"}

Bottom == [l \in Location |-> 1]

Join(u, v) == [l \in Location |-> IF u[l] > v[l] THEN u[l] ELSE v[l]]

Message(l, v, view) == [val |-> v, view |-> view]

Newest(l) == memory[l][Len(memory[l])]

SlotTypeOK ==
  /\ \A l \in Location : \A n \in DOMAIN memory[l] :
       /\ memory[l][n].view \in View
       /\ memory[l][n].val \in (IF l = SeqAt THEN 0 .. SeqMax ELSE SlotPage \cup {NoPage})
  /\ cur \in [Prober -> View] /\ acq \in [Prober -> View] /\ rel \in [Prober -> View]
  /\ pc \in [Prober -> SlotSteps]
  /\ page \in [Prober -> SlotPage]
  /\ word \in [Prober -> 1 .. Words + 1]
  /\ seq \in [Prober -> 0 .. SeqMax]
  /\ value \in [Prober -> SlotPage \cup {NoPage}]

SlotInit ==
  /\ memory = [l \in Location |->
       <<Message(l, IF l = SeqAt THEN 0 ELSE NoPage, Bottom)>>]
  /\ cur = [t \in Prober |-> Bottom]
  /\ acq = [t \in Prober |-> Bottom]
  /\ rel = [t \in Prober |-> Bottom]
  /\ pc = [t \in Prober |-> "idle"]
  /\ page \in [Prober -> SlotPage]
  /\ word = [t \in Prober |-> 1]
  /\ seq = [t \in Prober |-> 0]
  /\ value = [t \in Prober |-> NoPage]

Goto(t, step) == pc' = [pc EXCEPT ![t] = step]

-----------------------------------------------------------------------------
(***************************************************************************)
(* Memory accesses.                                                        *)
(***************************************************************************)
Readable(t, l) == cur[t][l] .. Len(memory[l])

Seen(t, l, n) == [cur[t] EXCEPT ![l] = n]

ReadRelaxed(t, l, n) ==
  /\ n \in Readable(t, l)
  /\ cur' = [cur EXCEPT ![t] = Seen(t, l, n)]
  /\ acq' = [acq EXCEPT ![t] = Join(@, memory[l][n].view)]

ReadAcquire(t, l, n) ==
  /\ n \in Readable(t, l)
  /\ cur' = [cur EXCEPT ![t] = Join(Seen(t, l, n), memory[l][n].view)]
  /\ acq' = [acq EXCEPT ![t] = Join(@, memory[l][n].view)]

Stored(t, l) == [cur[t] EXCEPT ![l] = Len(memory[l]) + 1]

Append1(l, v, view) == memory' = [memory EXCEPT ![l] = Append(@, Message(l, v, view))]

StoreRelaxed(t, l, v) ==
  /\ cur' = [cur EXCEPT ![t] = Stored(t, l)]
  /\ Append1(l, v, [rel[t] EXCEPT ![l] = Len(memory[l]) + 1])

StoreRelease(t, l, v) ==
  /\ cur' = [cur EXCEPT ![t] = Stored(t, l)]
  /\ Append1(l, v, Stored(t, l))

-----------------------------------------------------------------------------
(***************************************************************************)
(* egtb_shared_probe_get: one optimistic attempt.                          *)
(***************************************************************************)
Lookup(t, p, w) ==
  /\ pc[t] = "idle"
  /\ Goto(t, "before")
  /\ page' = [page EXCEPT ![t] = p]
  /\ word' = [word EXCEPT ![t] = w]
  /\ value' = [value EXCEPT ![t] = NoPage]
  /\ UNCHANGED <<memory, cur, acq, rel, seq>>

Occupied_Spins(t) == "before"   \* Mutant: a reader waits for the writer

Occupied(t) == "miss"

LoadBefore(t) ==
  /\ pc[t] = "before"
  /\ \E n \in Readable(t, SeqAt) :
       /\ ReadAcquire(t, SeqAt, n)
       /\ seq' = [seq EXCEPT ![t] = memory[SeqAt][n].val]
       /\ Goto(t, IF memory[SeqAt][n].val % 2 = 1 THEN Occupied(t) ELSE "tag")
  /\ UNCHANGED <<memory, rel, page, word, value>>

LoadTag(t) ==
  /\ pc[t] = "tag"
  /\ \E n \in Readable(t, TagAt) :
       /\ ReadRelaxed(t, TagAt, n)
       /\ Goto(t, IF memory[TagAt][n].val = page[t] THEN "word" ELSE "miss")
  /\ UNCHANGED <<memory, rel, page, word, seq, value>>

Acquired_Nothing(t, view, acquired) == view   \* Mutant: no acquire fence

(* The acquire fence that follows the load of the word. *)
Acquired(t, view, acquired) == Join(view, acquired)

LoadWord(t) ==
  /\ pc[t] = "word"
  /\ Goto(t, "after")
  /\ \E n \in Readable(t, word[t]) :
       LET acquired == Join(acq[t], memory[word[t]][n].view) IN
       /\ value' = [value EXCEPT ![t] = memory[word[t]][n].val]
       /\ acq' = [acq EXCEPT ![t] = acquired]
       /\ cur' = [cur EXCEPT ![t] = Acquired(t, Seen(t, word[t], n), acquired)]
  /\ UNCHANGED <<memory, rel, page, word, seq>>

LoadAfter(t) ==
  /\ pc[t] = "after"
  /\ \E n \in Readable(t, SeqAt) :
       /\ ReadRelaxed(t, SeqAt, n)
       /\ Goto(t, IF memory[SeqAt][n].val = seq[t] THEN "hit" ELSE "miss")
  /\ UNCHANGED <<memory, rel, page, word, seq, value>>

(***************************************************************************)
(* shared_probe_miss: the page is decoded privately, and published unless  *)
(* another writer is active or the sequence is exhausted.                  *)
(***************************************************************************)
MayPublish_Wraps(s) == s % 2 = 0   \* Mutant: the sequence wraps around

MayPublish_Busy(s) == s < SeqMax - 1   \* Mutant: an active writer is ignored

MayPublish(s) == s % 2 = 0 /\ s < SeqMax - 1

Miss(t) ==
  /\ pc[t] = "miss"
  /\ value' = [value EXCEPT ![t] = page[t]]
  /\ \E n \in Readable(t, SeqAt) :
       /\ ReadAcquire(t, SeqAt, n)
       /\ seq' = [seq EXCEPT ![t] = memory[SeqAt][n].val]
       /\ Goto(t, IF MayPublish(memory[SeqAt][n].val) THEN "publish" ELSE "missed")
  /\ UNCHANGED <<memory, rel, page, word>>

(* The page cannot be read or decoded: the lookup returns without a value. *)
ReadFails(t) ==
  /\ pc[t] = "miss"
  /\ Goto(t, "idle")
  /\ word' = [word EXCEPT ![t] = 1]
  /\ seq' = [seq EXCEPT ![t] = 0]
  /\ UNCHANGED <<memory, cur, acq, rel, page, value>>

Released_Nothing(t, view) == rel[t]   \* Mutant: no release fence

(* The release fence that follows the exchange. *)
Released(t, view) == view

(* The exchange succeeds on the newest message only ... *)
Claim(t) ==
  /\ pc[t] = "publish"
  /\ Newest(SeqAt).val = seq[t]
  /\ LET view == Join(Stored(t, SeqAt), Newest(SeqAt).view) IN
     /\ cur' = [cur EXCEPT ![t] = view]
     /\ acq' = [acq EXCEPT ![t] = Join(@, Newest(SeqAt).view)]
     /\ Append1(SeqAt, seq[t] + 1, view)
     /\ rel' = [rel EXCEPT ![t] = Released(t, view)]
  /\ word' = [word EXCEPT ![t] = 1]
  /\ Goto(t, "store")
  /\ UNCHANGED <<page, seq, value>>

(* ... and fails when it finds another number. *)
Conflict(t) ==
  /\ pc[t] = "publish"
  /\ \E n \in Readable(t, SeqAt) :
       /\ memory[SeqAt][n].val # seq[t]
       /\ ReadRelaxed(t, SeqAt, n)
  /\ Goto(t, "missed")
  /\ UNCHANGED <<memory, rel, page, word, seq, value>>

StoreWord(t) ==
  /\ pc[t] = "store"
  /\ StoreRelaxed(t, word[t], page[t])
  /\ word' = [word EXCEPT ![t] = @ + 1]
  /\ Goto(t, IF word[t] = Words THEN "retag" ELSE "store")
  /\ UNCHANGED <<acq, rel, page, seq, value>>

StoreTag(t) ==
  /\ pc[t] = "retag"
  /\ StoreRelaxed(t, TagAt, page[t])
  /\ Goto(t, "release")
  /\ UNCHANGED <<acq, rel, page, word, seq, value>>

StoreSequence(t) ==
  /\ pc[t] = "release"
  /\ StoreRelease(t, SeqAt, (seq[t] + 2) % (SeqMax + 1))
  /\ Goto(t, "missed")
  /\ UNCHANGED <<acq, rel, page, word, seq, value>>

Return(t) ==
  /\ pc[t] \in {"hit", "missed"}
  /\ Goto(t, "idle")
  /\ word' = [word EXCEPT ![t] = 1]
  /\ seq' = [seq EXCEPT ![t] = 0]
  /\ UNCHANGED <<memory, cur, acq, rel, page, value>>

Proceed(t) ==
  \/ LoadBefore(t) \/ LoadTag(t) \/ LoadWord(t) \/ LoadAfter(t)
  \/ Miss(t) \/ ReadFails(t) \/ Claim(t) \/ Conflict(t)
  \/ StoreWord(t) \/ StoreTag(t) \/ StoreSequence(t) \/ Return(t)

SlotNext == \E t \in Prober : Proceed(t) \/ \E p \in SlotPage, w \in 1 .. Words : Lookup(t, p, w)

SlotSpec == SlotInit /\ [][SlotNext]_slotVars

(* Any thread may be suspended for ever; the others are scheduled. *)
FairSlotSpec == SlotSpec /\ WF_slotVars(Proceed(Survivor))

-----------------------------------------------------------------------------
(***************************************************************************)
(* Properties.                                                             *)
(***************************************************************************)

(* Between publications tag and payload belong to one page. *)
SlotIsWhole ==
  Newest(SeqAt).val % 2 = 0 =>
    \A w \in 1 .. Words : Newest(w).val = Newest(TagAt).val

(* A hit returns the payload of the page that was looked up, although tag, *)
(* word and sequence are read one by one while other threads replace them, *)
(* and between publications the slot belongs to one page.                  *)
HitIsRight ==
  /\ SlotTypeOK
  /\ \A t \in Prober : pc[t] \in {"hit", "missed"} => value[t] = page[t]
  /\ SlotIsWhole

(* A lookup ends although any other thread may stop at any step, even in   *)
(* the middle of a publication.                                            *)
NeverWaits == (pc[Survivor] # "idle") ~> (pc[Survivor] = "idle")

-----------------------------------------------------------------------------
(***************************************************************************)
(* Why: the n-th message of the sequence is the number n - 1, and the k-th *)
(* publication adds message k + 1 to the tag and to every word.  Whoever   *)
(* knows of its end sees nothing older, and whoever has read from it knows *)
(* of its beginning.                                                       *)
(***************************************************************************)
Payload == 1 .. TagAt

Writing == {"store", "retag", "release"}

Views == [Location -> Nat \ {0}]

Values(l) == IF l = SeqAt THEN 0 .. SeqMax ELSE SlotPage \cup {NoPage}

Messages(l) == [val : Values(l), view : Views]

MemoryInv ==
  /\ memory = [l \in Location |-> memory[l]]
  /\ \A l \in Location : memory[l] \in Seq(Messages(l)) /\ Len(memory[l]) > 0
  /\ \A n \in 1 .. Len(memory[SeqAt]) :
       /\ memory[SeqAt][n].val = n - 1
       /\ n % 2 = 1 => \A l \in Payload : n + 1 <= 2 * memory[SeqAt][n].view[l]
  /\ \A l \in Payload : \A n \in 1 .. Len(memory[l]) :
       2 * n <= memory[l][n].view[SeqAt] + 2
  /\ \A w \in 1 .. Words : \A n \in 1 .. Len(memory[w]) :
       n <= Len(memory[TagAt]) => memory[w][n].val = memory[TagAt][n].val

(* What a publication has stored by now. *)
Replaced(t, l) == l < word[t] \/ (l = TagAt /\ pc[t] = "release")

WriterInv(t) ==
  pc[t] \in Writing =>
    /\ Len(memory[SeqAt]) = seq[t] + 2 /\ seq[t] % 2 = 0 /\ seq[t] + 2 <= SeqMax
    /\ value[t] = page[t]
    /\ IF pc[t] = "store" THEN word[t] \in 1 .. Words ELSE word[t] = TagAt
    /\ seq[t] + 2 <= rel[t][SeqAt]
    /\ \A l \in Payload :
         IF Replaced(t, l)
           THEN /\ 2 * Len(memory[l]) = seq[t] + 4 /\ seq[t] + 4 <= 2 * cur[t][l]
                /\ memory[l][Len(memory[l])].val = page[t]
           ELSE 2 * Len(memory[l]) = seq[t] + 2

ReaderInv(t) ==
  /\ pc[t] \in {"before", "tag", "word", "after"} => word[t] \in 1 .. Words
  /\ pc[t] \in {"tag", "word", "after"} =>
       seq[t] % 2 = 0 /\ \A l \in Payload : seq[t] + 2 <= 2 * cur[t][l]
  /\ pc[t] = "word" =>
       \E n \in 1 .. Len(memory[TagAt]) :
         /\ memory[TagAt][n].val = page[t]
         /\ seq[t] + 2 <= 2 * n /\ 2 * n <= acq[t][SeqAt] + 2
  /\ pc[t] = "after" =>
       \E n \in 1 .. Len(memory[TagAt]), m \in 1 .. Len(memory[word[t]]) :
         /\ memory[TagAt][n].val = page[t] /\ memory[word[t]][m].val = value[t]
         /\ seq[t] + 2 <= 2 * n /\ 2 * n <= cur[t][SeqAt] + 2
         /\ seq[t] + 2 <= 2 * m /\ 2 * m <= cur[t][SeqAt] + 2
  /\ pc[t] = "publish" => seq[t] % 2 = 0 /\ seq[t] + 2 <= SeqMax
  /\ pc[t] \in {"publish", "hit", "missed"} => value[t] = page[t]

ThreadsInv ==
  /\ cur \in [Prober -> Views] /\ acq \in [Prober -> Views] /\ rel \in [Prober -> Views]
  /\ pc \in [Prober -> SlotSteps] /\ page \in [Prober -> SlotPage]
  /\ word \in [Prober -> 1 .. Words + 1] /\ seq \in [Prober -> 0 .. SeqMax]
  /\ value \in [Prober -> SlotPage \cup {NoPage}]

SlotInv ==
  /\ MemoryInv /\ ThreadsInv
  /\ \A t \in Prober : WriterInv(t) /\ ReaderInv(t)
  /\ \A t, u \in Prober : pc[t] \in Writing /\ pc[u] \in Writing => t = u
  /\ Len(memory[SeqAt]) % 2 = 1 =>
       /\ \A t \in Prober : pc[t] \notin Writing
       /\ \A l \in Payload : 2 * Len(memory[l]) = Len(memory[SeqAt]) + 1

=============================================================================
