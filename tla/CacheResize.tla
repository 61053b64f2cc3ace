---------------------------- MODULE CacheResize ----------------------------
(***************************************************************************)
(* Resizing a shared cache (egtb.c, egtb_shared_cache_resize,              *)
(* egtb_shared_cache_discard_resize) while no probe runs.  Either the      *)
(* cached pages are migrated to the new storage by several workers, whose  *)
(* destinations may collide, or everything is dropped and an allocation of *)
(* one page takes over in case the new storage cannot be had.              *)
(***************************************************************************)
EXTENDS Integers, FiniteSets

CONSTANTS Pages,    \* pages of one side: 0 .. Pages - 1
          Worker,      \* migration workers
          Owner,       \* slot of the old storage -> the worker that migrates it
          AskedSizes,  \* the sizes that are asked for, in pages
          PageLength   \* words of a page

ASSUME ResizeAssumption ==
  /\ Pages \in Nat \ {0} /\ PageLength \in Nat \ {0}
  /\ AskedSizes \subseteq Nat \ {0}
  /\ Owner \in [0 .. Pages - 1 -> Worker]

Page == 0 .. Pages - 1
NoTag == -1

VARIABLES
  cache,      \* slot -> its sequence, tag and words: the storage in use
  next,       \* the storage that is being filled
  stage,      \* "idle", "migrate", "discarded"
  todo,       \* old slots that are not migrated yet
  claimed,    \* worker -> the slot of next it has claimed, or NoTag
  source,     \* worker -> the old slot it copies
  copied,     \* worker -> the words it has copied
  collisions  \* pages that found their destination taken

resizeVars == <<cache, next, stage, todo, claimed, source, copied, collisions>>

Slot == [sequence : 0 .. 2, tag : Page \cup {NoTag},
         words : [1 .. PageLength -> Page \cup {NoTag}]]

IsStorage(c) ==
  /\ \E n \in 1 .. Pages : DOMAIN c = 0 .. n - 1
  /\ \A s \in DOMAIN c : c[s] \in Slot

Vacant == [sequence |-> 0, tag |-> NoTag, words |-> [k \in 1 .. PageLength |-> NoTag]]

Fresh(n) == [s \in 0 .. n - 1 |-> Vacant]

SlotCount(c) == Cardinality(DOMAIN c)

Holds(p) == [sequence |-> 2, tag |-> p, words |-> [k \in 1 .. PageLength |-> p]]

(* Dense storage has a slot for every page; else pages share slots.        *)
SlotOf(n, p) == IF n >= Pages THEN p ELSE p % n

PerSide(n) == IF n >= Pages THEN Pages ELSE n

ResizeTypeOK ==
  /\ IsStorage(cache) /\ IsStorage(next)
  /\ stage \in {"idle", "migrate", "discarded"}
  /\ todo \subseteq Page
  /\ claimed \in [Worker -> Page \cup {NoTag}]
  /\ source \in [Worker -> Page]
  /\ copied \in [Worker -> 0 .. PageLength]
  /\ collisions \subseteq Page

ResizeInit ==
  /\ \E n \in AskedSizes : cache = Fresh(PerSide(n))
  /\ next = Fresh(1)
  /\ stage = "idle"
  /\ todo = {}
  /\ claimed = [w \in Worker |-> NoTag]
  /\ source = [w \in Worker |-> 0]
  /\ copied = [w \in Worker |-> 0]
  /\ collisions = {}

migration == <<next, todo, claimed, source, copied, collisions>>

-----------------------------------------------------------------------------
(* Between two maintenance points a lookup publishes a page. *)
Publish(p) ==
  /\ stage = "idle"
  /\ cache' = [cache EXCEPT ![SlotOf(SlotCount(cache), p)] = Holds(p)]
  /\ UNCHANGED <<stage, migration>>

(* Mutant: the remainder of the division among the workers is left out. *)
Ranges_Quotient(c) ==
  {s \in DOMAIN c : s < Cardinality(Worker) * (SlotCount(c) \div Cardinality(Worker))}

(* The old slots that the workers' ranges cover. *)
Ranges(c) == DOMAIN c

(* New storage is allocated and the migration starts; when there is none   *)
(* the old cache stays as it is.                                           *)
StartMigration(n) ==
  /\ stage = "idle"
  /\ PerSide(n) # SlotCount(cache)
  /\ next' = Fresh(PerSide(n))
  /\ todo' = Ranges(cache)
  /\ stage' = "migrate"
  /\ collisions' = {}
  /\ UNCHANGED <<cache, claimed, source, copied>>

(* The worker's next old slot. *)
Turn(w, s) ==
  /\ stage = "migrate"
  /\ claimed[w] = NoTag
  /\ s \in todo
  /\ Owner[s] = w
  /\ \A r \in todo : Owner[r] = w => s <= r

SkipVacant(w, s) ==
  /\ Turn(w, s)
  /\ cache[s].tag = NoTag
  /\ todo' = todo \ {s}
  /\ UNCHANGED <<cache, next, stage, claimed, source, copied, collisions>>

Destination(s) == SlotOf(SlotCount(next), cache[s].tag)

Unclaimed(d) == next[d].sequence = 0

ClaimSlot(w, s) ==
  /\ Turn(w, s)
  /\ cache[s].tag # NoTag
  /\ Unclaimed(Destination(s))
  /\ next' = [next EXCEPT ![Destination(s)].sequence = 1]
  /\ claimed' = [claimed EXCEPT ![w] = Destination(s)]
  /\ source' = [source EXCEPT ![w] = s]
  /\ copied' = [copied EXCEPT ![w] = 0]
  /\ todo' = todo \ {s}
  /\ UNCHANGED <<cache, stage, collisions>>

Collide(w, s) ==
  /\ Turn(w, s)
  /\ cache[s].tag # NoTag
  /\ ~Unclaimed(Destination(s))
  /\ collisions' = collisions \cup {cache[s].tag}
  /\ todo' = todo \ {s}
  /\ UNCHANGED <<cache, next, stage, claimed, source, copied>>

CopyWord(w) ==
  /\ claimed[w] # NoTag
  /\ copied[w] < PageLength
  /\ LET k == copied[w] + 1 IN
     next' = [next EXCEPT ![claimed[w]].words[k] = cache[source[w]].words[k]]
  /\ copied' = [copied EXCEPT ![w] = @ + 1]
  /\ UNCHANGED <<cache, stage, todo, claimed, source, collisions>>

FinishCopy(w) ==
  /\ claimed[w] # NoTag
  /\ copied[w] = PageLength
  /\ next' = [next EXCEPT ![claimed[w]].tag = cache[source[w]].tag,
                          ![claimed[w]].sequence = 2]
  /\ claimed' = [claimed EXCEPT ![w] = NoTag]
  /\ UNCHANGED <<cache, stage, todo, source, copied, collisions>>

Migrated == todo = {} /\ \A w \in Worker : claimed[w] = NoTag

(* All workers are joined, then the storage is swapped. *)
SwapStorage ==
  /\ stage = "migrate"
  /\ Migrated
  /\ cache' = next
  /\ stage' = "idle"
  /\ UNCHANGED migration

(* egtb_shared_cache_discard_resize: a fallback of one page first, then    *)
(* the old storage is freed, then the new one is tried.                    *)
DiscardCache(n) ==
  /\ stage = "idle"
  /\ PerSide(n) # SlotCount(cache)
  /\ cache' = Fresh(1)
  /\ stage' = "discarded"
  /\ UNCHANGED migration

GrowDiscarded(n) ==
  /\ stage = "discarded"
  /\ cache' = Fresh(PerSide(n))
  /\ stage' = "idle"
  /\ UNCHANGED migration

GrowthFails ==
  /\ stage = "discarded"
  /\ stage' = "idle"
  /\ UNCHANGED <<cache, migration>>

ResizeNext ==
  \/ \E p \in Page : Publish(p)
  \/ \E n \in AskedSizes : StartMigration(n) \/ DiscardCache(n) \/ GrowDiscarded(n)
  \/ \E w \in Worker, s \in Page : SkipVacant(w, s) \/ ClaimSlot(w, s) \/ Collide(w, s)
  \/ \E w \in Worker : CopyWord(w) \/ FinishCopy(w)
  \/ SwapStorage
  \/ GrowthFails

ResizeSpec == ResizeInit /\ [][ResizeNext]_resizeVars

-----------------------------------------------------------------------------
(***************************************************************************)
(* Properties.                                                             *)
(***************************************************************************)

(* A probe that comes next finds every slot empty, or holding one whole    *)
(* page that it would look for in this slot, with an even sequence.        *)
CacheIsSound ==
  stage # "migrate" =>
    \A s \in DOMAIN cache :
      \/ cache[s] = Vacant
      \/ \E p \in Page : cache[s] = Holds(p) /\ SlotOf(SlotCount(cache), p) = s

(* A page is dropped only for another one that took its slot, and growing  *)
(* to a dense cache drops none.                                            *)
NothingLost ==
  stage = "migrate" /\ stage' = "idle" =>
    \A s \in DOMAIN cache : cache[s].tag # NoTag =>
      LET p == cache[s].tag
          d == SlotOf(SlotCount(cache'), p) IN
      IF p \in collisions
        THEN SlotCount(cache') < Pages /\ cache'[d].tag \notin {NoTag, p}
        ELSE cache'[d].tag = p

(* After every resize, also one that ran out of memory, the cache is sound *)
(* and holds what it could keep.                                           *)
ResizeKeepsPages == [][NothingLost /\ (ResizeTypeOK /\ CacheIsSound)']_resizeVars

-----------------------------------------------------------------------------
(***************************************************************************)
(* Why: during a migration each slot of the new storage is vacant, or      *)
(* holds a page of the old slots that are done, or is being filled by the  *)
(* only worker that claimed it; and each page of these old slots has its   *)
(* slot, or has found it taken by another page.                            *)
(***************************************************************************)
Sound(c) ==
  \A s \in DOMAIN c :
    \/ c[s] = Vacant
    \/ \E p \in Page : c[s] = Holds(p) /\ SlotOf(SlotCount(c), p) = s

Copied == DOMAIN cache \ todo     \* the old slots that are done or claimed

Filling(w, d) ==
  LET p == cache[source[w]].tag IN
  /\ claimed[w] = d /\ source[w] \in Copied
  /\ p \in Page /\ SlotOf(SlotCount(next), p) = d
  /\ next[d] = [sequence |-> 1, tag |-> NoTag,
                words |-> [k \in 1 .. PageLength |-> IF k <= copied[w] THEN p ELSE NoTag]]

Filled(d, p) ==
  /\ next[d] = Holds(p) /\ SlotOf(SlotCount(next), p) = d
  /\ \E s \in Copied : cache[s].tag = p

(* The page has the slot, or will have. *)
Takes(p, d) ==
  Filled(d, p) \/ \E w \in Worker : Filling(w, d) /\ cache[source[w]].tag = p

DestinationsInv ==
  /\ todo \subseteq DOMAIN cache
  /\ \A w \in Worker : claimed[w] # NoTag =>
       claimed[w] \in DOMAIN next /\ Filling(w, claimed[w])
  /\ \A w, v \in Worker : claimed[w] = claimed[v] /\ claimed[w] # NoTag => w = v
  /\ \A d \in DOMAIN next :
       next[d] = Vacant \/ (\E p \in Page : Filled(d, p)) \/ (\E w \in Worker : Filling(w, d))

CopiesInv ==
  /\ \A s \in Copied : cache[s].tag # NoTag =>
       LET p == cache[s].tag  d == SlotOf(SlotCount(next), p) IN
       IF p \in collisions THEN \E q \in Page \ {p} : Takes(q, d) ELSE Takes(p, d)
  /\ \A p \in collisions : \E s \in Copied : cache[s].tag = p

ResizeInv ==
  /\ ResizeTypeOK /\ Sound(cache)
  /\ stage = "migrate" => DestinationsInv /\ CopiesInv
  /\ stage # "migrate" => \A w \in Worker : claimed[w] = NoTag

=============================================================================
