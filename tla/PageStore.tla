----------------------------- MODULE PageStore ------------------------------
(* The paged, compressed table file of egtb.c: a directory and blocks of      *)
(* variable length, behind the write-back cache of the handle, behind the     *)
(* direct-mapped caches of the views that workers write their own ranges      *)
(* through, or filled by the page writers of a compact compilation.           *)
(*                                                                            *)
(* A page is its whole content.  A content has a size, so a page may outgrow  *)
(* its block; a block is a header cell and payload cells, each tagged with    *)
(* the content it was written for, and a page is read right only if all of    *)
(* them belong to one content of the recorded size: what the CRC32C and the   *)
(* decoder of the code decide.  The file is Disk cells at most: a write that  *)
(* finds no room fails.  A crash is the end of the process: what a system     *)
(* call wrote stays.                                                          *)
EXTENDS Naturals, SequencesExt

CONSTANTS Tables,      \* the tables a file may hold when the program starts
          Contents,    \* what a page that is not all draws may hold
          Size,        \* the length of its compressed form
          Sides,       \* 1 (paired pages), or 2 (planes, one for each side)
          PerSide,     \* side_page_count
          Caps,        \* the cache sizes the handle may have, per side
          Views,       \* the views, or page writers, of the workers
          Kinds,       \* what each of them is opened for: "read", "write"
          First, End,  \* the logical pages each of them owns: first_page, end_page
          ViewCap,     \* slots of a view, per side
          Reserve,     \* cells kept for a block of a file with reserved slots
          Chunk,       \* directory entries written by one system call
          Batch,       \* records of a page writer's batch
          Disk,        \* cells of the file
          MaxChanges   \* bound: contents put, compactions and compilations

Main == "main"
Nobody == "nobody"
Draw == "draw"
Err == "unreadable"
Values == Contents \cup {Draw}
Actors == Views \cup {Main}
Pages == 0 .. Sides * PerSide - 1

(* What a geometry and the actors are like, whatever the file holds.          *)
StoreConstants ==
  /\ Draw \notin Contents /\ Err \notin Contents /\ \A c \in Contents : Size[c] \in Nat \ {0}
  /\ Sides \in {1, 2} /\ PerSide \in Nat \ {0} /\ Tables \subseteq [Pages -> Values]
  /\ Caps \subseteq Nat \ {0} /\ \E most \in Caps : \A c \in Caps : c <= most
  /\ Main \notin Views /\ Nobody \notin Actors /\ ViewCap \in Nat \ {0}
  /\ \A v \in Views : /\ First[v] \in Nat /\ End[v] \in Nat
                      /\ First[v] < End[v] /\ End[v] <= PerSide
                      /\ Kinds[v] \subseteq {"read", "write"}
  /\ Reserve \in Nat /\ Chunk \in Nat \ {0} /\ Batch \in Nat \ {0}

VARIABLES file,       \* the cells after the directory
          disk,       \* the directory in the file
          exact,      \* exact_layout, in the header
          mode,       \* "closed", "read" or "write"
          refs,       \* references of a read-only handle
          dir,        \* offsets and lengths in memory
          cap,        \* cache.capacity, per side
          cache,      \* the slots of every actor
          view,       \* "none", "read", "write" or "writer"
          task,       \* what an actor is in the middle of
          mutex,      \* who holds egtb->mutex across steps
          compile,    \* compile_ready
          compileEnd, \* compile_end
          batch,      \* the records of a page writer
          nextPlane,  \* its next_page, counting every plane
          possible,   \* history: the contents a crash may bring back
          changes,    \* history: how many of them there were
          gaveUp      \* history: a view or a writer was closed without its writes

stored == <<file, disk, exact>>
writers == <<compile, compileEnd, batch, nextPlane>>
history == <<possible, changes, gaveUp>>
vars == <<stored, mode, refs, dir, cap, cache, view, task, mutex, writers, history>>

NoBlock == [at |-> 0, len |-> 0]
NoPages == [p \in Pages |-> NoBlock]
Hole == <<Err, 0>>
Empty == [page |-> 0, content |-> Err, dirty |-> FALSE]   \* an invalid slot
Idle == [goal |-> "none", step |-> "none", slot |-> 0, want |-> 0, put |-> Err, who |-> Main,
         at |-> 0, appended |-> FALSE, next |-> 0, size |-> 0]

(* write_at extends the file, with a hole when it starts beyond its end.      *)
Write(f, at, cells) ==
  [i \in 1 .. Max({Len(f), at + Len(cells) - 1}) |->
     IF i \in at .. at + Len(cells) - 1 THEN cells[i - at + 1]
     ELSE IF i \in DOMAIN f THEN f[i] ELSE Hole]

Padded(c, room) == [k \in 1 .. room |-> IF k <= Size[c] THEN <<c, k>> ELSE Hole]
Block(c, kept) == IF c = Draw THEN <<>> ELSE << <<c, 0>> >> \o Padded(c, Max({Size[c], kept}))

(* The blocks of a table, one after the other.                                *)
Before(t, kept, p) == FlattenSeq([i \in 1 .. p |-> Block(t[i - 1], kept)])
Blocks(t, kept) == Before(t, kept, Sides * PerSide)
Directory(t, kept) ==
  [p \in Pages |-> IF t[p] = Draw THEN NoBlock
                   ELSE [at |-> Len(Before(t, kept, p)) + 1, len |-> Size[t[p]]]]

Whole(f, at, c) == \A k \in 0 .. Size[c] : at + k \in DOMAIN f /\ f[at + k] = <<c, k>>

Decode(f, e) ==
  IF e.at = 0 THEN Draw
  ELSE LET fits == {c \in Contents : Size[c] = e.len /\ Whole(f, e.at, c)}
       IN IF fits = {} THEN Err ELSE CHOOSE c \in fits : TRUE

Valid(d) == \A p \in Pages : (d[p].at = 0) = (d[p].len = 0)

(* The cells a block keeps for the page to grow into.                         *)
Kept == IF exact THEN 0 ELSE Reserve

(* Where a page goes in a cache of one slot row per side.                     *)
Logical(p) == p % PerSide
SideOf(p) == p \div PerSide
HandleSlot(p) == SideOf(p) * cap + (Logical(p) % cap)
ViewSlot(v, p) ==
  SideOf(p) * ViewCap + (IF ViewCap = End[v] - First[v] THEN Logical(p) - First[v]
                         ELSE (Logical(p) % ViewCap))
SlotOf(a, p) == IF a = Main THEN HandleSlot(p) ELSE ViewSlot(a, p)
Slots(a) == 0 .. Sides * (IF a = Main THEN Max(Caps) ELSE ViewCap) - 1
NoSlots(a) == [s \in Slots(a) |-> Empty]

Holds(a, s, p) == cache[a][s].content # Err /\ cache[a][s].page = p
Dirty(a) == {s \in Slots(a) : cache[a][s].dirty}

Owns(a, p) == a # Main => Logical(p) \in First[a] .. End[a] - 1
Planes(v) == Sides * (End[v] - First[v])
Compiled == \A p \in Pages : \E v \in Views : Owns(v, p) /\ nextPlane[v] = Planes(v)
Overlaps(v, o) == First[v] < End[o] /\ End[v] > First[o]
NoViews == \A v \in Views : view[v] = "none"
NoWritable == \A v \in Views : view[v] # "write"


(* A handle is used by one thread, and not while views read or write through  *)
(* it; a view must own the page (egtb_get, egtb_set, egtb_view_get).          *)
MayRead(a, p) ==
  /\ task[a] = Idle /\ Owns(a, p)
  /\ IF a = Main THEN mode # "closed" /\ NoViews /\ (compile => Compiled)
     ELSE view[a] \in {"read", "write"}
MayPut(a, p) == MayRead(a, p) /\ IF a = Main THEN mode = "write" ELSE view[a] = "write"

Budget == changes < MaxChanges
Noted(p, c) == /\ possible' = [possible EXCEPT ![p] = @ \cup {c}]
               /\ changes' = changes + 1 /\ UNCHANGED gaveUp

Init ==
  /\ \E t \in Tables : /\ exact \in {FALSE, t # [p \in Pages |-> Draw]}
                       /\ file = Blocks(t, Kept) /\ disk = Directory(t, Kept)
                       /\ possible = [p \in Pages |-> {t[p]}]
  /\ mode = "closed" /\ refs = 0 /\ dir = NoPages /\ cap = Max(Caps)
  /\ cache = [a \in Actors |-> NoSlots(a)]
  /\ view = [v \in Views |-> "none"]
  /\ task = [a \in Actors |-> Idle] /\ mutex = Nobody
  /\ compile = FALSE /\ compileEnd = 0
  /\ batch = [v \in Views |-> <<>>] /\ nextPlane = [v \in Views |-> 0]
  /\ changes = 0 /\ gaveUp = FALSE

(* ------------------------------- a page ---------------------------------- *)
(* The slot takes the page as it is stored, and then the value put, if any.   *)
Fetched(a, s, p, put, slots) ==
  LET c == Decode(file, dir[p]) IN
  /\ cache' = [slots EXCEPT ![a][s] =
                 IF c = Err THEN Empty
                 ELSE [page |-> p, content |-> IF put = Err THEN c ELSE put, dirty |-> put # Err]]
  /\ IF c = Err \/ put = Err THEN UNCHANGED history ELSE Noted(p, put)

(* A get (put = Err) or a set of one entry of a page (put: what the page then *)
(* holds).  A dirty slot is written back before another page takes it.        *)
Hit(a, s, p, put) ==
  /\ Holds(a, s, p) /\ put # Err
  /\ cache' = [cache EXCEPT ![a][s] = [page |-> p, content |-> put, dirty |-> TRUE]]
  /\ Noted(p, put) /\ UNCHANGED task

Evict(a, s, p, put) ==
  /\ ~Holds(a, s, p) /\ cache[a][s].dirty
  /\ task' = [task EXCEPT ![a] = [Idle EXCEPT !.goal = "access", !.step = "block",
                                  !.slot = s, !.want = p, !.put = put]]
  /\ UNCHANGED <<cache, history>>

Miss_Drops(a, s, p, put) ==
  ~Holds(a, s, p) /\ Fetched(a, s, p, put, cache) /\ UNCHANGED task

Miss(a, s, p, put) ==
  /\ ~Holds(a, s, p) /\ ~cache[a][s].dirty
  /\ Fetched(a, s, p, put, cache) /\ UNCHANGED task

Access(a, p, put) ==
  /\ MayRead(a, p) /\ (put # Err => MayPut(a, p) /\ Budget)
  /\ LET s == SlotOf(a, p) IN Hit(a, s, p, put) \/ Evict(a, s, p, put) \/ Miss(a, s, p, put)
  /\ UNCHANGED <<stored, mode, refs, dir, cap, view, mutex, writers>>

(* egtb_view_write_page: what the slot holds is written back, the page is     *)
(* replaced without a read, and written.                                      *)
Replaced(a, s, p, put) ==
  /\ cache' = [cache EXCEPT ![a][s] = [page |-> p, content |-> put, dirty |-> TRUE]]
  /\ Noted(p, put)
  /\ task' = [task EXCEPT ![a] = [Idle EXCEPT !.goal = "replaced", !.step = "block", !.slot = s]]

Replace(a, p, put) ==
  /\ a # Main /\ MayPut(a, p) /\ Budget
  /\ UNCHANGED <<stored, mode, refs, dir, cap, view, mutex, writers>>
  /\ LET s == SlotOf(a, p) IN
     IF cache[a][s].dirty
     THEN /\ task' = [task EXCEPT ![a] = [Idle EXCEPT !.goal = "replace", !.step = "block",
                                          !.slot = s, !.want = p, !.put = put]]
          /\ UNCHANGED <<cache, history>>
     ELSE Replaced(a, s, p, put)

(* --------------------------- storing a page ------------------------------ *)
Stored(a) == cache[a][task[a].slot]
InPlace(c, e) == e.at # 0 /\ Size[c] <= Max({e.len, Kept})
MayAppend(a) == a = Main \/ mutex = Nobody
Advance(a, step) == task' = [task EXCEPT ![a].step = step]

(* An all-draw page has no block.                                             *)
StoreDraw(a) ==
  /\ task[a].step = "block" /\ Stored(a).content = Draw
  /\ dir' = [dir EXCEPT ![Stored(a).page].at = 0]
  /\ Advance(a, "length")
  /\ UNCHANGED <<stored, mode, refs, cap, cache, view, mutex, writers, history>>

StoreInPlace(a) ==
  LET c == Stored(a).content  e == dir[Stored(a).page] IN
  /\ task[a].step = "block" /\ c # Draw /\ InPlace(c, e)
  /\ file' = Write(file, e.at, << <<c, 0>> >>)
  /\ task' = [task EXCEPT ![a].step = "payload", ![a].at = e.at, ![a].appended = FALSE]
  /\ UNCHANGED <<disk, exact, mode, refs, dir, cap, cache, view, mutex, writers, history>>

StoreAppend(a) ==
  LET c == Stored(a).content IN
  /\ task[a].step = "block" /\ c # Draw /\ ~InPlace(c, dir[Stored(a).page])
  /\ MayAppend(a) /\ Len(file) < Disk
  /\ file' = Write(file, Len(file) + 1, << <<c, 0>> >>)
  /\ task' = [task EXCEPT ![a].step = "payload", ![a].at = Len(file) + 1, ![a].appended = TRUE]
  /\ mutex' = IF a = Main THEN mutex ELSE a
  /\ UNCHANGED <<disk, exact, mode, refs, dir, cap, cache, view, writers, history>>

Room_Tight(a) == Size[Stored(a).content]

(* The payload, and for a new block the last byte of its capacity, so that    *)
(* the next block starts after it; then the offset, and the mutex is free.    *)
Room(a) == LET n == Size[Stored(a).content]
           IN IF task[a].appended THEN Max({n, Kept}) ELSE n

StorePayload(a) ==
  /\ task[a].step = "payload" /\ task[a].at + Room(a) <= Disk
  /\ file' = Write(file, task[a].at + 1, Padded(Stored(a).content, Room(a)))
  /\ dir' = [dir EXCEPT ![Stored(a).page].at = task[a].at]
  /\ mutex' = IF mutex = a THEN Nobody ELSE mutex
  /\ Advance(a, "length")
  /\ UNCHANGED <<disk, exact, mode, refs, cap, cache, view, writers, history>>

(* The length, outside the mutex; the slot is clean, and the caller goes on.  *)
StoreLength(a) ==
  LET p == Stored(a).page  c == Stored(a).content  s == task[a].slot
      clean == [cache EXCEPT ![a][s].dirty = FALSE]
  IN
  /\ task[a].step = "length"
  /\ dir' = [dir EXCEPT ![p].len = IF c = Draw THEN 0 ELSE Size[c]]
  /\ UNCHANGED <<stored, mode, refs, cap, view, mutex, writers>>
  /\ CASE task[a].goal = "access" ->
            /\ Fetched(a, s, task[a].want, task[a].put, clean)
            /\ task' = [task EXCEPT ![a] = Idle]
       [] task[a].goal = "replace" -> Replaced(a, s, task[a].want, task[a].put)
       [] task[a].goal = "replaced" ->
            cache' = clean /\ task' = [task EXCEPT ![a] = Idle] /\ UNCHANGED history
       [] OTHER -> cache' = clean /\ Advance(a, "slots") /\ UNCHANGED history

Released(a) == IF mutex = a THEN Nobody ELSE mutex

(* What a page of a closed file reads as: a directory with an entry that has  *)
(* an offset and no length, or the reverse, is refused altogether.            *)
Durable(f, d, p) == IF Valid(d) THEN Decode(f, d[p]) ELSE Err

Dropped(f, d) ==
  /\ mode' = "closed" /\ refs' = 0 /\ dir' = NoPages
  /\ cache' = [a \in Actors |-> NoSlots(a)]
  /\ view' = [v \in Views |-> "none"]
  /\ task' = [a \in Actors |-> Idle] /\ mutex' = Nobody
  /\ compile' = FALSE /\ compileEnd' = 0
  /\ batch' = [v \in Views |-> <<>>] /\ nextPlane' = [v \in Views |-> 0]
  /\ possible' = [p \in Pages |-> {Durable(f, d, p)}] /\ gaveUp' = FALSE /\ UNCHANGED changes

(* A view goes, and the handle's own cache is dropped with the last writer.   *)
ViewGone_Keeps(v) ==
  /\ view' = [view EXCEPT ![v] = "none"]
  /\ cache' = [cache EXCEPT ![v] = NoSlots(v)]

ViewGone(v) ==
  /\ view' = [view EXCEPT ![v] = "none"]
  /\ cache' = [a \in Actors |->
                 IF a = v \/ (a = Main /\ \A o \in Views \ {v} : view[o] # "write")
                 THEN NoSlots(a) ELSE cache[a]]

(* No room for the block: the page stays dirty and the call fails, but a      *)
(* close goes on and gives up what it could not write.                        *)
StoreFails(a) ==
  /\ \/ /\ task[a].step = "block" /\ Stored(a).content # Draw
        /\ ~InPlace(Stored(a).content, dir[Stored(a).page])
        /\ MayAppend(a) /\ Len(file) >= Disk
     \/ task[a].step = "payload" /\ task[a].at + Room(a) > Disk
  /\ UNCHANGED <<stored, cap>>
  /\ IF task[a].goal = "close" /\ a = Main THEN Dropped(file, disk)
     ELSE /\ task' = [task EXCEPT ![a] = Idle] /\ mutex' = Released(a)
          /\ UNCHANGED <<mode, refs, dir, writers, possible, changes>>
          /\ IF task[a].goal = "close" THEN ViewGone(a) /\ gaveUp' = TRUE
             ELSE UNCHANGED <<view, cache, gaveUp>>

(* ------------------------------- flushing -------------------------------- *)
(* egtb_flush and, in the close of a view, egtb_view_flush: the dirty slots   *)
(* in order, then the header and the whole directory, a chunk at a time.      *)
Flushing(a, goal, who, size) ==
  task' = [task EXCEPT ![a] = [Idle EXCEPT !.goal = goal, !.step = "slots",
                                           !.who = who, !.size = size]]

FlushSlot(a) ==
  /\ task[a].step = "slots" /\ Dirty(a) # {}
  /\ task' = [task EXCEPT ![a].step = "block", ![a].slot = Min(Dirty(a))]
  /\ UNCHANGED <<stored, mode, refs, dir, cap, cache, view, mutex, writers, history>>

Flushed(a, d) ==
  CASE task[a].goal = "close" /\ a = Main -> Dropped(file, d) /\ UNCHANGED cap
    [] OTHER ->
         /\ possible' = [p \in Pages |-> IF Owns(a, p) THEN {Decode(file, dir[p])} ELSE possible[p]]
         /\ UNCHANGED <<changes, gaveUp>>
         /\ task' = [task EXCEPT ![a] = Idle] /\ mutex' = Released(a)
         /\ UNCHANGED <<mode, refs, dir, writers>>
         /\ CASE task[a].goal = "close" -> ViewGone(a) /\ UNCHANGED cap
              [] task[a].goal = "create" ->
                   view' = [view EXCEPT ![task[a].who] = "write"] /\ UNCHANGED <<cache, cap>>
              [] task[a].goal = "resize" ->
                   /\ cap' = task[a].size /\ cache' = [cache EXCEPT ![Main] = NoSlots(Main)]
                   /\ UNCHANGED view
              [] OTHER -> UNCHANGED <<view, cache, cap>>

WriteDirectory(a) ==
  LET last == Min({task[a].next + Chunk, Sides * PerSide})
      d == [p \in Pages |-> IF p \in task[a].next .. last - 1 THEN dir[p] ELSE disk[p]]
  IN
  /\ task[a].step = "directory" \/ (task[a].step = "slots" /\ Dirty(a) = {} /\ MayAppend(a))
  /\ disk' = d /\ UNCHANGED <<file, exact>>
  /\ IF last < Sides * PerSide
     THEN /\ task' = [task EXCEPT ![a].step = "directory", ![a].next = last]
          /\ mutex' = IF a = Main THEN mutex ELSE a
          /\ UNCHANGED <<mode, refs, dir, cap, cache, view, writers, history>>
     ELSE Flushed(a, d)

(* egtb_flush is refused while a writable view is active.                     *)
FlushHandle ==
  /\ mode = "write" /\ task[Main] = Idle /\ NoWritable /\ (compile => NoViews)
  /\ Flushing(Main, "flush", Main, 0)
  /\ UNCHANGED <<stored, mode, refs, dir, cap, cache, view, mutex, writers, history>>

(* ------------------------- handles and views ----------------------------- *)
Open(kind) ==
  /\ mode = "closed" /\ Valid(disk)
  /\ mode' = kind /\ dir' = disk /\ cap' = Max(Caps)
  /\ refs' = IF kind = "read" THEN 1 ELSE 0
  /\ UNCHANGED <<stored, cache, view, task, mutex, writers, history>>

(* A file that is already open for reading is shared, up to two handles here. *)
OpenAgain ==
  /\ mode = "read" /\ refs = 1 /\ refs' = 2
  /\ UNCHANGED <<stored, mode, dir, cap, cache, view, task, mutex, writers, history>>

OpenRefused == mode = "closed" /\ ~Valid(disk) /\ UNCHANGED vars

Close ==
  /\ mode # "closed" /\ task[Main] = Idle
  /\ \/ /\ refs = 2 /\ refs' = 1
        /\ UNCHANGED <<stored, mode, dir, cap, cache, view, task, mutex, writers, history>>
     \/ /\ refs = 1 /\ NoViews
        /\ Dropped(file, disk) /\ UNCHANGED <<stored, cap>>
     \/ /\ mode = "write" /\ NoViews
        /\ Flushing(Main, "close", Main, 0)
        /\ UNCHANGED <<stored, mode, refs, dir, cap, cache, view, mutex, writers, history>>

ResizeCache(c) ==
  /\ mode # "closed" /\ task[Main] = Idle /\ NoViews /\ (compile => Compiled) /\ c # cap
  /\ UNCHANGED <<stored, mode, refs, dir, view, mutex, writers, history>>
  /\ IF mode = "write" THEN Flushing(Main, "resize", Main, c) /\ UNCHANGED <<cap, cache>>
     ELSE /\ cap' = c /\ cache' = [cache EXCEPT ![Main] = NoSlots(Main)]
          /\ UNCHANGED task

(* A writable view excludes every other view of its pages.  The first one     *)
(* flushes the handle; the callers flush it before they create a read-only    *)
(* one, and shrink its cache before they create writable ones.                *)
CreateView(v, kind) ==
  /\ mode # "closed" /\ task[Main] = Idle /\ view[v] = "none" /\ ~compile
  /\ \A o \in Views : Overlaps(v, o) /\ view[o] # "none" => "write" \notin {kind, view[o]}
  /\ kind = "write" => mode = "write" /\ cap = Min(Caps) /\ Budget
  /\ kind = "read" => Dirty(Main) = {}
  /\ UNCHANGED <<stored, mode, refs, dir, cap, cache, mutex, writers, history>>
  /\ IF kind = "write" /\ NoWritable THEN Flushing(Main, "create", v, 0) /\ UNCHANGED view
     ELSE view' = [view EXCEPT ![v] = kind] /\ UNCHANGED task

CloseView(v) ==
  /\ task[v] = Idle /\ task[Main] = Idle
  /\ UNCHANGED <<stored, mode, refs, dir, cap, mutex, writers, history>>
  /\ \/ view[v] = "read" /\ ViewGone(v) /\ UNCHANGED task
     \/ view[v] = "write" /\ Flushing(v, "close", v, 0) /\ UNCHANGED <<view, cache>>

(* ------------------------- compact compilation --------------------------- *)
(* egtb_prepare_compact: a fresh file of the current version, which has two   *)
(* planes, and from which nothing has been read.                              *)
Prepare ==
  /\ mode = "write" /\ Sides = 2 /\ NoViews /\ task[Main] = Idle /\ ~compile
  /\ file = <<>> /\ dir = NoPages /\ cache[Main] = NoSlots(Main)
  /\ exact' = TRUE /\ compile' = TRUE /\ compileEnd' = 0
  /\ Budget /\ changes' = changes + 1
  /\ UNCHANGED <<file, disk, mode, refs, dir, cap, cache, view, task, mutex, batch,
                 nextPlane, possible, gaveUp>>

(* The writers' ranges are disjoint, and each is written once.                *)
CreateWriter(v) ==
  /\ compile /\ task[Main] = Idle
  /\ \A o \in Views : Overlaps(v, o) => view[o] = "none" /\ nextPlane[o] = 0
  /\ view' = [view EXCEPT ![v] = "writer"]
  /\ UNCHANGED <<stored, mode, refs, dir, cap, cache, task, mutex, writers, history>>

NextPage(v) == First[v] + nextPlane[v] \div Sides + (nextPlane[v] % Sides) * PerSide

(* egtb_page_writer_put, one plane at a time: an all-draw plane needs no      *)
(* record, another waits for room in the batch.                               *)
PutPlane(v, c) ==
  /\ view[v] = "writer" /\ task[v] = Idle /\ nextPlane[v] < Planes(v)
  /\ nextPlane' = [nextPlane EXCEPT ![v] = @ + 1]
  /\ UNCHANGED <<stored, mode, refs, dir, cap, cache, view, task, mutex, compile, compileEnd>>
  /\ IF c = Draw THEN UNCHANGED <<batch, history>>
     ELSE /\ Len(batch[v]) < Batch
          /\ batch' = [batch EXCEPT ![v] = Append(@, <<NextPage(v), c>>)]
          /\ Noted(NextPage(v), c)

BatchCells(b) == FlattenSeq([i \in DOMAIN b |-> Block(b[i][2], 0)])

(* flush_compile_batch, of a full batch or the last one: the bytes are        *)
(* reserved under the mutex, and written without it, in any order.            *)
ReserveExtent(v) ==
  /\ view[v] = "writer" /\ task[v] = Idle /\ batch[v] # <<>>
  /\ Len(batch[v]) = Batch \/ nextPlane[v] = Planes(v)
  /\ compileEnd' = compileEnd + Len(BatchCells(batch[v]))
  /\ task' = [task EXCEPT ![v] = [Idle EXCEPT !.goal = "writer", !.step = "extent",
                                              !.at = compileEnd + 1]]
  /\ UNCHANGED <<stored, mode, refs, dir, cap, cache, view, mutex, compile, batch,
                 nextPlane, history>>

BatchEnd(v) == task[v].at + Len(BatchCells(batch[v])) - 1

WriteBatch(v) ==
  LET b == batch[v]
      at(i) == task[v].at + Len(BatchCells(SubSeq(b, 1, i - 1)))
  IN
  /\ task[v].step = "extent" /\ BatchEnd(v) <= Disk
  /\ file' = Write(file, task[v].at, BatchCells(b))
  /\ dir' = [p \in Pages |->
               LET mine == {i \in DOMAIN b : b[i][1] = p} IN
               IF mine = {} THEN dir[p] ELSE [at |-> at(Max(mine)), len |-> Size[b[Max(mine)][2]]]]
  /\ batch' = [batch EXCEPT ![v] = <<>>]
  /\ task' = [task EXCEPT ![v] = Idle]
  /\ UNCHANGED <<disk, exact, mode, refs, cap, cache, view, mutex, compile, compileEnd,
                 nextPlane, history>>

(* A writer that fails is closed, its batch with it.                          *)
WriterGone(v) ==
  /\ view' = [view EXCEPT ![v] = "none"]
  /\ batch' = [batch EXCEPT ![v] = <<>>]
  /\ nextPlane' = [nextPlane EXCEPT ![v] = Planes(v)]
  /\ task' = [task EXCEPT ![v] = Idle]
  /\ UNCHANGED <<stored, mode, refs, dir, cap, cache, mutex, compile, compileEnd,
                 possible, changes>>

WriterFails(v) ==
  /\ task[v].step = "extent" /\ BatchEnd(v) > Disk
  /\ WriterGone(v) /\ gaveUp' = TRUE

CloseWriter(v) ==
  /\ view[v] = "writer" /\ task[v] = Idle
  /\ nextPlane[v] = Planes(v) /\ batch[v] = <<>>
  /\ WriterGone(v) /\ UNCHANGED gaveUp

(* -------------------------- the file as a whole -------------------------- *)
(* compact_database: every page is read, and a file without gaps replaces the *)
(* old one at once; a crash before that leaves the old one.                   *)
Compact ==
  LET t == [p \in Pages |-> Decode(file, disk[p])] IN
  /\ mode = "closed" /\ Valid(disk) /\ \A p \in Pages : t[p] # Err
  /\ file' = Blocks(t, 0) /\ disk' = Directory(t, 0)
  /\ exact' = TRUE /\ Budget /\ changes' = changes + 1
  /\ UNCHANGED <<mode, refs, dir, cap, cache, view, task, mutex, writers, possible, gaveUp>>

Crash ==
  /\ mode # "closed"
  /\ Dropped(file, disk) /\ UNCHANGED <<stored, cap>>

Store(a) == \/ StoreDraw(a) \/ StoreInPlace(a) \/ StoreAppend(a) \/ StorePayload(a)
            \/ StoreLength(a) \/ StoreFails(a)

ViewStep(v) == \/ \E kind \in Kinds[v] : CreateView(v, kind)
               \/ CloseView(v)
               \/ \E p \in Pages, c \in Values : Replace(v, p, c)

WriterStep(v) == \/ CreateWriter(v) \/ \E c \in Values : PutPlane(v, c)
                 \/ ReserveExtent(v) \/ WriteBatch(v) \/ WriterFails(v) \/ CloseWriter(v)

Next == \/ \E a \in Actors : \/ \E p \in Pages, put \in Values \cup {Err} : Access(a, p, put)
                             \/ Store(a) \/ FlushSlot(a) \/ WriteDirectory(a)
        \/ \E v \in Views : ViewStep(v) \/ WriterStep(v)
        \/ \E kind \in {"read", "write"} : Open(kind)
        \/ \E c \in Caps : ResizeCache(c)
        \/ OpenAgain \/ OpenRefused \/ FlushHandle \/ Close \/ Prepare \/ Compact \/ Crash

Spec == Init /\ [][Next]_vars
-----------------------------------------------------------------------------
(* What a page is: what a dirty slot or a writer's batch holds, or else what  *)
(* the directory leads to.                                                    *)
Latest(p) ==
  LET holders == {a \in Actors : Owns(a, p) /\ Holds(a, SlotOf(a, p), p)
                                            /\ cache[a][SlotOf(a, p)].dirty}
      writing == {v \in Views : \E i \in DOMAIN batch[v] : batch[v][i][1] = p}
  IN CASE mode = "closed" -> Durable(file, disk, p)
       [] mode # "closed" /\ holders # {} ->
            LET a == CHOOSE a \in holders : TRUE IN cache[a][SlotOf(a, p)].content
       [] mode # "closed" /\ writing # {} ->
            LET v == CHOOSE v \in writing : TRUE
            IN batch[v][CHOOSE i \in DOMAIN batch[v] : batch[v][i][1] = p][2]
       [] OTHER -> Decode(file, dir[p])

(* Whoever may read a page through a cache finds its present content: no slot *)
(* of the handle or of a view outlives a write through another (egtb.c:1740). *)
SlotsAgree == \A a \in Actors, p \in Pages :
  LET s == SlotOf(a, p) IN
  MayRead(a, p) /\ Holds(a, s, p) => cache[a][s].content = Latest(p)

(* The cells of different pages never meet, neither those the directory in    *)
(* memory leads to nor those the file's leads to after a crash                *)
(* (append_block, egtb.c:679, and the room of a block, egtb.c:747).           *)
Cells(e) == IF e.at = 0 THEN {} ELSE e.at .. e.at + Max({e.len, Kept})
BlocksApart == \A p, q \in Pages : p # q =>
  \A e \in {dir[p], disk[p]}, f \in {dir[q], disk[q]} : Cells(e) \cap Cells(f) = {}

(* Every page is one page: its cells are its own, and every cache of it that  *)
(* may be read holds its present content.                                     *)
PagesAreWhole == BlocksApart /\ SlotsAgree

(* The store implements the durable table: reads of it never go back, what a  *)
(* completed flush or close (egtb.c:1318, 1700) covers survives any crash,    *)
(* and the rest comes back as a value it had or is refused.                   *)
Held == [p \in Pages |-> Latest(p)]
Table == INSTANCE DurableTable WITH table <- Held, asked <- changes
Refines == Table!Spec
=============================================================================
