------------------------------ MODULE WdlStore ------------------------------
(***************************************************************************)
(* Win/draw/loss tables (wdl.c, dtm_to_wdl.c).  The file is compiled from  *)
(* a distance table by workers that compress batches of pages, reserve an  *)
(* extent of the output each, and write it and their part of the page      *)
(* directory; the complete file is renamed to its name.  Any process that  *)
(* opens a missing table compiles it, at the same time as others, and the  *)
(* distance table may be replaced meanwhile.                               *)
(*                                                                         *)
(* A position of the output is a cell; the header and the directory come   *)
(* before the first.  A page of draws only is implicit: offset zero.       *)
(***************************************************************************)
EXTENDS Naturals, Sequences, SequencesExt, FiniteSets, FiniteSetsExt

CONSTANTS Process,
          Threads,     \* process -> the workers it asks for
          Converters,  \* the processes that run dtm_to_wdl; others read
          PageTotal,
          BatchPages,  \* WDL_BATCH_PAGES
          Draws,       \* the packed page that has draws only
          Packed,      \* version of the distance table -> its pages, packed
          SizeOf,      \* packed page -> the cells it is compressed to
          Trained,     \* the versions a dictionary is trained from
          CachePages,
          NoFile, NoHandle

Page == 0 .. PageTotal - 1
Version == DOMAIN Packed

(* A file, and what a process keeps of one that it has opened.             *)
PackedPages == DOMAIN SizeOf \cup {Draws}
FileCells == [of : PackedPages, dictionary : BOOLEAN, part : Nat]
FileEntries == [offset : Nat, size : Nat, sum : PackedPages]
WdlFiles == [dictionary : BOOLEAN, entry : [Page -> FileEntries], cells : Seq(FileCells)]
PageCaches == UNION {[0 .. k - 1 -> 0 .. PageTotal] : k \in 0 .. PageTotal}
WdlHandles == [file : WdlFiles, cache : PageCaches]

ASSUME WdlAssumption ==
  /\ {PageTotal, BatchPages, CachePages} \subseteq Nat \ {0}
  /\ Threads \in [Process -> Nat \ {0}]
  /\ Version \subseteq Nat \ {0} /\ Version # {} /\ Trained \subseteq Version
  /\ SizeOf \in [DOMAIN SizeOf -> Nat \ {0}]
  /\ \A v \in Version : Packed[v] \in [Page -> PackedPages]
  /\ NoFile \notin WdlFiles /\ NoFile \notin [Page -> PackedPages]
  /\ NoHandle \notin WdlHandles

VARIABLES
  dtm,    \* the version of the distance table under its name
  wdl,    \* the file under the name of the win/draw/loss table
  job,    \* process -> its compilation
  handle, \* process -> its open table, with the page cache
  size,   \* process -> the file size it was told, or 0
  given  \* process -> pages and values it was given last

wdlVars == <<dtm, wdl, job, handle, size, given>>

NoJob == [at |-> "idle"]
Reopening == [at |-> "reopen"]
NothingGiven == [p \in Process |-> [page \in {} |-> Draws]]

(* The distance table is there or not, no process uses it yet. *)
WdlFrom(j) ==
  /\ dtm = Min(Version) /\ wdl = NoFile
  /\ job = [p \in Process |-> j]
  /\ handle = [p \in Process |-> NoHandle]
  /\ size = [p \in Process |-> 0]
  /\ given = NothingGiven

WdlInit == WdlFrom(NoJob)

-----------------------------------------------------------------------------
(* The first of total things that worker i of n has to do. *)
Share(i, n, total) ==
  i * (total \div n) + (IF i < total % n THEN i ELSE total % n)

ShareOf(i, n, total) == Share(i, n, total) .. Share(i + 1, n, total) - 1

AtMost(n, limit) == IF n > limit THEN limit ELSE n

Implicit == [offset |-> 0, size |-> 0, sum |-> Draws]

(* A compressed page; it cannot be read with another dictionary.           *)
Payload(v, dictionary) ==
  [k \in 1 .. SizeOf[v] |-> [of |-> v, dictionary |-> dictionary, part |-> k]]

NewFile(v) == [dictionary |-> v \in Trained,
               entry |-> [page \in Page |-> Implicit],
               cells |-> << >>]

NoCell == [of |-> Draws, dictionary |-> FALSE, part |-> 0]

(* pwrite: the file grows when the write is beyond its end.                *)
WriteAt(cells, at, payload) ==
  [n \in 1 .. Max({Len(cells), (at - 1) + Len(payload)}) |->
     IF n - (at - 1) \in DOMAIN payload THEN payload[n - (at - 1)]
     ELSE IF n \in DOMAIN cells THEN cells[n] ELSE NoCell]

(* load_page: what can be read of a page, or nothing. *)
Readable(f, page) ==
  LET e == f.entry[page] IN
  e.offset # 0 =>
     /\ (e.offset - 1) + e.size <= Len(f.cells)
     /\ SubSeq(f.cells, e.offset, (e.offset - 1) + e.size) = Payload(e.sum, f.dictionary)

(* What open_existing looks at: the entries are in the file.               *)
Openable(f) ==
  \A page \in Page : LET e == f.entry[page] IN
    IF e.offset = 0 THEN e = Implicit
    ELSE e.size > 0 /\ (e.offset - 1) + e.size <= Len(f.cells)

-----------------------------------------------------------------------------
(***************************************************************************)
(* Compilation: wdl_compile_threaded.                                      *)
(***************************************************************************)

(* The handle keeps the version it was opened with, and the temporary file *)
(* has a header, a dictionary if one was trained, and an empty directory.  *)
Compile(p) ==
  /\ job[p] = NoJob
  /\ wdl = NoFile \/ p \in Converters   \* --force
  /\ LET n == AtMost(Threads[p], PageTotal) IN
     job' = [job EXCEPT ![p] =
       [at |-> "start", version |-> dtm, file |-> NewFile(dtm), next |-> 1,
        cancelled |-> FALSE, created |-> 0, count |-> n,
        worker |-> [i \in 0 .. n - 1 |->
          [at |-> "batch", page |-> Share(i, n, PageTotal), offset |-> 0, failed |-> FALSE]]]]
  /\ given' = NothingGiven
  /\ UNCHANGED <<dtm, wdl, handle, size>>

Started(p) == job[p].at \in {"start", "join"}

StartWorker(p) ==
  /\ job[p].at = "start"
  /\ job' = [job EXCEPT ![p].created = @ + 1,
                        ![p].at = IF job[p].created + 1 = job[p].count THEN "join" ELSE "start"]
  /\ UNCHANGED <<dtm, wdl, handle, size, given>>

StartFails(p) ==
  /\ job[p].at = "start"
  /\ job' = [job EXCEPT ![p].cancelled = TRUE, ![p].at = "join"]
  /\ UNCHANGED <<dtm, wdl, handle, size, given>>

Working(p, i) == Started(p) /\ i < job[p].created

(* The pages of the next batch of worker i. *)
BatchLength(j, i) == AtMost(Share(i + 1, j.count, PageTotal) - j.worker[i].page, BatchPages)
BatchOf(j, i) == j.worker[i].page .. j.worker[i].page + BatchLength(j, i) - 1

(* What is stored of a page; a page that has draws only has no cells.      *)
CellsOf(version, page) ==
  IF Packed[version][page] = Draws THEN << >>
  ELSE Payload(Packed[version][page], version \in Trained)

(* The first n pages from a page on, one after the other.                  *)
Compressed(version, first, n) ==
  FlattenSeq([k \in 1 .. n |-> CellsOf(version, first + k - 1)])

BatchCells(j, i) == Compressed(j.version, j.worker[i].page, BatchLength(j, i))

(* Mutant: the extent is reserved without the mutex, in two steps. *)
ReserveCells_Unlocked(p, i) ==
  LET w == job[p].worker[i] IN
  /\ Working(p, i) /\ w.at \in {"batch", "reserve"}
  /\ CASE w.at = "reserve" ->
            job' = [job EXCEPT ![p].worker[i].at = "payload",
                               ![p].next = w.offset + Len(BatchCells(job[p], i))]
       [] w.at = "batch" /\ (job[p].cancelled \/ BatchOf(job[p], i) = {}) ->
            job' = [job EXCEPT ![p].worker[i].at = "done"]
       [] OTHER ->
            job' = [job EXCEPT ![p].worker[i].at = "reserve",
                               ![p].worker[i].offset = job[p].next]
  /\ UNCHANGED <<dtm, wdl, handle, size, given>>

(* One turn of the loop of compile_wdl_pages, up to the reservation of the *)
(* extent under the mutex.                                                 *)
ReserveCells(p, i) ==
  /\ Working(p, i) /\ job[p].worker[i].at = "batch"
  /\ IF job[p].cancelled \/ BatchOf(job[p], i) = {}
       THEN job' = [job EXCEPT ![p].worker[i].at = "done"]
       ELSE job' = [job EXCEPT ![p].worker[i].at = "payload",
                               ![p].worker[i].offset = job[p].next,
                               ![p].next = @ + Len(BatchCells(job[p], i))]
  /\ UNCHANGED <<dtm, wdl, handle, size, given>>

WritePayload(p, i) ==
  LET batch == BatchCells(job[p], i) IN
  /\ Working(p, i) /\ job[p].worker[i].at = "payload"
  /\ job' = [job EXCEPT ![p].worker[i].at = "directory",
                        ![p].file.cells = IF batch = << >> THEN @
                                          ELSE WriteAt(@, job[p].worker[i].offset, batch)]
  /\ UNCHANGED <<dtm, wdl, handle, size, given>>

(* The entries were made with offsets in the batch, and rebased.           *)
EntryOf(version, w, page) ==
  IF Packed[version][page] = Draws THEN Implicit
  ELSE [offset |-> w.offset + Len(Compressed(version, w.page, page - w.page)),
        size |-> SizeOf[Packed[version][page]], sum |-> Packed[version][page]]

WriteEntries(p, i) ==
  LET w == job[p].worker[i] IN
  /\ Working(p, i) /\ w.at = "directory"
  /\ job' = [job EXCEPT
       ![p].file.entry = [page \in Page |-> IF page \in BatchOf(job[p], i)
                                            THEN EntryOf(job[p].version, w, page) ELSE @[page]],
       ![p].worker[i].at = "batch",
       ![p].worker[i].page = @ + BatchLength(job[p], i)]
  /\ UNCHANGED <<dtm, wdl, handle, size, given>>

(* A read of the source, the compression or a write fails.                 *)
WorkerFails(p, i) ==
  /\ Working(p, i) /\ job[p].worker[i].at # "done"
  /\ job' = [job EXCEPT ![p].worker[i].at = "done", ![p].worker[i].failed = TRUE,
                        ![p].cancelled = TRUE]
  /\ UNCHANGED <<dtm, wdl, handle, size, given>>

Joined(p) ==
  job[p].at = "join" /\ \A i \in 0 .. job[p].created - 1 : job[p].worker[i].at = "done"

Complete_IfStarted(p) == job[p].created = job[p].count   \* Mutant: no failure is looked at
Complete(p) ==
  /\ job[p].created = job[p].count
  /\ \A i \in DOMAIN job[p].worker : ~job[p].worker[i].failed

(* fsync, close and egtb_publish; whoever wanted to read opens it then.    *)
PublishFile(p) ==
  /\ Joined(p) /\ Complete(p)
  /\ wdl' = job[p].file
  /\ job' = [job EXCEPT ![p] = IF p \in Converters THEN NoJob ELSE Reopening]
  /\ given' = NothingGiven
  /\ UNCHANGED <<dtm, handle, size>>

(* The temporary file is unlinked, by a failure of its own as well. *)
GiveUp(p) ==
  /\ Joined(p)
  /\ job' = [job EXCEPT ![p] = NoJob]
  /\ given' = NothingGiven
  /\ UNCHANGED <<dtm, wdl, handle, size>>

-----------------------------------------------------------------------------
(***************************************************************************)
(* Reading.                                                                *)
(***************************************************************************)
NoPage == PageTotal

(* open_existing; a cache page holds no page yet. *)
OpenTable(p) ==
  /\ p \notin Converters /\ job[p] \in {NoJob, Reopening}
  /\ wdl # NoFile /\ Openable(wdl)
  /\ job' = [job EXCEPT ![p] = NoJob]
  /\ handle' = [handle EXCEPT ![p] =
       [file |-> wdl, cache |-> [s \in 0 .. AtMost(CachePages, PageTotal) - 1 |-> NoPage]]]
  /\ given' = NothingGiven
  /\ UNCHANGED <<dtm, wdl, size>>

(* wdl_get: the cache has the page, or loads it into its slot.             *)
Get(p, page) ==
  LET h == handle[p]
      slot == page % Cardinality(DOMAIN h.cache) IN
  /\ h # NoHandle /\ job[p] = NoJob /\ h.cache # << >>
  /\ h.cache[slot] # page => Readable(h.file, page)
  /\ handle' = [handle EXCEPT ![p].cache[slot] = page]
  /\ given' = [NothingGiven EXCEPT ![p] = [q \in {page} |-> h.file.entry[handle'[p].cache[slot]].sum]]
  /\ UNCHANGED <<dtm, wdl, job, size>>

(* load_page fails: the file cannot be read, or the page is damaged.  The  *)
(* slot, whose buffer may have been overwritten, has no page then.         *)
GetFails(p, page) ==
  LET slot == page % Cardinality(DOMAIN handle[p].cache) IN
  /\ handle[p] # NoHandle /\ job[p] = NoJob /\ handle[p].cache # << >>
  /\ handle[p].cache[slot] # page
  /\ handle' = [handle EXCEPT ![p].cache[slot] = NoPage]
  /\ given' = NothingGiven
  /\ UNCHANGED <<dtm, wdl, job, size>>

(* wdl_decompress_into_threaded, with as many threads as the process has:  *)
(* every worker fills in its own pages.                                    *)
Decompress(p) ==
  LET n == AtMost(Threads[p], PageTotal)
      done == UNION {ShareOf(i, n, PageTotal) : i \in 0 .. n - 1} IN
  /\ handle[p] # NoHandle /\ job[p] = NoJob
  /\ \A page \in done : Readable(handle[p].file, page)
  /\ given' = [NothingGiven EXCEPT ![p] =
       [page \in done |-> handle[p].file.entry[page].sum]]
  /\ UNCHANGED <<dtm, wdl, job, handle, size>>

Bytes(f) == 1 + Len(f.cells)   \* the header and the directory, and the cells

(* wdl_file_size, for gwdegtb_wdl_compressed_info. *)
FileSize(p) ==
  /\ p \notin Converters /\ job[p] = NoJob /\ wdl # NoFile
  /\ size' = [size EXCEPT ![p] = Bytes(wdl)]
  /\ given' = NothingGiven
  /\ UNCHANGED <<dtm, wdl, job, handle>>

(* wdl_file_load_into_threaded and wdl_image_attach: the file is the one   *)
(* that is there now; it is refused unless it has the size the memory was  *)
(* allocated with.  An image has no page cache.                            *)
LoadImage(p) ==
  LET n == AtMost(Threads[p], Bytes(wdl))
      done == UNION {ShareOf(i, n, Bytes(wdl)) : i \in 0 .. n - 1} IN
  /\ size[p] # 0 /\ job[p] = NoJob
  /\ Bytes(wdl) = size[p]
  /\ Openable(wdl)
  /\ handle' = [handle EXCEPT ![p] =
       [file |-> [wdl EXCEPT !.cells = [k \in DOMAIN @ |-> IF k \in done THEN @[k] ELSE NoCell]],
        cache |-> << >>]]
  /\ size' = [size EXCEPT ![p] = 0]
  /\ given' = NothingGiven
  /\ UNCHANGED <<dtm, wdl, job>>

CloseTable(p) ==
  /\ handle[p] # NoHandle /\ job[p] = NoJob
  /\ handle' = [handle EXCEPT ![p] = NoHandle]
  /\ given' = NothingGiven
  /\ UNCHANGED <<dtm, wdl, job, size>>

-----------------------------------------------------------------------------
(* The process ends, whatever it was doing. *)
Die(p) ==
  /\ job[p] # NoJob \/ handle[p] # NoHandle
  /\ job' = [job EXCEPT ![p] = NoJob]
  /\ handle' = [handle EXCEPT ![p] = NoHandle]
  /\ size' = [size EXCEPT ![p] = 0]
  /\ given' = NothingGiven
  /\ UNCHANGED <<dtm, wdl>>

(* The generator or the repair publishes another distance table. *)
ReplaceTable ==
  /\ \E v \in Version : v > dtm /\ dtm' = v
  /\ given' = NothingGiven
  /\ UNCHANGED <<wdl, job, handle, size>>

WdlNext ==
  \/ ReplaceTable
  \/ \E p \in Process :
       \/ Compile(p) \/ StartWorker(p) \/ StartFails(p) \/ PublishFile(p) \/ GiveUp(p)
       \/ \E i \in 0 .. Threads[p] - 1 :
            ReserveCells(p, i) \/ WritePayload(p, i) \/ WriteEntries(p, i) \/ WorkerFails(p, i)
       \/ OpenTable(p) \/ Decompress(p) \/ FileSize(p) \/ LoadImage(p) \/ CloseTable(p) \/ Die(p)
       \/ \E page \in Page : Get(p, page) \/ GetFails(p, page)

WdlSpec == WdlInit /\ [][WdlNext]_wdlVars

-----------------------------------------------------------------------------
(***************************************************************************)
(* Properties.                                                             *)
(***************************************************************************)

Decoded(f) == [page \in Page |-> IF Readable(f, page) THEN f.entry[page].sum ELSE NoFile]

T == INSTANCE WdlTable WITH
       None <- NoFile,
       Projections <- {Packed[v] : v \in Version},
       answer <- given,
       table <- IF wdl = NoFile THEN NoFile ELSE Decoded(wdl),
       opened <- [p \in Process |->
         IF handle[p] = NoHandle THEN NoFile ELSE Decoded(handle[p].file)]

(* Whatever workers, processes and failures do, no reader ever sees a      *)
(* table that is incomplete or mixed from two distance tables, or a page   *)
(* of another.                                                             *)
RefinesTable == T!Init /\ [][T!Next]_(T!wdlTableVars)

(* A published file is exactly as long as its pages need: their extents    *)
(* are disjoint and leave nothing out.                                     *)
FileIsPacked ==
  wdl # NoFile =>
    LET stored == {page \in Page : wdl.entry[page].offset # 0}
        cells(page) == wdl.entry[page].offset ..
                         (wdl.entry[page].offset - 1) + wdl.entry[page].size IN
    /\ UNION {cells(page) : page \in stored} = DOMAIN wdl.cells
    /\ \A a, b \in stored : a # b => cells(a) \cap cells(b) = {}
=============================================================================
