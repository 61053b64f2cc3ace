# GWDEGTB: models, model checks and proofs

GWDEGTB generates endgame tables for international draughts. A table stores, for
every placement of some material and both sides to move, the exact distance to
mate in plies (DTM) or a draw. This directory holds TLA+ models of the program,
TLC configurations that check them on small instances, and TLAPS proofs of the
main results. Paths such as `generator.c:2446` are relative to `src/`.

To check a run, `tlc -config Retrograde.cfg MCRetrograde.tla`; to check the
proofs of a module, `tlapm RetrogradeProofs.tla`.

## 1. Inventory of the system

| component | source | state | operations | hard behaviours | what makes it correct |
|---|---|---|---|---|---|
| Frontier generator | generator.c 2264-3500 | frontier and deferred streams per worker, side and value; won, lost and candidate bitmaps; layer counter | initialise, sources, candidates, next layer, compile | several workers writing one bitmap; layers; joins; failure of one worker; the end of the 16-bit range | the compiled table is the consistent one; no contradictory outcome; ends |
| Bitmaps and work partition | bitmap.c, generator.c | words of 64 bits, ranges of pages | set, set atomically, scan, clear | two workers on one word, one of whom may be told that a bit is new | no mark is lost, each candidate is handed out once |
| Frontier streams | frontier.c | buffers, blocks and block directories per owner and distance; the longest distance | append, visit a range, finish | joins in between, spill to a file, raising the longest distance by compare-and-swap | every record is visited once, in order |
| Consistency repair | generator.c 1044-1779 | table, flushed snapshot, worklist, verified bitmap, corrections and histogram per worker | passes of check and apply | stale snapshot, sparse passes, values growing on cycles | skipped positions are right; ends; fixed point |
| Verification and finalisation | generator.c 1781-2173 | ranges, rounds, results and examples per worker; attempt | verify, repair once, verify again | precedence of errors, partition-independence, one retry | only a consistent table is accepted |
| Page store | egtb.c | page directory, write cache, views, page writers | get, set, flush, evict, compact | eviction of dirty pages, blocks that outgrow their place, crash between two writes, full disk | what was written is read, or an error |
| Page codec | egtb.c | none | code, decode, checksum | half distances, three versions, escapes, damaged blocks | a page reads back as it was stored |
| Shared page cache | egtb.c 1788-2265 | per slot: sequence, tag, words | probe, publish, resize, discard | seqlock on relaxed atomics; migration collisions; failed allocation | no torn read, no waiting, no lost page |
| Dependency tables | dependency_resident.c | pool of loaded tables, budget, users | acquire, grow, transfer, roll back, reclaim | loads outside the lock, budget, failing resizes, recovery reserve | the budget holds; a rollback is always affordable; waiters are released |
| Sliced generation | sliced.c, slice_order.h | slice files, manifest, work file, lock | prepare, generate in order, verify, finish, publish, clean up | crash between any two writes, damaged files, several verification modes on one workspace | what is reported as verified is right; finished work survives |
| Slice merge | sliced.c 712-1000 | page ranges, heaps, per-worker results | divide, merge, cancel, join | uneven division, failing workers, inputs that do not fit together | an exact merge or a failure |
| Command line | generate_egtb.c | temporary and published files | generate, verify, publish | crash before publication | only verified files are published |
| Verification tool and script | verify_dtm.c, verify_all.py | checkpoint file; log of the campaign | open, fingerprint, verify a chunk, save, resume, pause, report | crash between chunks, tables replaced under it, stale checkpoint | nothing is skipped; a verdict is about the tables it names |
| WDL tables | wdl.c, dtm_to_wdl.c | page directory, extents, page cache, temporary files | compile, publish, open, probe | several workers reserving extents, several processes compiling one table, failures, deaths | the file is whole or absent; a value is the one of its distance table |
| Registry | gwdegtb.c | attached images and tables, probes and their pages | attach, unload, probe, open a distance table lazily | pages kept in probes after a handle is gone or replaced | a lookup answers from what is attached |
| Move generators | movegen.c | none | captures, quiet moves, quiet predecessors | two implementations, majority rule, promotion | predecessors invert moves; both agree |
| Index, material | endgame_index.c, material.c | table of ways | rank, unrank, mirror, plan | arithmetic limits; a plan that forgets a dependency | one index per position; dependencies first |
| Reporting | dtm_pv.c, other tools | the line so far | walk a principal variation | tables that contradict each other | a printed line ends in what the value promised |
| Progress, legacy generators, tests | progress.c, ... | counters | print | none that feeds a decision | - |

How they interact: the command line plans the tables so that every capture or
promotion leads to a finished one; the generator asks those through an
*external probe* (dependency tables, shared cache) and its own positions through
bitmaps and streams; compilation writes pages through page writers; verification
and repair read through views; publication renames the file. All threads are
joined at stage boundaries; shared bitmaps, the longest distance of the streams,
the shared cache, the dependency pool and the output extents of a WDL
compilation are the only state that threads touch at the same time. Processes
meet only in files, which they replace by renaming.

The list of hazards, each at its source line with the properties aimed at it, is
in `PROJECT.json`.

## 2. Plan

Modules are written so that they can be proved about: constants with named
assumptions, one action per handler, invariants as conjunctions of named parts.
Only the algorithms (`Draughts` and what extends it) use RECURSIVE operators,
and nothing is proved in them. In order of importance:

1. `GameGraph` - values, games, the consistency of a table. **Proved.**
2. `Retrograde` - the generator proper; `RetrogradeSolution` says why it is right.
   **Checked; its invariants are proved.**
3. `ConsistencyRepair`, `Verification`, `CompiledFinish` - what happens to a
   compiled table. `CompiledFinish` runs `Verification` inside. **Checked;
   proved but for the termination.**
4. `SharedCache`, `CacheResize` - the cache that threads share without locks,
   and its resizing. **Checked; proved.**
5. `SlicedGeneration`, `SliceMerge` - the command over its files, with crashes,
   and the parallel merge. **Checked; proved, but for liveness.**
6. `DependencyPool` - budget and recovery of the in-memory dependency tables.
   **Checked; proved.**
7. `PageStore`, which implements `DurableTable`. **Checked; proved, the refinement
   included.**
8. `VerifyCheckpoint` - checkpoints of a long verification and the script above
   it. **Checked; proved.**
9. `FrontierStore`, which implements `RecordStreams`; `WorkPartition` and
   `CandidateBitmap`. **Checked; proved, the refinement included.**
10. `WdlStore`, which implements `WdlTable`; `WdlRegistry`. **Checked; proved, the
    refinement included.**
11. Algorithms: `Draughts`, `PaddedDraughts`, `Material`, `PositionIndex`,
    `PositionWalk`, `PageCodec`, `PrincipalVariation`. **Checked.**

## 3. Modules and their correspondence to the code

`PROJECT.json` maps each definition to its lines; this is the overview.

### Generation

**GameGraph.** Positions are abstract; a game is a choice, for each side and
position, of the positions that quiet moves reach (`succ`) and of the values that
captures, promotions and moves into other slices have (`ext`). `Expected` is
`expected_dtm` (generator.c:1044), the arithmetic that the repair and the
verification share: won for the mover if some successor is lost for the opponent,
by the shortest way; lost, by the longest, if all are won; otherwise a draw.
Odd numbers are wins, even negative ones losses, 0 is "no move", `Draw` is
`EGTB_DRAW`; `MaxWin` scales `EGTB_MAX_WIN_DTM`, 32765.

**Retrograde.** `generate_threaded_impl`. The code's three bitmaps are the sets
`won`, `lost` and `candidates`; the frontier streams are `records` (which values a
position was appended with), the deferred streams are `deferred`, whose records
join a layer through `activations`. The stage machine is the main thread with its
joins; a worker's step handles one position with every append it makes. Positions
are visited in any order within a stage, by the worker that owns them. `Replayed`
is the final replay of the streams, longest distance first, so that the shortest
record is what remains in the table. `RetrogradeSolution` adds no behaviour: it
holds the invariants that explain why the layers find the solution.

**WorkPartition / CandidateBitmap.** What `Retrograde` takes as sets, at the level
of words: result bits with plain loads and stores inside the worker's own range,
candidate bits of any position with a fetch-or that tells whether the bit is new,
and after the join a scan of one's range that clears it. `WorkPartition` is the
division into whole pages, each of whole words. Which positions a source marks
is arbitrary here.

**RecordStreams / FrontierStore.** What `Retrograde` takes as appended and visited
records. The abstract specification says that a visit meets the records of a
stream in its range, each as often as it was appended. The store buffers records,
writes blocks to the owner's temporary file, keeps first and last index of each,
and raises the longest distance by compare-and-swap; the disk may be full. A
visit is one step, since no append is concurrent with it. The two sides of
a store are like two distances, and one is modelled.

**SharedCache.** One slot of `EgtbSharedCache`. The C11 fragment the code uses is
modelled: each atomic location (sequence, tag, words) holds all its messages, a
load returns any that the thread's view allows, and acquire/release accesses and
fences move views. This is what makes the property mean something: under
sequential consistency the two sequence checks would be trivially enough.

**CacheResize.** `egtb_shared_cache_resize` and `..._discard_resize`. Migration
workers own slots of the old storage; destinations are those of the new size.

**DependencyPool.** The adaptive mode of dependency_resident.c. Memory is counted
in units of one page for each side with its slots, the same for all tables;
`mem` is `shared_allocated` with the sizes it consists of, `used` and `reserve` the
other two totals, `loan` the entries' `loan_base`, `trial` the transfer under
observation. A worker's step is a section under the mutex, or the load or
allocation between two of them; `asleep` are the waiters of `changed`. One
call of the coordinator is one action, as one call changes one cache or one
pair. Rates, timings, cooldowns and windows only choose among the steps that
the budget allows, and are not kept: the model allows each of these steps at
any quiescent moment. `mem.over` records that some allocation, also a temporary
one of a migration or of a discard, went beyond the budget.

### From a compiled table to a published one

**ConsistencyRepair.** `egtb_make_consistent_threaded` and its workers. `table` is
what the main thread writes, `snapshot` the flushed file that the workers read;
a pass is prepare - inspect - join - apply. The verified bitmap and the two
histograms are those of the code.

**Verification / CompiledFinish.** `verify_consistent_impl` with its rounds
(`TableWork` holds what they share with the repair: the ranges, and whether there are failures),
first mismatch per worker, examples and precedence of errors;
`egtb_finish_compiled` around it, with the one repair.

**SlicedGeneration.** Runs of the command over a directory. Disk state: `value`
(what each slice file holds), `manifest`, `work`, the published database; `run` is
the state of the running command and is lost when it crashes. A file holds the
"right" table or a "wrong" one; `GameGraphProofs!UniqueTable` is why "consistent
with right dependencies" means "right". `RotSlice` and `RotManifest` damage a file.

**SliceMerge.** `compile_slices` and `merge_worker_main`. The mapping from a slice's
entries to full indices is an arbitrary function, because the code is meant to
detect mappings that do not fit. The heap is modelled by what it yields, the
smallest next index.

**VerifyCheckpoint.** `verify_dtm` and, above it, `verify_all.py`. A process opens
the table, takes a fingerprint of all files, reads the checkpoint, verifies a
chunk, takes the fingerprint again and replaces the checkpoint; it may be killed
at any step, pause after some chunks, or meet a table that was replaced. A table
is replaced by renaming, as every writer in the repository does, so an open
handle keeps the old contents. `flaws` says which positions of which versions
disagree with their successors. A fingerprint is taken as the versions of all
files.

### Storage

**DurableTable / PageStore.** The abstract specification is a table with crashes:
the last value put is read; what was flushed survives; a page changed since may
come back with any value it has had since, or be refused, never with another. The
store is the directory and the blocks of the file behind the write-back cache of
the handle, the views of the workers, the page writers and the compact copy. A
block is a number of cells, each tagged with the content it was written for; a
page reads right only if all its cells belong to one content of the recorded
size, which is what the checksum decides. `MCPageStore!Refines` is the refinement,
with the table as seen through whoever may read it at that moment (`Latest`).

The callers' rules are part of the model, and each is kept by generator.c: the handle
is not used while views exist; it is flushed before read-only views are opened and its
cache shrunk before writable ones (closing a read-only view of a writable handle with
dirty pages would lose them; generator.c:1664 flushes first); nothing is read before
`egtb_prepare_compact` has run; the ranges of page writers are disjoint. A crash is the
end of the process, a single `pwrite` is not torn, and the only write that fails is
the one that finds no room.

**PageCodec.** Below `PageStore`, whose contents are abstract: half distances,
pairing of sides, places in a page, the byte stream with its escape, the
incremental page sum, in the three file versions. Zstandard is taken as exact, a
checksum as the values it is of.

**WdlTable / WdlStore.** `wdl.c` and `dtm_to_wdl.c`. The abstract specification: a
table is absent or the whole projection of one distance table, and a reader keeps
what it opened. The store: workers compress batches of pages, reserve an extent
under the lock, write it and their part of the directory; a failure cancels the
others; the file is renamed into place when complete. Readers that find no table
compile it, several processes at once, and any process may die, leaving its
temporary file. A read that fails takes the page out of its cache slot
(wdl.c:884). A distance table may be replaced in between; an existing WDL table
is never replaced for that reason (README.md:1477), so `RefinesTable` asks that it
be the projection of *one* version and not of the latest.

**WdlRegistry.** `gwdegtb.c`: attaching images and tables, the tiers a lookup goes
through, lazily opened distance tables, and the probes, which know the pages they
keep by the address of a handle - an address that the allocator may use again. The
caller keeps to gwdegtb.h: handles are unloaded only while there is no probe, distance
lookups come from one thread. Attaching another image for a material destroys the old
handle as well (gwdegtb.c:683-685), and neither gwdegtb.h:134 nor the manual
(README.md:1685) asks for the probes to be gone then, so the model lets it happen
under them. A lookup is one step: the code does not protect one that is still running
in another thread when its image is replaced, and the model leaves that out.

What holds then is `LookupIsRight`. A page in a probe that came from a replaced image
is harmless as long as no handle gets that address again, and the first image attached
after the probe was created cannot get it, since its handle is allocated before the
old one is destroyed. The second one can. Then the entry test (gwdegtb.c:846) takes
the old page for one of the new image - or, where two materials share a slot, for one
of the other material. The shortest such history has six steps: attach
an image, create a probe, look a page up, attach an image for that material again
(its handle is the second), attach one for another material (its handle gets the first
address), look up its page of the same number in the same slot. A caller is safe if
it destroys the probes before it attaches over an image, as it does before unloading.

### Algorithms

**Draughts / PaddedDraughts.** The two generators of movegen.c on a board of any even
size: captures with the majority rule by recursive search, quiet moves,
promotion, quiet predecessors, and the question whether there is a capture; the
second works on the padded bitboards of the fast path. Moves are a set; the
capacity of the move buffer (256) is not modelled.

**Material / PositionIndex / PositionWalk.** Materials, canonical orientation,
mirroring, the order of generation; the table of ways, ranking and unranking, full
and sliced, with numbers that do not reach 2^64. `PositionWalk` starts at
positions of some materials and plays and takes back moves, as the generator does.
`ValuesAreReady` is what `SlicedGeneration` takes from here as `Deps`: every move
leads to a position whose value exists by then.

**PrincipalVariation.** The walk of `dtm_pv.c` over abstract games with *arbitrary*
stored values, some missing: from each node it asks whether the value agrees with
its successors and with the value it came from, and plays a best move.

## 4. Runs

Modules that never act on each other share a run: in each behaviour one part works
and the others stay in an initial or ended state (`part`, or a stage called "elsewhere"). This costs
nothing, since no interleaving of independent parts is explored. Modules that do
act on each other are composed: verification inside finalisation, a repair inside
finalisation, the tool inside the script, the converter beside a reader.

| run | module / configuration | question | result |
|---|---|---|---|
| `retrograde` | MCRetrograde / Retrograde.cfg | Does the generator solve every game, and what happens at the end of the range or after a failure? | compiled tables are the consistent ones, no contradictory outcome, it gives up only where a distance leaves the range, it always ends |
| `table_check` | MCTableCheck / TableCheck.cfg | Are sparse passes, verified bitmap and histogram right? Can a wrong table be accepted, in any partition? | repairs end and leave a consistent table; the verdict and the examples do not depend on the partition; at most one repair |
| `repair_claim` | MCConsistencyRepair / RepairClaim.cfg | Does a repair always reach a fixed point? | **no**, see section 6 |
| `memory` | MCMemory / Memory.cfg | Can a lookup be torn, or wait? Do colliding migrations or failed allocations put a page where it does not belong? Do loads, growth, loans and transfers stay within the budget, and can each be taken back? | all as they should be; who asks for a table is answered |
| `slices` | SlicedGeneration / Slices.cfg | Can a crash, a bad file or a change of mode make a wrong database "verified"? Is work lost? Does a persistent operator get a database? | no, no, yes |
| `slice_claim` | SlicedGeneration / SliceClaim.cfg | Does the same command always resume? | **no**, see section 6 |
| `pages` | MCPageStore / Pages.cfg | Does the store implement a durable table, with crashes and a full disk? | yes; blocks never meet and caches agree |
| `checkpoint` | MCVerifyCheckpoint / Checkpoint.cfg | Can a position be skipped or a report be about other tables than it names? | no; whoever goes on gets an answer |
| `checkpoint_claim` | MCVerifyCheckpoint / CheckpointClaim.cfg | Also when a table is replaced while the tool opens it? | **no**, see section 6 |
| `workers` | MCWorkers / Workers.cfg | Is an append, a mark or an entry of a slice lost or met twice? | no, and the streams implement `RecordStreams`; a merge is exact or fails |
| `wdl` | MCWdl / Wdl.cfg | Can a reader see half a table, or a page of another image? | no, with failures, deaths and a replaced table |
| `algorithms` | MCAlgorithms / Algorithms.cfg | Do the algorithms compute what the generator relies on? | predecessors invert moves, the generators agree, indices are one to one, values are ready, pages read back, printed lines are what was promised |

Bounds, and why they are enough:

* `retrograde`: three positions and two sides give cycles of both parities, chains,
  a win that a shorter one overtakes, deferral behind an internal win, and two owners
  of which each marks candidates of the other. 9216 games mix these with external
  values; 10000 have long external wins and losses, so that with `MaxWin` 5 the last
  layers meet the end of the range. Nothing in the code depends on 32765 other than
  as the end. Failures happen only in the long games (`MayFail`), where there are
  more stages to fail in.
* Two workers show every pairwise race. A third appears in the merge, where uneven
  division needs it.
* `table_check`: every repair starts from one of the tables over two wrong values
  of 64 games, with `MaxWin` 3; finalisation starts from a compiled table, or from a
  verification that someone else calls; the latter has three positions that matter and
  chunks of one, so that one worker has two rounds.
* `memory`: a slot with two pages, two words and a sequence that ends at 5, which is
  two full publications and the retirement of the slot (a torn read needs one); a cache
  of up to five pages resized between 2, 3, 4 and 6 slots by two migration workers; tables of five, three and
  one units in a budget of seven: a donor that can give twice, a receiver, and
  a third table that is admitted while a transfer or a loan is outstanding. Two
  policies: `spare-budget` differs from `cost-gated` only in rates. Headroom and high
  water are scaled to the budget.
* `slices`: six slices (3 rows, 2 columns) contain a partial tile, a slice with two
  dependencies and one with none, in an order with tiles and one along diagonals; the
  other three orders are covered by the proof. One crash or failure and one
  damaged file suffice for each window between two writes.
* `pages`: two layouts, in instances of their own. An old file has two pages that hold
  both sides, contents of sizes 1 and 4 (so that a block outgrows its place and shrinks
  again), a handle with a cache of one or two slots, two disjoint views and one of both
  pages; nine cells of disk. A current file has two pages of two planes, two page writers
  that compile all four, and then the handle and a view; only such a file can be
  compiled (egtb.c:802). Five cells of disk hold two of its blocks. `Reserve` leaves room
  in a block, `Chunk` and `Batch` make the directory and a compilation several writes,
  and `MaxChanges` allows two changes of content apart from those of the page writers.
* `checkpoint`: two tables, the second with moves into the first, three positions in
  pages of two (a short last page), one replacement of each table and one stop.
* `workers`: seven positions in words of two bits give shared words and a short last
  page; two layers, since the second meets bitmaps that the first has cleared; blocks
  of two records and a file of three cells, so that the third block finds a full disk.
  The merge has five positions in pages of two (a short last page), four asked
  threads and three slots of work, and two slices of at most three entries each, complete,
  overlapping, short or out of order, up to an exchange of the two.
* `wdl`: three pages in batches of two, so that two workers race for extents and one is
  implicit (all draws); two versions of the distance table. The registry has two
  materials, three images, one with a damaged page, three addresses, and caches of one
  and of three pages; its probes and its other tables share nothing but the last answer
  and are checked apart.
* `algorithms`: a king and a man, or two men, against a man on a board of 6 by 6 with
  all their captures, promotions and predecessors; tables of three positions, two per page, over
  values on either side of a byte and at the ends of the range, written up to
  twice, and blocks damaged in the codec; five nodes in three games with values from
  one range around zero and a limit of four plies, as many as the longest loss has.

Bounds that are only there to stop TLC are named: `SeqMax` (also a real limit in
the code), `MaxFaults`, `MaxRots`, `MaxChanges`, `MaxVersion`, `MaxStops`,
`MaxRecords`, `Layers`, `MaxStores`.

Fairness:

* `Retrograde`, `ConsistencyRepair`, `CompiledFinish`: weak fairness
  of the workers' steps and of the main thread (of either as one step in
  `CompiledFinish`). They are ordinary threads; the
  main thread joins each worker it started, and no worker waits for another.
* `SharedCache`: weak fairness of *one* thread, `Survivor`. The others may stop
  anywhere, also in the middle of a publication.
* `DependencyPool`: weak fairness of every worker thread; none of the coordinator.
* `SlicedGeneration`: weak fairness of the running command (`Step`), and strong
  fairness of `Retry` and `DeleteWorkspace`, which is the definition of an
  operator who keeps trying. It is used by `Completes` only. Faults are finite.
* `VerifyCheckpoint`: weak fairness of the tool and of the script, and strong fairness
  of `NewCheckpoint`, the user who removes a checkpoint that is refused.
* The merge needs none: `MergeIsRight` says that no worker gets stuck - some
  step is enabled until all have ended - and each step uses up something.

`CHECK_DEADLOCK FALSE` is used in `memory`, where the pool stops when every worker has
failed and the other parts end at their bounds; in `workers`, whose bounds stop it and
whose merge ends; and in `algorithms`, whose sequential parts end.

## 5. Proofs

All are checked by TLAPS for every value of the constants, under the assumptions
next to each declaration: `MaxWin` is odd, owners map positions to workers, games
are well-formed, sizes are positive. No finiteness of `Index` or `Worker`
is assumed, except that a repair, which counts entries, is about finitely many
positions (`PositionsAssumption`), and a merge, which adds up parts, about finitely many
slices (`MergeAssumption`). Each invariant below was first checked by TLC as
an invariant of the run of its component.

**`GameGraphProofs`.** `UniqueTable`: two consistent tables of one game are equal.
By induction on the distance (as the least natural number at which they differ):
a shortest disagreeing value has a successor that decides it, and that
successor is shorter. It is why verification establishes correctness and not
only self-consistency.

**`RetrogradeProofs`.**

* `TypeCorrect` and `NeverConflict`. The worker's error branches
  "conflicting frontier outcomes" and "losing position also proved won" cannot be
  reached. `NoConflict` is not inductive: that no position is recorded both won
  and lost follows from why it was recorded, so `ConflictInv` adds that each
  recorded win has a move to a recorded or external loss (`WinJustified`), that
  each recorded loss has only moves to recorded wins (`LossJustified`), that
  outcome bits and candidates are backed by records, and the parities of layers.
  `Exclusive` then follows at each append.
* `CompiledCorrect`: what the generator compiles is the consistent table, whatever
  the order of the workers. `SolutionInv` has two halves. Sound: every record is
  initial or the value of a best move one ply longer than a record
  (`RecordsSound`), so is every deferral. Complete: once a layer is backed up, every
  win that follows from its losses and every loss that follows from its wins is
  recorded, but for the candidates the workers still have to look at
  (`WinComplete`, `LossComplete`); the outcome bits are exactly the records that
  have been shown (`BitsExact`). At the end nothing is awaited, so the records
  are those of a solved game (`SolvedRecords`); by least distance, the shortest
  record of each position is then what its successors call for.
* `GivesUpCorrect`: the generator gives up only if a value from another table is longer
  than EGTB_MAX_WIN_DTM, or if the solved records contain a loss that is, in which
  case every consistent table has one (`RangeInv`). The longest loss that a file can
  hold, EGTB_MAX_LOSS_DTM, is such a value: the generator can be given one, or derive
  one from an external win, but stops before the layer that would back it up
  (generator.c:2217) and completes no table that holds one.

**`TableProofs`**, about what happens to a compiled table.

* `RepairCorrect` and `RepairSolves`: a repair that reports success leaves the only
  consistent table, from whatever table it started. `RepairInv` says that the
  snapshot is fresh, that every position - inspected, or skipped because nothing near
  it changed - is corrected if it is wrong, that the table between two passes is what
  the snapshot calls for (`WrittenIsExpected`, why sparse passes may skip), and that
  after n passes all distances below n are final (`PassesSettle`, which bounds the
  number of passes).
* `HistogramCorrect`: the histograms of the workers count the table's values at the
  places the first pass has come to, and at all of them ever after (`HistogramInv`).
* `VerdictCorrect` and `VerdictElsewhere`: what no longer has to be looked at was looked
  at by a worker that is still looking, or else says so (`VerdictInv`); hence an accepted
  table is consistent, and no failed read or thread passes for a mismatch, which
  would have the file rewritten. `PublishedCorrect`: what the workers read is the
  file, and a verdict is about it (`FinishInv`), so only a consistent table is
  published.
* `ExamplesCorrect` and `ExamplesElsewhere`: merging an example keeps, of every kind,
  one that nothing merged so far is ahead of (`MergedFacts`, from the order `BeatsOrder`
  and `BeatsOnce`), so a worker keeps one for each position it looked at
  (`ExamplesInv`), and the merge of all workers, a fold over a finite set in any order,
  keeps those (`FoldKeeps`). The partition plays no part in it. TLC found no violation
  of `ExamplesInv` (in `KeptInv`) on the instance of `table_check` before it was proved.

**`VerifyCheckpointProofs`.** `CheckpointCorrect` and `VerifiedCorrect`: wherever runs
are killed or interrupted, a checkpoint covers only positions that were checked in
the files it names, and a reported table is consistent in the files the script
started with. The hypothesis is `~EarlyReplace`: a table is not replaced
between its opening and its fingerprint. The code does not ensure this, and
`checkpoint_claim` shows what happens otherwise (section 6). `CheckpointInv` says that
what is opened after the fingerprint is never older than it (`HandlesInv`), so that
an equal fingerprint afterwards means equal files; and that in the last chunk
positions are right in the fingerprinted or in the open files (`CheckedInv`).

**`PublishedProofs`**, about what the commands leave under the name of a table.
Sliced generation: `TypeCorrect`; `InvariantCorrect`, that `VerifiedInv` is
inductive - it says which slices a run may treat as complete and as verified,
in terms of files, manifest and order; from it `VerifiedCorrect` (a database
reported as verified is right) and `EvidenceCorrect` (the manifest never vouches
for a wrong slice). `DependenciesCorrect`: in all five orders a slice follows
those it probes, for every number of rows and columns, partial tiles included.
The key lemma is `DepsNotAfter`, which compares tiles by `\div` monotonicity.
`WorkKept`: no step and no crash removes a finished slice before the database
is there (`CleanupInv`), an action property.

The WDL store: `FileCorrect`, the extents of a published file are disjoint and leave
no cell of it out, and `TableCorrect`, the store implements `WdlTable`. Both follow from
`WdlInv`, whose main part is about one compilation (`JobInv`). `ProgressInv` says how
far each worker has come in its share. `CellsInv`: the directory leads to every page
that has been placed, with the cells of that page there, and what a worker has reserved
lies below the next free place - which is what the lock around the reservation is for.
`ExtentsInv`: what is placed and what is reserved is disjoint, and unless a worker has
failed it is all below the next free place. A job that completes has therefore placed
every page of one version (`CompleteProjects`); only such a file gets the name, and
handles and images are taken from files with the name. `WdlInv` also says that a process
knows a size other than 0 only if there is a file, because a caller that was told a size
loads the image without asking again whether there is one. The registry:
`LookupCorrect`, with images attached under live probes. Every page in a probe belongs
to an image whose handle has been at that address since the probe was created
(`ProbesInv`), and as long as at most one image was attached since then no address has
had two (`HistoryInv`). With more, an address that was used again makes an old page
answer for a new image; that much, and no more, the theorem concedes.

**`WorkersProofs`.** The ranges of the partition are disjoint, cover the positions and
begin at words (`WordFacts` and what follows it), so a worker's plain load and store
meet no other worker's (`SettledInv`). With that, `MarksCorrect`: a fetch-or tells one
worker that a bit is new, and no mark is lost; `CandidatesCorrect`: what has been
handed out of a range is what the scan has passed (`CandidatesInv`), so each
candidate is handed out exactly once. `MaximumCorrect`: a record beyond the longest
distance belongs to a worker that is about to raise it, and what that worker
observed was never more (`MaximumInv`). `StreamsCorrect`: the store implements
`RecordStreams`. A block lies below the end of its file, where the next one is
written, so it stays whole, and its records are within its bounds (`BlocksInv`); so
what can be read of a stream is all that was appended (`StoredFacts`), a flush does
not change it (`FlushKeeps`), and a visit gets what is in its range, whichever blocks
it skips (`VisitMeets`). What the proof needs of sequences of sequences is proved
once, by least counterexample: `FlattenSeq` of a longer or of two sequences, and what
a range takes of them (`FlattenAppend`, `FlattenConcat`, `PassedFlatten`). `MergeCorrect`: a
merge that ends well is exact, whatever the slices hold. `MergeInv` has three parts. The
parts of one slice follow each other and are all of it (`PartsInv`); this comes from the
checks of the division, not from the search, whose result may be anything if a slice is
out of order. A worker has collected, for each index between its first and the one it
expects, an entry that maps to it, and nothing it took is left out (`WorkInv`). No
worker is left out, failed or cancelled when the merge ends well (`EndedInv`). That the
ranges of pages cover the database is arithmetic on `\div` and `%`. `MergeAccepts`: right
input is never refused, unless a file or a thread fails. In slices that restrict the
enumeration, the binary search finds a boundary that separates what is below its
target (`SearchFinds`, `BoundarySeparates`); the parts of the slices then hold each
index of a worker's range once, so their lengths add up to it (`PartsAddUp`, by
induction over sets of slices), and each part begins where the one before it ends
(`DivisionAccepted`). The entry a worker expects is in its heap or behind a smaller
one (`ExpectedIsLoaded`), and nothing in the heap is below what it expects
(`OnTrack`): the smallest entry is the expected one.

**`MemoryProofs`.** `HitCorrect`: no torn read on C11 relaxed memory. The n-th
message of the sequence is the number n - 1, and the k-th publication adds message
k + 1 to the tag and to each word; whoever knows of its end sees nothing older, and
whoever has read from it knows of its beginning (`SlotInv`). A reader that accepts
has seen the same even number twice, around loads of the tag and a word; so both
loads returned messages of one publication. The views in `SlotInv` are where the
release and acquire fences come in. `ResizeCorrect`: each slot of the new storage
is vacant, holds a page of an old slot that is done with, or is being filled by
the one worker that claimed it, and each page that is done with is in its slot or found it
taken by another (`ResizeInv`); so a resize, one that fails included, leaves whole
pages at their places only. `MemoryCorrect` is about the pool (`PoolInv`). What is
allocated is the sum of the caches and of those being created, each by the one
worker that will say how it ended (`CallsInv`); the total over the tables changes by
what one table changes (`TotalStep`, proved by least counterexample). A transfer is
`Recoverable`: with what is reserved, either order of sizes has room, and an active
one, which may lose a cache to the fallback, has a page more than its caches had
before. Each outcome of a resize keeps the account (`CoordinatedFacts`), and each
outcome of a transfer or of its recovery either has the old sizes back or is
recoverable still, with the same goal (`UndoneFacts`, `IdleTransferFacts`,
`ActiveTransferFacts`; `Held`). A loan is less than what its borrower has or will
have again, and while there is no transfer a page is free for giving it back
(`LoansInv`); a reserve does without this only because it holds that page itself.

**`PageStoreProofs`.** `PagesCorrect`: no two pages have a cell of the file in common, in
memory or in the directory on disk, and no cache that may be read differs from what is
stored. Its assumptions on the constants are `StoreConstants`, which TLC evaluates for
both layouts of `MCPageStore`. That directory entries are disjoint is not inductive:
a block that is being stored is in no directory yet, nor is an extent that a page writer
has claimed; and the directory on disk may lead to an older block of a page than the
one in memory. Rather than compare all of these in pairs, `StoreInv` says that there *is*
an assignment of the cells to pages (`OwnInv`) under which every entry, in memory or on
disk, every block being stored, and every extent being written lies in cells of its own
page (`EntriesInside`, `StoresRight`, `ExtentsRight`). A step that appends extends the assignment
to the new cells, all other steps keep it. That appends do not overlap comes from
`ActorsInv`: who holds the mutex, who may be in the middle of what, which views exist
together. `CoherenceInv` says that a cache that may be read holds what the directory
leads to, or something dirty; a page is read by at most the handle or the views over
it, and dirty in one of them only (`SoleHolder`).

`StoreRefines`: the store implements `DurableTable`. The table is mapped to `Latest`: the
content that is pending for a page, in one dirty slot or in the batch of one writer
(`OneHolder`, `OneBatch`), or else what the directory in memory leads to. The history
variables `possible`, `changes` and `gaveUp`, which stand for no code, record what the
callers have put since it was last made durable, how often, and that a write failed.
`HistoryInv` ties them to the state: whatever is pending is in `possible`, each entry
of both directories reads as a content in it, or as nothing if there is more than one,
and a flush that writes the directory has the pages it is past on disk as they are in
memory. A block that is half stored reads as nothing because
its cells do not all belong to one content of its size (`Decode`); an entry whose offset
was set before its length is refused at opening (`Valid`), which is why the abstract crash
may refuse the whole table. A step of the store that only moves a page from a slot or a
batch or an entry from memory to the file is a stutter, and the last step of a flush is
the `Sync` of all the pages it is about. A batch is written without a look at what it overwrites; that it
overwrites nothing is `ExtentsApart`: what a writer has reserved meets no block that
either directory leads to, nor what another has reserved. TLC found no violation of
`HistoryInv` and `ExtentsApart` on the planar layout, with a larger disk than that of
`pages`, before they were proved.

Only model-checked:

* All liveness properties, and what is about ENABLED: that workers of a merge never
  get stuck (`NeverStuck`, part of `MergeIsRight`). Both are out of the prover's reach.
* The algorithms are recursive, which puts them out of the prover's reach: what
  they compute is checked over bounded inputs only.

## 6. Where the code and its documentation disagree

* `repair_claim`. generator.h:239 says repair recomputes values "until a fixed
  point". A wrong win on a cycle of drawn positions justifies its neighbour's
  loss one ply later, and so on around the cycle; the value grows from pass to
  pass until it is out of range, and the repair *fails*, although the all-draw
  fixed point exists. Nothing wrong is published. A table written by the
  generator does not contain such a cycle (`CompiledIsConsistent`).
* `slice_claim`. README.md:595-598 says that restarting the same command resumes
  at the first missing slice. A slice is renamed into place (sliced.c:675) before
  the manifest that vouches for it (sliced.c:1091); after a crash in between,
  verified modes refuse the workspace with "slice is NOT VERIFIED" until the
  operator removes that slice. Nothing wrong is accepted (`EvidenceIsSound`).
* `checkpoint_claim`. `verify_dtm` opens the table (verify_dtm.c:611) before it takes
  the fingerprint of the files (verify_dtm.c:621). A table that is replaced in
  between is checked in its old version and fingerprinted in its new one; every
  later comparison agrees, and the new table is reported VERIFIED without having
  been looked at. README.md:198-205 says that a checkpoint advances only over
  verified chunks and that a replaced file is refused. The run `checkpoint` leaves
  only this window out (`EarlyReplace`), and there the report is right.

## 7. What is not modelled

* Progress output and statistics: they feed no decision.
* The legacy scan generators and the sequential repair, which the tools do not call.
* Tests and benchmarks, and with them combinatorial_index.c, an alternative index
  that only a test and a benchmark use.
* The fixed-size mode of the dependency pool and its measurements. Its report
  subtracts `loan_base` from the payload (dependency_resident.c:1579, 1641), which
  wraps while a borrower serves as donor of an active transfer: the number is
  printed and decides nothing.
* Argument parsing, the parsing and printing of positions, file names, and the reporting tools other
  than `dtm_pv`, which read a table once and print.
* External code: Zstandard and CRC32C are taken as exact, POSIX calls by what the
  callers rely on, allocation as succeeding where a failure only ends the call.
