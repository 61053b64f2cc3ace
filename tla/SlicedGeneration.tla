-------------------------- MODULE SlicedGeneration --------------------------
(***************************************************************************)
(* One material's database, generated by any number of runs of the command *)
(* generate_egtb over the same directory (generate_egtb.c main, sliced.c   *)
(* egtb_generate_sliced and its helpers).                                  *)
(*                                                                         *)
(* On disk: the slices of the workspace, the manifest that says which of   *)
(* them were verified, the unpublished work file and the published         *)
(* database.  In memory: what the running command knows.  Between any two  *)
(* writes the command may crash or fail, and a file may rot; the operator  *)
(* may start the command again in another verification mode, with another  *)
(* traversal order, sliced or not, with or without --restart.              *)
(*                                                                         *)
(* Contents are abstracted to "right" (the distances that the rules give)  *)
(* and "wrong" (anything else that is readable).  A table that is          *)
(* consistent with right dependencies is the right one                     *)
(* (GameGraphProofs!UniqueTable), so a verification establishes "right"    *)
(* exactly when the slices it probes are right.                            *)
(***************************************************************************)
EXTENDS Naturals, FiniteSets

CONSTANTS
    Rows, Columns,  \* numbers of frontier rows of White's and Black's men
    Modes,          \* the values of --verification the operator uses
    Orders,         \* the values of EGTB_SLICE_ORDER the operator uses
    Sliced,         \* whether --sliced is given: a subset of BOOLEAN
    MaxFaults,      \* bound: crashes and failed operations
    MaxRots,        \* bound: files that become unreadable
    Deletes         \* does the operator ever delete a refused workspace?

ASSUME RowsAssumption == Rows \in Nat \ {0} /\ Columns \in Nat \ {0}
ASSUME ModesAssumption == Modes \subseteq {"full", "slices", "none"}
ASSUME OrdersAssumption ==
    Orders \subseteq {"row", "column", "tile2", "tile3", "diagonal"}
ASSUME BoundsAssumption == MaxFaults \in Nat /\ MaxRots \in Nat
ASSUME ChoicesAssumption == Sliced \subseteq BOOLEAN /\ Deletes \in BOOLEAN

VARIABLES
    value,      \* slice -> "absent", or what its published file holds
    rotten,     \* the published slices that no longer decode
    manifest,   \* the slices the manifest records with passes > 0
    intact,     \* the manifest's checksum is right (or there is no manifest)
    work,       \* the unpublished database, X.dtm.incomplete
    output,     \* the published database, X.dtm
    report,     \* the verification mode in the log of that database
    pc,         \* where the running command is
    run,        \* its arguments
    todo,       \* slices that its traversal has not reached
    completed,  \* slices it takes as complete
    passes,     \* slices with consistency_passes > 0 in its statistics
    current,    \* the slice it generates
    draft,      \* what that slice's .incomplete file holds
    refused,    \* the workspace was refused by the last run
    faults, rots

disk == <<value, rotten, manifest, intact, work, output, report>>
memory == <<run, todo, completed, passes, current, draft>>
vars == <<disk, memory, pc, refused, faults, rots>>

Slices == (0 .. Rows - 1) \X (0 .. Columns - 1)

(***************************************************************************)
(* A quiet man move takes a position to the same slice or to one whose     *)
(* white or black frontier is one row closer to promotion; captures and    *)
(* promotions leave the material.                                          *)
(***************************************************************************)
Deps(s) ==
    {d \in Slices : \/ d[1] + 1 = s[1] /\ d[2] = s[2]
                    \/ d[1] = s[1] /\ d[2] + 1 = s[2]}

(***************************************************************************)
(* slice_order_build: the slice a comes before b.                          *)
(***************************************************************************)
RowOrder(a, b) == a[1] < b[1] \/ (a[1] = b[1] /\ a[2] < b[2])
ColumnOrder(a, b) == a[2] < b[2] \/ (a[2] = b[2] /\ a[1] < b[1])
(* Mutant: the diagonals are taken from the far end. *)
DiagonalOrder_Backwards(a, b) ==
    \/ a[1] + a[2] > b[1] + b[2]
    \/ a[1] + a[2] = b[1] + b[2] /\ a[1] < b[1]

DiagonalOrder(a, b) ==
    \/ a[1] + a[2] < b[1] + b[2]
    \/ a[1] + a[2] = b[1] + b[2] /\ a[1] < b[1]
Tile2(s) == <<s[1] \div 2, s[2] \div 2>>
Tile3(s) == <<s[1] \div 3, s[2] \div 3>>

Before(order, a, b) ==
    CASE order = "row" -> RowOrder(a, b)
      [] order = "column" -> ColumnOrder(a, b)
      [] order = "diagonal" -> DiagonalOrder(a, b)
      [] order = "tile2" -> IF Tile2(a) = Tile2(b)
                            THEN RowOrder(a, b)
                            ELSE RowOrder(Tile2(a), Tile2(b))
      [] order = "tile3" -> IF Tile3(a) = Tile3(b)
                            THEN RowOrder(a, b)
                            ELSE RowOrder(Tile3(a), Tile3(b))

IsNext(order, s) == s \in todo /\ \A u \in todo \ {s} : Before(order, s, u)

Checked == run.mode # "none"       \* !skip_verification

NoRun == [mode |-> "none", sliced |-> FALSE, order |-> "row",
          restart |-> FALSE]

-----------------------------------------------------------------------------

Init ==
    /\ value = [s \in Slices |-> "absent"]
    /\ rotten = {}
    /\ manifest = {}
    /\ intact = TRUE
    /\ work = "absent"
    /\ output = "absent"
    /\ report = "none"
    /\ pc = "stopped"
    /\ run = NoRun
    /\ todo = {}
    /\ completed = {}
    /\ passes = {}
    /\ current = <<0, 0>>
    /\ draft = "wrong"
    /\ refused = FALSE
    /\ faults = 0
    /\ rots = 0

(* The command ends; nothing it knew survives. *)
Stop ==
    /\ pc' = "stopped"
    /\ run' = NoRun
    /\ todo' = {}
    /\ completed' = {}
    /\ passes' = {}
    /\ current' = <<0, 0>>
    /\ draft' = "wrong"

(* The operator starts the command. *)
Launch(m, o, sl, r) ==
    /\ pc = "stopped"
    /\ pc' = "restart"
    /\ run' = [mode |-> m, sliced |-> sl, order |-> o, restart |-> r]
    /\ refused' = FALSE
    /\ UNCHANGED <<disk, todo, completed, passes, current, draft,
                   faults, rots>>

(* prepare_restart: existing files are in the way, or go with --restart. *)
RefuseFiles ==
    /\ pc = "restart"
    /\ ~ run.restart
    /\ work # "absent" \/ output # "absent"
    /\ Stop
    /\ UNCHANGED <<disk, refused, faults, rots>>

RemoveWork ==
    /\ pc = "restart"
    /\ run.restart
    /\ work # "absent"
    /\ work' = "absent"
    /\ UNCHANGED <<value, rotten, manifest, intact, output, report,
                   memory, pc, refused, faults, rots>>

RemoveOutput ==
    /\ pc = "restart"
    /\ run.restart
    /\ work = "absent"
    /\ output # "absent"
    /\ output' = "absent"
    /\ UNCHANGED <<value, rotten, manifest, intact, work, report,
                   memory, pc, refused, faults, rots>>

Begin ==
    /\ pc = "restart"
    /\ work = "absent"
    /\ output = "absent"
    /\ pc' = IF run.sliced THEN "workspace" ELSE "create"
    /\ UNCHANGED <<disk, memory, refused, faults, rots>>

-----------------------------------------------------------------------------
(* prepare_workspace. *)

Present == {s \in Slices : value[s] # "absent"}
Valid_Present == Present   \* Mutant: only the existence of the file is checked

Valid == Present \ rotten           \* completed_slice_valid

(* The manifest is damaged, or a slice has no evidence of verification. *)
Unacceptable == ~ intact \/ (Checked /\ ~ Valid \subseteq manifest)

RefuseWorkspace ==
    /\ pc = "workspace"
    /\ Unacceptable
    /\ refused' = TRUE
    /\ Stop
    /\ UNCHANGED <<disk, faults, rots>>

OpenWorkspace ==
    /\ pc = "workspace"
    /\ ~ Unacceptable
    /\ completed' = Valid
    /\ passes' = manifest
    /\ todo' = Slices
    /\ pc' = "record"
    /\ UNCHANGED <<disk, run, current, draft, refused, faults, rots>>

(* Mutant: statistics of slices that are not complete are listed, too. *)
WriteManifest_All ==
    /\ pc = "record"
    /\ manifest' = passes
    /\ intact' = TRUE
    /\ pc' = "slice"
    /\ UNCHANGED <<value, rotten, work, output, report, memory,
                   refused, faults, rots>>

(* write_manifest: an atomic replacement with the completed slices. *)
WriteManifest ==
    /\ pc = "record"
    /\ manifest' = passes \intersect completed
    /\ intact' = TRUE
    /\ pc' = "slice"
    /\ UNCHANGED <<value, rotten, work, output, report, memory,
                   refused, faults, rots>>

-----------------------------------------------------------------------------
(* The traversal: egtb_generate_sliced and generate_one_slice. *)

Reuse(s) ==
    /\ pc = "slice"
    /\ IsNext(run.order, s)
    /\ s \in completed
    /\ todo' = todo \ {s}
    /\ UNCHANGED <<disk, run, completed, passes, current, draft, pc,
                   refused, faults, rots>>

(* The compiler probes the neighbouring slices; their absence is an error. *)
CompileSlice(s) ==
    /\ pc = "slice"
    /\ IsNext(run.order, s)
    /\ s \notin completed
    /\ IF Deps(s) \subseteq Present
       THEN /\ current' = s
            /\ draft' \in {"right", "wrong"}
            /\ pc' = "verify"
            /\ UNCHANGED <<run, todo, completed, passes>>
       ELSE Stop
    /\ UNCHANGED <<disk, refused, faults, rots>>

(* egtb_finish_compiled: the draft becomes consistent with the slices it   *)
(* probes.                                                                 *)
VerifySlice ==
    /\ pc = "verify"
    /\ IF ~ Checked THEN UNCHANGED draft
       ELSE IF \A d \in Deps(current) : value[d] = "right"
            THEN draft' = "right"
            ELSE draft' \in {"right", "wrong"}
    /\ pc' = "publish_slice"
    /\ UNCHANGED <<disk, run, todo, completed, passes, current,
                   refused, faults, rots>>

(* egtb_publish, then the statistics and the completed flag in memory. *)
PublishSlice ==
    /\ pc = "publish_slice"
    /\ value' = [value EXCEPT ![current] = draft]
    /\ rotten' = rotten \ {current}
    /\ passes' = IF Checked THEN passes \union {current}
                            ELSE passes \ {current}
    /\ completed' = completed \union {current}
    /\ todo' = todo \ {current}
    /\ pc' = "record"
    /\ UNCHANGED <<manifest, intact, work, output, report, run, current,
                   draft, refused, faults, rots>>

(* Mutant: the slices go as soon as the merged file is complete. *)
Merge_Cleans ==
    /\ pc = "slice"
    /\ todo = {}
    /\ Valid = Slices
    /\ work' = IF \A s \in Slices : value[s] = "right"
               THEN "right" ELSE "wrong"
    /\ value' = [s \in Slices |-> "absent"]
    /\ pc' = "finish"
    /\ UNCHANGED <<rotten, manifest, intact, output, report, memory,
                   refused, faults, rots>>

(* Mutant: the merged file keeps its temporary name. *)
Merge_NoRename ==
    /\ pc = "slice"
    /\ todo = {}
    /\ Valid = Slices
    /\ pc' = "finish"
    /\ UNCHANGED <<disk, memory, refused, faults, rots>>

(* compile_slices: reads every page of every slice. *)
Merge ==
    /\ pc = "slice"
    /\ todo = {}
    /\ IF Present = Slices /\ rotten = {}
       THEN /\ work' = IF \A s \in Slices : value[s] = "right"
                       THEN "right" ELSE "wrong"
            /\ pc' = "finish"
            /\ UNCHANGED <<memory>>
       ELSE Stop /\ UNCHANGED work
    /\ UNCHANGED <<value, rotten, manifest, intact, output, report,
                   refused, faults, rots>>

-----------------------------------------------------------------------------
(* Without --sliced the work file is created first and filled then. *)
CreateDatabase ==
    /\ pc = "create"
    /\ work' = "wrong"
    /\ pc' = "compile"
    /\ UNCHANGED <<value, rotten, manifest, intact, output, report, memory,
                   refused, faults, rots>>

CompileDatabase ==
    /\ pc = "compile"
    /\ work' \in {"right", "wrong"}
    /\ pc' = "finish"
    /\ UNCHANGED <<value, rotten, manifest, intact, output, report, memory,
                   refused, faults, rots>>

(* Mutant: mode "slices" never verifies the database as a whole. *)
VerifyFinal_FullOnly == run.mode = "full"

VerifyFinal == run.mode = "full" \/ (~ run.sliced /\ run.mode = "slices")

(* egtb_finish_compiled on the whole database, or statistics only. *)
Finish ==
    /\ pc = "finish"
    /\ work' = IF VerifyFinal THEN "right" ELSE work
    /\ pc' = "publish"
    /\ UNCHANGED <<value, rotten, manifest, intact, output, report, memory,
                   refused, faults, rots>>

Publish ==
    /\ pc = "publish"
    /\ output' = work
    /\ work' = "absent"
    /\ report' = run.mode
    /\ IF run.sliced
       THEN \/ /\ pc' = "cleanup"
               /\ todo' = Slices
               /\ UNCHANGED <<run, completed, passes, current, draft>>
            \/ Stop                              \* EGTB_KEEP_SLICES
       ELSE Stop
    /\ UNCHANGED <<value, rotten, manifest, intact, refused, faults, rots>>

-----------------------------------------------------------------------------
(* egtb_sliced_cleanup goes on after a file that it cannot remove. *)

RemoveSlice(s) ==
    /\ pc = "cleanup"
    /\ IsNext("row", s)
    /\ todo' = todo \ {s}
    /\ \/ /\ value' = [value EXCEPT ![s] = "absent"]
          /\ rotten' = rotten \ {s}
          /\ UNCHANGED faults
       \/ /\ faults < MaxFaults
          /\ faults' = faults + 1
          /\ UNCHANGED <<value, rotten>>
    /\ UNCHANGED <<manifest, intact, work, output, report, run, completed,
                   passes, current, draft, pc, refused, rots>>

RemoveManifest ==
    /\ pc = "cleanup"
    /\ todo = {}
    /\ manifest' = {}
    /\ intact' = TRUE
    /\ Stop
    /\ UNCHANGED <<value, rotten, work, output, report, refused, faults, rots>>

-----------------------------------------------------------------------------
(* The environment. *)

(* A crash, or an operation that fails and ends the run. *)
Crash ==
    /\ pc # "stopped"
    /\ faults < MaxFaults
    /\ faults' = faults + 1
    /\ Stop
    /\ UNCHANGED <<disk, refused, rots>>

RotSlice(s) ==
    /\ rots < MaxRots
    /\ s \in Present \ rotten
    /\ rotten' = rotten \union {s}
    /\ rots' = rots + 1
    /\ UNCHANGED <<value, manifest, intact, work, output, report, memory, pc,
                   refused, faults>>

RotManifest ==
    /\ rots < MaxRots
    /\ intact
    /\ manifest # {}
    /\ intact' = FALSE
    /\ rots' = rots + 1
    /\ UNCHANGED <<value, rotten, manifest, work, output, report, memory, pc,
                   refused, faults>>

(* "use ... a fresh workspace" *)
DeleteWorkspace ==
    /\ Deletes
    /\ pc = "stopped"
    /\ refused
    /\ value' = [s \in Slices |-> "absent"]
    /\ rotten' = {}
    /\ manifest' = {}
    /\ intact' = TRUE
    /\ refused' = FALSE
    /\ UNCHANGED <<work, output, report, memory, pc, faults, rots>>

Step ==
    \/ RefuseFiles \/ RemoveWork \/ RemoveOutput \/ Begin
    \/ RefuseWorkspace \/ OpenWorkspace \/ WriteManifest
    \/ \E s \in Slices : Reuse(s) \/ CompileSlice(s) \/ RemoveSlice(s)
    \/ VerifySlice \/ PublishSlice \/ Merge
    \/ CreateDatabase \/ CompileDatabase \/ Finish \/ Publish
    \/ RemoveManifest

Environment ==
    \/ \E m \in Modes, o \in Orders, sl \in Sliced, r \in BOOLEAN :
           Launch(m, o, sl, r)
    \/ Crash
    \/ \E s \in Slices : RotSlice(s)
    \/ RotManifest
    \/ DeleteWorkspace

Next == Step \/ Environment

Spec == Init /\ [][Next]_vars

(***************************************************************************)
(* A running command goes on.  An operator who keeps trying with --restart *)
(* until there is a database, and who heeds the advice to start from a     *)
(* fresh workspace, does both eventually.                                  *)
(***************************************************************************)
Retry == output = "absent" /\ \E m \in Modes, o \in Orders, sl \in Sliced :
                                  Launch(m, o, sl, TRUE)

PersistentSpec ==
    Spec /\ WF_vars(Step) /\ SF_vars(Retry) /\ SF_vars(DeleteWorkspace)

-----------------------------------------------------------------------------

Contents == {"right", "wrong"}

TypeOK ==
    /\ value \in [Slices -> Contents \union {"absent"}]
    /\ rotten \subseteq Slices
    /\ manifest \subseteq Slices
    /\ intact \in BOOLEAN
    /\ work \in Contents \union {"absent"}
    /\ output \in Contents \union {"absent"}
    /\ report \in Modes \union {"none"}
    /\ pc \in {"stopped", "restart", "workspace", "record", "slice",
               "verify", "publish_slice", "create", "compile", "finish",
               "publish", "cleanup"}
    /\ run \in [mode : Modes \union {"none"}, sliced : BOOLEAN,
                order : Orders \union {"row"}, restart : BOOLEAN]
    /\ todo \subseteq Slices
    /\ completed \subseteq Slices
    /\ passes \subseteq Slices
    /\ current \in Slices
    /\ draft \in Contents
    /\ pc \in {"compile", "finish", "publish"} => work # "absent"
    /\ refused \in BOOLEAN
    /\ faults \in 0 .. MaxFaults
    /\ rots \in 0 .. MaxRots

(***************************************************************************)
(* A database whose log says that it was verified holds the right          *)
(* distances: in mode "full" because of the last scan, in mode "slices"    *)
(* only because every slice that was ever reused had been verified, by     *)
(* whatever sequence of runs, crashes, damaged files and other modes.      *)
(***************************************************************************)
VerifiedIsRight == output # "absent" /\ report # "none" => output = "right"

(***************************************************************************)
(* The evidence in the manifest never vouches for a wrong slice, not even  *)
(* when the slice it was written for is gone and another takes its place.  *)
(***************************************************************************)
EvidenceIsSound == \A s \in manifest : value[s] \in {"right", "absent"}

(***************************************************************************)
(* In each of the five orders, and on whatever workspace the run resumed,  *)
(* the slices that a slice probes exist when it is compiled.               *)
(***************************************************************************)
DependenciesFirst ==
    \A s \in Slices : pc = "slice" /\ IsNext(run.order, s)
                          => Deps(s) \subseteq Present

(***************************************************************************)
(* A slice file disappears only when its database has been published, or   *)
(* when the operator deletes the workspace: no failure loses work.         *)
(***************************************************************************)
WorkIsKept ==
    [][\A s \in Slices : value[s] # "absent" /\ value'[s] = "absent"
                             => output # "absent" \/ DeleteWorkspace]_vars

(***************************************************************************)
(* A persistent operator gets a database.                                  *)
(***************************************************************************)
Completes == <>(output # "absent")

(***************************************************************************)
(* README.md:595: restarting the same command resumes at the first missing *)
(* slice; a workspace is not refused.                                      *)
(***************************************************************************)
ResumesItsOwnWork == ~ refused
-----------------------------------------------------------------------------
(***************************************************************************)
(* The inductive invariant behind VerifiedIsRight.                         *)
(***************************************************************************)
Right(S) == \A s \in S : value[s] = "right"

(* The memory of a run that traverses the slices.  In particular a run     *)
(* that verifies has only verified slices behind it, and the manifest      *)
(* lists no slice that the run is still going to replace.                  *)
Traversal ==
    /\ pc = "workspace" => run.sliced
    /\ pc \in {"record", "slice", "verify", "publish_slice"} =>
           /\ run.sliced
           /\ completed \subseteq Present
           /\ Slices \ todo \subseteq completed
           /\ Right(passes \intersect completed)
           /\ Checked => completed \subseteq passes

Listed == pc \in {"slice", "verify", "publish_slice"} =>
              manifest \subseteq completed

(* The slice being generated. *)
Generating ==
    /\ pc \in {"verify", "publish_slice"} =>
           current \notin completed /\ Deps(current) \subseteq completed
    /\ pc = "publish_slice" /\ Checked => draft = "right"

(* The database being finished. *)
Finishing ==
    /\ pc \in {"create", "compile"} => ~ run.sliced
    /\ pc = "finish" /\ run.sliced /\ Checked => work = "right"
    /\ pc = "publish" /\ Checked => work = "right"

VerifiedInv ==
    /\ TypeOK
    /\ EvidenceIsSound
    /\ Traversal
    /\ Listed
    /\ Generating
    /\ Finishing
    /\ VerifiedIsRight

(* A run removes slices only when it has published their database, and     *)
(* nothing takes that away while it does.                                  *)
CleanupInv == pc = "cleanup" => output # "absent"
=============================================================================
