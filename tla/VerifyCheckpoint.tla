-------------------------- MODULE VerifyCheckpoint --------------------------
(***************************************************************************)
(* A verification of days (verify_dtm.c) that stops and goes on from its   *)
(* checkpoint, under the script that verifies a collection (verify_all.py).*)
(*                                                                         *)
(* A table is replaced by renaming another file over it, as every writer   *)
(* of the repository does: an open handle keeps the old contents.  Every   *)
(* file has a fresh identity (inode, size and times), so a fingerprint is  *)
(* the versions of all files.  Whether a position agrees with its          *)
(* successors depends on the contents of its table and of the tables its   *)
(* moves lead to: flaws says where it does not.                            *)
(***************************************************************************)
EXTENDS Integers, Sequences, FiniteSets

CONSTANTS Material,
          Order,        \* the materials of the scripts, in build order
          Needs,        \* material -> the tables its moves lead to
          Positions, PageEntries, ChunkPages,
          Pauses,       \* what --max-chunks may be; 0 is not given
          FlawSets,     \* what may be inconsistent
          MaxVersion,   \* bounds the replacements of each table
          MaxStops,     \* bounds the kills, interrupts and crashes
          EarlyReplace  \* whether a table may be replaced before the fingerprint

ASSUME OrderAssumption ==
  /\ Order \in Seq(Material)
  /\ Needs \in [Material -> SUBSET Material]
  /\ \A n \in 1 .. Len(Order) :
       Needs[Order[n]] \subseteq {Order[k] : k \in 1 .. n - 1}
ASSUME ChunkAssumption ==
  {Positions, PageEntries, ChunkPages} \subseteq Nat \ {0} /\ Pauses \subseteq Nat
ASSUME CheckpointBoundsAssumption ==
  {MaxVersion, MaxStops} \subseteq Nat /\ EarlyReplace \in BOOLEAN

Index == 0 .. Positions - 1
Contents == [Material -> 0 .. MaxVersion]
Flaws == [table : Material, index : Index, among : Contents]
ASSUME FlawsAssumption == FlawSets \subseteq SUBSET Flaws
NoCheckpoint == [next |-> -1]
Checkpoints == [signature : Contents, next : 0 .. Positions]
Exits == {"none", "verified", "paused", "refused", "failed", "killed"}
Statuses == {"NOT_CHECKED", "NOT_VERIFIED", "VERIFIED", "PARTIAL",
             "INTERRUPTED", "FAILED", "INPUTS_CHANGED"}

VARIABLES
  version,     \* material -> which file its name stands for
  flaws,       \* where which contents are inconsistent
  checkpoint,  \* material -> its checkpoint file
  durable,     \* material -> what is left of it after a crash
  verifier,    \* the process that verifies one table
  driver,      \* the script: its phase, its place in Order, its fingerprint
  report,      \* material -> its row of summary.tsv
  stops

vars == <<version, flaws, checkpoint, durable, verifier, driver, report, stops>>

Touches(m) == {m} \cup Needs[m]

IsRight(m, i, c) ==
  ~\E f \in flaws : /\ f.table = m /\ f.index = i
                    /\ \A d \in Touches(m) : f.among[d] = c[d]

TypeOK ==
  /\ version \in Contents
  /\ flaws \subseteq Flaws
  /\ \A m \in Material : {checkpoint[m], durable[m]} \subseteq Checkpoints \cup {NoCheckpoint}
  /\ verifier.exit \in Exits
  /\ verifier.next \in 0 .. Positions
  /\ driver.at \in 1 .. Len(Order) + 1
  /\ \A m \in Material : report[m].status \in Statuses
  /\ stops \in 0 .. MaxStops

NotRunning ==
  [phase |-> "idle", opened |-> [d \in {} |-> 0], signature |-> << >>, next |-> 0,
   chunks |-> 0, through |-> 0, exit |-> "none"]

Unchecked == [status |-> "NOT_CHECKED", checked |-> 0]

Init ==
  /\ version = [m \in Material |-> 0]
  /\ flaws \in FlawSets
  /\ checkpoint = [m \in Material |-> NoCheckpoint]
  /\ durable = checkpoint
  /\ verifier = NotRunning
  /\ driver = [phase |-> "stopped", at |-> 1, signature |-> << >>, max |-> 0]
  /\ report = [m \in Material |-> Unchecked]
  /\ stops = 0

-----------------------------------------------------------------------------
(***************************************************************************)
(* verify_dtm.c.                                                           *)
(***************************************************************************)
Target == Order[driver.at]

Become(v) ==
  /\ verifier' = v
  /\ UNCHANGED <<version, flaws, checkpoint, durable, driver, report, stops>>

Exit(code) ==
  Become([verifier EXCEPT !.phase = "exited", !.exit = code,
          !.through = IF code = "verified" THEN Positions ELSE @])

OpenTarget ==
  /\ verifier.phase = "started"
  /\ Become([verifier EXCEPT !.phase = "opened",
             !.opened = [d \in {Target} |-> version[d]]])

(* fingerprint_dtm_directory, after the target was opened. *)
Fingerprint ==
  /\ verifier.phase = "opened"
  /\ Become([verifier EXCEPT !.phase = "fingerprinted", !.signature = version])

Acceptable_AnyInputs(c) ==   \* Mutant: the signature is not compared
  /\ c.next = Positions \/ c.next % PageEntries = 0

(* checkpoint_read: the name, the sizes and the CRC are those it wrote. *)
Acceptable(c) ==
  /\ c.signature = verifier.signature
  /\ c.next = Positions \/ c.next % PageEntries = 0

Resume_FromStart ==   \* Mutant: a checkpoint that is not complete is not used
  LET c == checkpoint[Target] IN
  /\ verifier.phase = "fingerprinted"
  /\ IF c = NoCheckpoint THEN Become([verifier EXCEPT !.phase = "checking"])
     ELSE IF ~Acceptable(c) THEN Exit("refused")
     ELSE IF c.next = Positions THEN Exit("verified")
     ELSE Become([verifier EXCEPT !.phase = "checking"])

Resume ==
  LET c == checkpoint[Target] IN
  /\ verifier.phase = "fingerprinted"
  /\ \/ /\ c = NoCheckpoint
        /\ Become([verifier EXCEPT !.phase = "checking"])
     \/ /\ c # NoCheckpoint
        /\ IF ~Acceptable(c) THEN Exit("refused")
           ELSE IF c.next = Positions THEN Exit("verified")
           ELSE Become([verifier EXCEPT !.phase = "checking", !.next = c.next])

(* open_catalog_database: a table is opened when a move first leads there. *)
OpenDependency(d) ==
  /\ verifier.phase = "checking"
  /\ d \in Needs[Target] \ DOMAIN verifier.opened
  /\ Become([verifier EXCEPT
       !.opened = [k \in DOMAIN @ \cup {d} |-> IF k = d THEN version[d] ELSE @[k]]])

RemainingPages == (Positions - verifier.next + PageEntries - 1) \div PageEntries

ChunkEnd ==
  LET pages == IF ChunkPages < RemainingPages THEN ChunkPages ELSE RemainingPages
      end == verifier.next + (pages * PageEntries) IN
  IF end > Positions THEN Positions ELSE end

Chunk == verifier.next .. ChunkEnd - 1

(* The open handles are read, whatever the names stand for by now.         *)
CheckChunk ==
  /\ verifier.phase = "checking"
  /\ Touches(Target) \subseteq DOMAIN verifier.opened
  /\ IF \A i \in Chunk : IsRight(Target, i, verifier.opened)
       THEN Become([verifier EXCEPT !.phase = "checked", !.next = ChunkEnd])
       ELSE Exit("failed")

FingerprintAgain_Not ==   \* Mutant: what changed meanwhile is not noticed
  /\ verifier.phase = "checked"
  /\ Become([verifier EXCEPT !.phase = "saving"])

FingerprintAgain ==
  /\ verifier.phase = "checked"
  /\ IF version = verifier.signature
       THEN Become([verifier EXCEPT !.phase = "saving"])
       ELSE Exit("refused")

(* checkpoint_write: a synced file of its own, renamed over the old one. *)
RenameCheckpoint ==
  /\ verifier.phase = "saving"
  /\ checkpoint' = [checkpoint EXCEPT
       ![Target] = [signature |-> verifier.signature, next |-> verifier.next]]
  /\ verifier' = [verifier EXCEPT !.phase = "renamed"]
  /\ UNCHANGED <<version, flaws, durable, driver, report, stops>>

AfterChunk ==
  LET v == [verifier EXCEPT !.through = verifier.next, !.chunks = @ + 1] IN
  IF v.next = Positions THEN [v EXCEPT !.phase = "exited", !.exit = "verified"]
  ELSE IF v.chunks = driver.max THEN [v EXCEPT !.phase = "exited", !.exit = "paused"]
  ELSE [v EXCEPT !.phase = "checking"]

(* The directory is synced before the chunk is reported. *)
SyncCheckpoint ==
  /\ verifier.phase = "renamed"
  /\ durable' = [durable EXCEPT ![Target] = checkpoint[Target]]
  /\ verifier' = AfterChunk
  /\ UNCHANGED <<version, flaws, checkpoint, driver, report, stops>>

Verify ==
  \/ OpenTarget \/ Fingerprint \/ Resume
  \/ \E d \in Material : OpenDependency(d)
  \/ CheckChunk \/ FingerprintAgain \/ RenameCheckpoint \/ SyncCheckpoint

-----------------------------------------------------------------------------
(***************************************************************************)
(* verify_all.py.                                                          *)
(***************************************************************************)
Stop(status, checked) ==
  /\ report' = [report EXCEPT ![Target] = [status |-> status, checked |-> checked]]
  /\ driver' = [driver EXCEPT !.phase = "stopped"]

(* A new report: nothing that an earlier run verified is taken over. *)
Begin ==
  /\ driver.phase # "running"
  /\ \E n \in Pauses :
       driver' = [phase |-> "running", at |-> 1, signature |-> version, max |-> n]
  /\ report' = [m \in Material |-> Unchecked]
  /\ UNCHANGED <<version, flaws, checkpoint, durable, verifier, stops>>

Launch ==
  /\ driver.phase = "running" /\ driver.at <= Len(Order)
  /\ verifier.phase = "idle"
  /\ verifier' = [NotRunning EXCEPT !.phase = "started"]
  /\ report' = [report EXCEPT ![Target] = [status |-> "NOT_VERIFIED", checked |-> 0]]
  /\ UNCHANGED <<version, flaws, checkpoint, durable, driver, stops>>

(* What the exit code and the log say; anything but 0 ends the run. *)
StatusOf(code) ==
  CASE code = "verified" /\ verifier.through = Positions -> {"VERIFIED"}
    [] code = "paused" -> {"PARTIAL"}
    [] code = "killed" -> {"INTERRUPTED", "FAILED"}
    [] OTHER -> {"FAILED"}

(* Mutant: what changed since the script started is not noticed. *)
Collect_StaleInputs ==
  /\ driver.phase = "running"
  /\ verifier.phase = "exited"
  /\ verifier' = NotRunning
  /\ \E s \in StatusOf(verifier.exit) :
       IF s # "VERIFIED" THEN Stop(s, verifier.through)
       ELSE /\ report' = [report EXCEPT
                 ![Target] = [status |-> s, checked |-> verifier.through]]
            /\ driver' = [driver EXCEPT !.at = @ + 1]
  /\ UNCHANGED <<version, flaws, checkpoint, durable, stops>>

Collect ==
  /\ driver.phase = "running"
  /\ verifier.phase = "exited"
  /\ verifier' = NotRunning
  /\ IF version # driver.signature
       THEN Stop("INPUTS_CHANGED", verifier.through)
       ELSE \E s \in StatusOf(verifier.exit) :
              IF s # "VERIFIED" THEN Stop(s, verifier.through)
              ELSE /\ report' = [report EXCEPT
                        ![Target] = [status |-> s, checked |-> verifier.through]]
                   /\ driver' = [driver EXCEPT !.at = @ + 1]
  /\ UNCHANGED <<version, flaws, checkpoint, durable, stops>>

AllVerified ==
  /\ driver.phase = "running" /\ driver.at = Len(Order) + 1
  /\ driver' = [driver EXCEPT !.phase = "done"]
  /\ UNCHANGED <<version, flaws, checkpoint, durable, verifier, report, stops>>

-----------------------------------------------------------------------------
(***************************************************************************)
(* The world: replaced tables, the user, kills and crashes.                *)
(***************************************************************************)
MayReplace == EarlyReplace \/ verifier.phase # "opened"

Replace(m) ==
  /\ version[m] < MaxVersion /\ MayReplace
  /\ version' = [version EXCEPT ![m] = @ + 1]
  /\ UNCHANGED <<flaws, checkpoint, durable, verifier, driver, report, stops>>

(* "start with a new checkpoint" *)
NewCheckpoint(m) ==
  /\ driver.phase # "running"
  /\ checkpoint[m] # NoCheckpoint
  /\ checkpoint[m].signature # version
  /\ checkpoint' = [checkpoint EXCEPT ![m] = NoCheckpoint]
  /\ durable' = [durable EXCEPT ![m] = NoCheckpoint]
  /\ UNCHANGED <<version, flaws, verifier, driver, report, stops>>

Stopped == stops < MaxStops /\ stops' = stops + 1

Kill ==
  /\ Stopped
  /\ verifier.phase \notin {"idle", "exited"}
  /\ verifier' = [verifier EXCEPT !.phase = "exited", !.exit = "killed"]
  /\ UNCHANGED <<version, flaws, checkpoint, durable, driver, report>>

(* Control-C reaches the script and the verifier it waits for. *)
Interrupt ==
  /\ Stopped
  /\ driver.phase = "running" /\ verifier.phase \notin {"idle", "exited"}
  /\ Stop("INTERRUPTED", 0)
  /\ verifier' = NotRunning
  /\ UNCHANGED <<version, flaws, checkpoint, durable>>

(* A rename that was not synced may be undone. *)
Crash ==
  /\ Stopped
  /\ driver.phase = "running"
  /\ checkpoint' \in {checkpoint, durable}
  /\ durable' = checkpoint'
  /\ verifier' = NotRunning
  /\ driver' = [driver EXCEPT !.phase = "stopped"]
  /\ UNCHANGED <<version, flaws, report>>

Script == Begin \/ Launch \/ Collect \/ AllVerified

Next ==
  \/ Verify \/ Script
  \/ \E m \in Material : Replace(m) \/ NewCheckpoint(m)
  \/ Kill \/ Interrupt \/ Crash

(* The processes run, and the user starts the script again and removes     *)
(* checkpoints that were refused.                                          *)
Fairness ==
  /\ WF_vars(Verify)
  /\ WF_vars(Script)
  /\ \A m \in Material : SF_vars(NewCheckpoint(m))

Spec == Init /\ [][Next]_vars /\ Fairness

-----------------------------------------------------------------------------
(***************************************************************************)
(* Properties.                                                             *)
(***************************************************************************)

(* What a checkpoint covers was checked: the positions below it agree      *)
(* with their successors in the very files whose fingerprint it records,   *)
(* also in what a crash leaves of it.                                      *)
CheckpointIsTrue ==
  \A m \in Material : \A c \in {checkpoint[m], durable[m]} \ {NoCheckpoint} :
    \A i \in 0 .. c.next - 1 : IsRight(m, i, c.signature)

(* What the script reports as verified is consistent in the files it       *)
(* started with, whatever was resumed, killed or replaced; its last line   *)
(* says so of all of them.                                                 *)
VerifiedIsConsistent ==
  /\ \A m \in Material : report[m].status = "VERIFIED" =>
       \A i \in Index : IsRight(m, i, driver.signature)
  /\ driver.phase = "done" => \A n \in 1 .. Len(Order) : report[Order[n]].status = "VERIFIED"

(* Whoever goes on starting the script gets an answer about the files as   *)
(* they are, again and again: all are verified, or one is reported that is *)
(* not consistent.                                                         *)
Answered ==
  \/ driver.phase = "done"
  \/ \E m \in Material : report[m].status = "FAILED" /\ \E i \in Index : ~IsRight(m, i, version)

GetsAnAnswer == []<>Answered
-----------------------------------------------------------------------------
(***************************************************************************)
(* Why, when no table is replaced before the fingerprint: the inductive    *)
(* invariant behind both.                                                  *)
(***************************************************************************)
Phases == {"idle", "started", "opened", "fingerprinted", "checking", "checked",
           "saving", "renamed", "exited"}
Openings == UNION {[S -> 0 .. MaxVersion] : S \in SUBSET Material}
Signatures == Contents \cup {<< >>}
Verifiers ==
  [phase : Phases, opened : Openings, signature : Signatures, next : 0 .. Positions,
   chunks : Nat, through : 0 .. Positions, exit : Exits]
Drivers ==
  [phase : {"stopped", "running", "done"}, at : 1 .. Len(Order) + 1,
   signature : Signatures, max : Nat]

ProcessTypes ==
  /\ TypeOK
  /\ {checkpoint, durable} \subseteq [Material -> Checkpoints \cup {NoCheckpoint}]
  /\ verifier \in Verifiers
  /\ driver \in Drivers
  /\ report \in [Material -> [status : Statuses, checked : 0 .. Positions]]

Covers(upper, lower) == \A d \in DOMAIN lower : lower[d] <= upper[d]

(* The verifier holds a fingerprint, or has just accepted on one. *)
Signed ==
  \/ verifier.phase \in {"fingerprinted", "checking", "checked", "saving", "renamed"}
  \/ verifier.phase = "exited" /\ verifier.exit = "verified"

(* What is opened after the fingerprint is never older than it says. *)
HandlesInv ==
  /\ Covers(version, verifier.opened)
  /\ verifier.phase = "opened" =>
       verifier.opened = [d \in {Target} |-> version[d]]
  /\ Signed =>
       /\ verifier.signature \in Contents
       /\ Covers(verifier.signature, driver.signature)
       /\ Covers(version, verifier.signature)
       /\ \A d \in DOMAIN verifier.opened : verifier.signature[d] <= verifier.opened[d]
  /\ verifier.phase = "checked" => Touches(Target) \subseteq DOMAIN verifier.opened

(* The positions below next were checked, in the files of the fingerprint  *)
(* or, for the last chunk, in the open ones.                               *)
CheckedInv ==
  /\ verifier.phase \in {"started", "opened", "fingerprinted"} => verifier.next = 0
  /\ verifier.phase \in {"checking", "saving", "renamed"} =>
       \A i \in 0 .. verifier.next - 1 : IsRight(Target, i, verifier.signature)
  /\ verifier.phase = "checked" =>
       \A i \in 0 .. verifier.next - 1 :
         \/ IsRight(Target, i, verifier.signature)
         \/ IsRight(Target, i, verifier.opened)
  /\ verifier.phase = "exited" /\ verifier.exit = "verified" =>
       \A i \in Index : IsRight(Target, i, verifier.signature)

(* The verifier runs under the script only, one table after another.       *)
ScriptInv ==
  /\ driver.phase # "running" => verifier.phase = "idle"
  /\ verifier.phase # "idle" => driver.at <= Len(Order)
  /\ driver.phase = "running" =>
       /\ driver.signature \in Contents
       /\ Covers(version, driver.signature)
       /\ \A n \in 1 .. driver.at - 1 :
            \/ report[Order[n]].status = "VERIFIED"
            \/ verifier.phase # "idle" /\ Order[n] = Target

CheckpointInv ==
  ProcessTypes /\ HandlesInv /\ CheckedInv /\ ScriptInv
    /\ CheckpointIsTrue /\ VerifiedIsConsistent

=============================================================================
