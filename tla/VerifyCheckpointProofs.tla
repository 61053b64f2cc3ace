----------------------- MODULE VerifyCheckpointProofs -----------------------
(***************************************************************************)
(* A verification that resumes is as good as one that never stopped, for   *)
(* every collection of tables, every size of pages and chunks, wherever    *)
(* the runs are killed, interrupted or crash and whenever a table is       *)
(* replaced -- but between the opening of the table and the fingerprint.   *)
(***************************************************************************)
EXTENDS VerifyCheckpoint, TLAPS

(* What a position needs depends on the tables its moves lead to, only.    *)
LEMMA SameFiles ==
  ASSUME NEW m, NEW i, NEW c, NEW e, \A d \in Touches(m) : c[d] = e[d]
  PROVE  IsRight(m, i, c) <=> IsRight(m, i, e)
BY DEF IsRight

LEMMA TargetType ==
  ASSUME ProcessTypes, driver.at <= Len(Order)
  PROVE  Target \in Material /\ Touches(Target) \subseteq Material
<1>1. driver.at \in 1 .. Len(Order)
  BY OrderAssumption DEF ProcessTypes, Drivers
<1> QED BY <1>1, OrderAssumption DEF Target, Touches

LEMMA ChunkEndType ==
  ASSUME ProcessTypes
  PROVE  ChunkEnd \in 0 .. Positions
<1>1. /\ verifier.next \in Nat /\ verifier.next <= Positions
      /\ {Positions, PageEntries, ChunkPages} \subseteq Nat \ {0}
  BY ChunkAssumption DEF ProcessTypes, Verifiers
<1> DEFINE a == Positions - verifier.next + PageEntries - 1
           pages == IF ChunkPages < RemainingPages THEN ChunkPages ELSE RemainingPages
<1>2. a \in Nat
  BY <1>1
<1>3. \A p \in Nat \ {0} : a \div p \in Nat
  <2> HIDE DEF a
  <2> QED BY <1>2
<1>4. RemainingPages \in Nat
  BY <1>1, <1>3 DEF RemainingPages
<1>5. pages \in Nat
  BY <1>1, <1>4
<1>6. \A x, y \in Nat : x * y \in Nat
  OBVIOUS
<1>7. pages * PageEntries \in Nat
  BY <1>1, <1>5, <1>6
<1> DEFINE end == verifier.next + (pages * PageEntries)
<1>8. end \in Nat /\ ChunkEnd = IF end > Positions THEN Positions ELSE end
  BY <1>1, <1>7 DEF ChunkEnd
<1> QED BY <1>1, <1>8

LEMMA NotRunningType == NotRunning \in Verifiers
<1>1. [d \in {} |-> 0] \in [{} -> 0 .. MaxVersion]
  OBVIOUS
<1>2. [d \in {} |-> 0] \in Openings
  BY <1>1 DEF Openings
<1>3. PICK o \in Openings : o = [d \in {} |-> 0]
  BY <1>2
<1>4. NotRunning = [phase |-> "idle", opened |-> o, signature |-> << >>, next |-> 0,
                    chunks |-> 0, through |-> 0, exit |-> "none"]
  BY <1>3 DEF NotRunning
<1>5. 0 \in 0 .. Positions /\ << >> \in Signatures
  BY ChunkAssumption DEF Signatures
<1> QED BY <1>4, <1>5 DEF Verifiers, Phases, Exits

LEMMA TypeInitially == Init => ProcessTypes
<1> SUFFICES ASSUME Init PROVE ProcessTypes
  OBVIOUS
<1>1. version \in Contents
  BY CheckpointBoundsAssumption DEF Init, Contents
<1>2. verifier \in Verifiers
  BY NotRunningType DEF Init
<1>3. Len(Order) \in Nat
  BY OrderAssumption
<1>4. driver \in Drivers
  BY <1>3 DEF Init, Drivers, Signatures
<1>5. report \in [Material -> [status : Statuses, checked : 0 .. Positions]]
  BY ChunkAssumption DEF Init, Unchecked, Statuses
<1>6. flaws \subseteq Flaws /\ stops \in 0 .. MaxStops
  BY FlawsAssumption, CheckpointBoundsAssumption DEF Init
<1>7. {checkpoint, durable} \subseteq [Material -> Checkpoints \cup {NoCheckpoint}]
  BY DEF Init
<1>8. TypeOK
  BY <1>1, <1>2, <1>4, <1>5, <1>6, <1>7 DEF TypeOK, Verifiers, Drivers
<1> QED BY <1>2, <1>4, <1>5, <1>7, <1>8 DEF ProcessTypes

(* The variables' types are those of the processes. *)
LEMMA TypesSuffice ==
  ASSUME version' \in Contents, flaws' \subseteq Flaws, stops' \in 0 .. MaxStops,
         {checkpoint', durable'} \subseteq [Material -> Checkpoints \cup {NoCheckpoint}],
         verifier' \in Verifiers, driver' \in Drivers,
         report' \in [Material -> [status : Statuses, checked : 0 .. Positions]]
  PROVE  ProcessTypes'
BY DEF ProcessTypes, TypeOK, Verifiers, Drivers

LEMMA VerifyType ==
  ASSUME CheckpointInv, Verify
  PROVE  ProcessTypes'
<1>1. /\ ProcessTypes /\ version \in Contents /\ flaws \subseteq Flaws /\ stops \in 0 .. MaxStops
      /\ {checkpoint, durable} \subseteq [Material -> Checkpoints \cup {NoCheckpoint}]
      /\ verifier \in Verifiers /\ driver \in Drivers
      /\ report \in [Material -> [status : Statuses, checked : 0 .. Positions]]
  BY DEF CheckpointInv, ProcessTypes, TypeOK
<1>2. /\ verifier.phase # "idle" => Target \in Material
      /\ verifier.phase # "idle" => Touches(Target) \subseteq Material
      /\ Positions \in Nat \ {0}
  BY <1>1, TargetType, ChunkAssumption DEF CheckpointInv, ScriptInv
<1>3. ASSUME NEW v \in Verifiers, Become(v) PROVE ProcessTypes'
  BY <1>1, <1>3, TypesSuffice DEF Become
<1>4. ASSUME NEW code \in Exits, Exit(code) PROVE ProcessTypes'
  <2>1. PICK v : v = [verifier EXCEPT !.phase = "exited", !.exit = code,
          !.through = IF code = "verified" THEN Positions ELSE @]
    OBVIOUS
  <2>2. PICK n \in 0 .. Positions : n = IF code = "verified" THEN Positions ELSE verifier.through
    BY <1>1, <1>2 DEF Verifiers
  <2>3. v = [verifier EXCEPT !.phase = "exited", !.exit = code, !.through = n]
    BY <2>1, <2>2
  <2>4. v \in Verifiers
    BY <1>1, <2>3 DEF Verifiers, Phases
  <2> QED BY <1>3, <1>4, <2>1, <2>4 DEF Exit
<1>5. CASE OpenTarget
  <2>1. [d \in {Target} |-> version[d]] \in Openings
    <3>1. [d \in {Target} |-> version[d]] \in [{Target} -> 0 .. MaxVersion]
      BY <1>1, <1>2, <1>5 DEF OpenTarget, Contents
    <3> QED BY <1>2, <1>5, <3>1 DEF OpenTarget, Openings
  <2>2. [verifier EXCEPT !.phase = "opened",
             !.opened = [d \in {Target} |-> version[d]]] \in Verifiers
    BY <1>1, <2>1 DEF Verifiers, Phases
  <2> QED BY <1>3, <1>5, <2>2 DEF OpenTarget
<1>6. CASE Fingerprint
  <2>1. [verifier EXCEPT !.phase = "fingerprinted", !.signature = version] \in Verifiers
    BY <1>1 DEF Verifiers, Phases, Signatures
  <2> QED BY <1>3, <1>6, <2>1 DEF Fingerprint
<1>7. CASE Resume
  <2> DEFINE c == checkpoint[Target]
  <2>1. [verifier EXCEPT !.phase = "checking"] \in Verifiers
    BY <1>1 DEF Verifiers, Phases
  <2>2. c # NoCheckpoint => c.next \in 0 .. Positions
    BY <1>1, <1>2, <1>7 DEF Resume, Checkpoints
  <2>3. c # NoCheckpoint => [verifier EXCEPT !.phase = "checking", !.next = c.next] \in Verifiers
    BY <1>1, <2>2 DEF Verifiers, Phases
  <2>4. "refused" \in Exits /\ "verified" \in Exits
    BY DEF Exits
  <2> QED BY <1>3, <1>4, <1>7, <2>1, <2>3, <2>4 DEF Resume
<1>8. ASSUME NEW d \in Material, OpenDependency(d) PROVE ProcessTypes'
  <2> DEFINE o == [k \in DOMAIN verifier.opened \cup {d} |->
                     IF k = d THEN version[d] ELSE verifier.opened[k]]
  <2>1. PICK S \in SUBSET Material : verifier.opened \in [S -> 0 .. MaxVersion]
    BY <1>1 DEF Verifiers, Openings
  <2>2. o \in [S \cup {d} -> 0 .. MaxVersion]
    BY <1>1, <2>1 DEF Contents
  <2>3. o \in Openings
    BY <2>2 DEF Openings
  <2> HIDE DEF o
  <2>4. [verifier EXCEPT !.opened = o] \in Verifiers
    BY <1>1, <2>3 DEF Verifiers
  <2>5. Become([verifier EXCEPT !.opened = o])
    BY <1>8 DEF OpenDependency, o
  <2> QED BY <1>3, <2>4, <2>5
<1>9. CASE CheckChunk
  <2>1. [verifier EXCEPT !.phase = "checked", !.next = ChunkEnd] \in Verifiers
    BY <1>1, ChunkEndType DEF Verifiers, Phases
  <2>2. "failed" \in Exits
    BY DEF Exits
  <2> QED BY <1>3, <1>4, <1>9, <2>1, <2>2 DEF CheckChunk
<1>10. CASE FingerprintAgain
  <2>1. [verifier EXCEPT !.phase = "saving"] \in Verifiers
    BY <1>1 DEF Verifiers, Phases
  <2>2. "refused" \in Exits
    BY DEF Exits
  <2> QED BY <1>3, <1>4, <1>10, <2>1, <2>2 DEF FingerprintAgain
<1>11. CASE RenameCheckpoint
  <2>1. verifier.signature \in Contents /\ verifier.next \in 0 .. Positions
    BY <1>1, <1>11 DEF RenameCheckpoint, CheckpointInv, HandlesInv, Signed, Verifiers
  <2>2. checkpoint' \in [Material -> Checkpoints \cup {NoCheckpoint}]
    BY <1>1, <1>11, <2>1 DEF RenameCheckpoint, Checkpoints
  <2>3. verifier' \in Verifiers
    BY <1>1, <1>11 DEF RenameCheckpoint, Verifiers, Phases
  <2> QED BY <1>1, <1>11, <2>2, <2>3, TypesSuffice DEF RenameCheckpoint
<1>12. CASE SyncCheckpoint
  <2>1. durable' \in [Material -> Checkpoints \cup {NoCheckpoint}]
    BY <1>1, <1>12 DEF SyncCheckpoint
  <2>2. AfterChunk \in Verifiers
    <3> DEFINE v == [verifier EXCEPT !.through = verifier.next, !.chunks = @ + 1]
    <3>1. v \in Verifiers
      <4>1. PICK n \in Nat : n = verifier.chunks + 1
        BY <1>1 DEF Verifiers
      <4>2. PICK k \in 0 .. Positions : k = verifier.next
        BY <1>1 DEF Verifiers
      <4>3. v = [verifier EXCEPT !.through = k, !.chunks = n]
        BY <4>1, <4>2
      <4> QED BY <1>1, <4>3 DEF Verifiers
    <3> HIDE DEF v
    <3>2. /\ [v EXCEPT !.phase = "exited", !.exit = "verified"] \in Verifiers
          /\ [v EXCEPT !.phase = "exited", !.exit = "paused"] \in Verifiers
          /\ [v EXCEPT !.phase = "checking"] \in Verifiers
      BY <3>1 DEF Verifiers, Phases, Exits
    <3> QED BY <3>2 DEF AfterChunk, v
  <2> QED BY <1>1, <1>12, <2>1, <2>2, TypesSuffice DEF SyncCheckpoint
<1> QED
  BY <1>5, <1>6, <1>7, <1>8, <1>9, <1>10, <1>11, <1>12 DEF Verify

LEMMA ScriptType ==
  ASSUME CheckpointInv, Script
  PROVE  ProcessTypes'
<1>1. /\ ProcessTypes /\ version \in Contents /\ flaws \subseteq Flaws /\ stops \in 0 .. MaxStops
      /\ {checkpoint, durable} \subseteq [Material -> Checkpoints \cup {NoCheckpoint}]
      /\ verifier \in Verifiers /\ driver \in Drivers /\ ScriptInv
      /\ report \in [Material -> [status : Statuses, checked : 0 .. Positions]]
  BY DEF CheckpointInv, ProcessTypes, TypeOK
<1>2. 0 \in 0 .. Positions /\ Len(Order) \in Nat
  BY ChunkAssumption, OrderAssumption
<1>3. verifier.through \in 0 .. Positions /\ driver.at \in 1 .. Len(Order) + 1
  BY <1>1 DEF Verifiers, Drivers
<1>4. ASSUME NEW s \in Statuses, NEW n \in 0 .. Positions
      PROVE  [report EXCEPT ![Target] = [status |-> s, checked |-> n]]
               \in [Material -> [status : Statuses, checked : 0 .. Positions]]
  BY <1>1
<1>5. ASSUME NEW p \in {"stopped", "running", "done"}
      PROVE  [driver EXCEPT !.phase = p] \in Drivers
  BY <1>1 DEF Drivers
<1>6. CASE Begin
  <2>1. driver' \in Drivers
    BY <1>1, <1>2, <1>6, ChunkAssumption DEF Begin, Drivers, Signatures
  <2>2. report' \in [Material -> [status : Statuses, checked : 0 .. Positions]]
    BY <1>2, <1>6 DEF Begin, Unchecked, Statuses
  <2> QED BY <1>1, <1>6, <2>1, <2>2, TypesSuffice DEF Begin
<1>7. CASE Launch
  <2>1. verifier' \in Verifiers
    <3>1. PICK v \in Verifiers : v = NotRunning
      BY NotRunningType
    <3>2. [v EXCEPT !.phase = "started"] \in Verifiers
      BY DEF Verifiers, Phases
    <3> QED BY <1>7, <3>1, <3>2 DEF Launch
  <2>2. report' \in [Material -> [status : Statuses, checked : 0 .. Positions]]
    BY <1>2, <1>4, <1>7 DEF Launch, Statuses
  <2> QED BY <1>1, <1>7, <2>1, <2>2, TypesSuffice DEF Launch
<1>8. CASE Collect
  <2>1. verifier' \in Verifiers
    BY <1>8, NotRunningType DEF Collect
  <2>2. \A s : s \in StatusOf(verifier.exit) => s \in Statuses
    BY DEF StatusOf, Statuses
  <2>3. ASSUME NEW s \in Statuses, Stop(s, verifier.through) PROVE ProcessTypes'
    BY <1>1, <1>3, <1>4, <1>5, <1>8, <2>1, <2>3, TypesSuffice DEF Collect, Stop
  <2>4. ASSUME NEW s \in Statuses, driver' = [driver EXCEPT !.at = @ + 1],
               report' = [report EXCEPT
                        ![Target] = [status |-> s, checked |-> verifier.through]]
        PROVE  ProcessTypes'
    <3>1. driver.at <= Len(Order)
      BY <1>1, <1>8 DEF Collect, ScriptInv
    <3>2. PICK n \in 1 .. Len(Order) + 1 : n = driver.at + 1
      BY <1>2, <1>3, <3>1
    <3>3. driver' = [driver EXCEPT !.at = n]
      BY <2>4, <3>2
    <3>4. driver' \in Drivers
      BY <1>1, <3>3 DEF Drivers
    <3>5. report' \in [Material -> [status : Statuses, checked : 0 .. Positions]]
      BY <1>3, <1>4, <2>4
    <3> QED BY <1>1, <1>8, <2>1, <3>4, <3>5, TypesSuffice DEF Collect
  <2>5. "INPUTS_CHANGED" \in Statuses
    BY DEF Statuses
  <2> QED BY <1>8, <2>2, <2>3, <2>4, <2>5 DEF Collect
<1>9. CASE AllVerified
  BY <1>1, <1>5, <1>9, TypesSuffice DEF AllVerified
<1> QED BY <1>6, <1>7, <1>8, <1>9 DEF Script

LEMMA WorldType ==
  ASSUME CheckpointInv,
         \/ \E m \in Material : Replace(m) \/ NewCheckpoint(m)
         \/ Kill \/ Interrupt \/ Crash \/ UNCHANGED vars
  PROVE  ProcessTypes'
<1>1. /\ ProcessTypes /\ version \in Contents /\ flaws \subseteq Flaws /\ stops \in 0 .. MaxStops
      /\ {checkpoint, durable} \subseteq [Material -> Checkpoints \cup {NoCheckpoint}]
      /\ verifier \in Verifiers /\ driver \in Drivers /\ ScriptInv
      /\ report \in [Material -> [status : Statuses, checked : 0 .. Positions]]
  BY DEF CheckpointInv, ProcessTypes, TypeOK
<1>2. ASSUME NEW m \in Material, Replace(m) PROVE ProcessTypes'
  <2>1. version' \in Contents
    <3>1. version[m] \in 0 .. MaxVersion /\ version[m] < MaxVersion /\ MaxVersion \in Nat
      BY <1>1, <1>2, CheckpointBoundsAssumption DEF Contents, Replace
    <3>2. version[m] + 1 \in 0 .. MaxVersion
      BY <3>1
    <3> QED BY <1>1, <1>2, <3>2 DEF Contents, Replace
  <2> QED BY <1>1, <1>2, <2>1, TypesSuffice DEF Replace
<1>3. ASSUME NEW m \in Material, NewCheckpoint(m) PROVE ProcessTypes'
  <2>1. {checkpoint', durable'} \subseteq [Material -> Checkpoints \cup {NoCheckpoint}]
    BY <1>1, <1>3 DEF NewCheckpoint
  <2> QED BY <1>1, <1>3, <2>1, TypesSuffice DEF NewCheckpoint
<1>4. ASSUME Stopped PROVE stops' \in 0 .. MaxStops
  BY <1>1, <1>4, CheckpointBoundsAssumption DEF Stopped
<1>5. CASE Kill
  <2>1. verifier' \in Verifiers
    BY <1>1, <1>5 DEF Kill, Verifiers, Phases, Exits
  <2> QED BY <1>1, <1>4, <1>5, <2>1, TypesSuffice DEF Kill
<1>6. [driver EXCEPT !.phase = "stopped"] \in Drivers
  BY <1>1 DEF Drivers
<1>7. CASE Interrupt
  <2>1. report' \in [Material -> [status : Statuses, checked : 0 .. Positions]]
    <3>1. [status |-> "INTERRUPTED", checked |-> 0] \in [status : Statuses, checked : 0 .. Positions]
      BY ChunkAssumption DEF Statuses
    <3> QED BY <1>1, <1>7, <3>1 DEF Interrupt, Stop
  <2> QED BY <1>1, <1>4, <1>6, <1>7, <2>1, TypesSuffice, NotRunningType DEF Interrupt, Stop
<1>8. CASE Crash
  <2>1. {checkpoint', durable'} \subseteq [Material -> Checkpoints \cup {NoCheckpoint}]
    BY <1>1, <1>8 DEF Crash
  <2> QED BY <1>1, <1>4, <1>6, <1>8, <2>1, TypesSuffice, NotRunningType DEF Crash
<1>9. CASE UNCHANGED vars
  BY <1>1, <1>9, TypesSuffice DEF vars
<1> QED BY <1>2, <1>3, <1>5, <1>7, <1>8, <1>9

-----------------------------------------------------------------------------
(* The verifier's steps, field by field.                                   *)
LEMMA VerifierFields ==
  ASSUME CheckpointInv, Verify
  PROVE  /\ verifier.phase # "idle" /\ verifier'.phase # "idle"
         /\ UNCHANGED <<version, flaws, driver, report>>
         /\ \/ /\ verifier.phase = "started" /\ verifier'.phase = "opened"
               /\ verifier'.opened = [d \in {Target} |-> version[d]]
               /\ verifier'.next = verifier.next
            \/ /\ verifier.phase = "opened" /\ verifier'.phase = "fingerprinted"
               /\ verifier'.signature = version
               /\ verifier'.opened = verifier.opened /\ verifier'.next = verifier.next
            \/ /\ verifier.phase = "fingerprinted" /\ verifier'.phase = "checking"
               /\ verifier'.signature = verifier.signature /\ verifier'.opened = verifier.opened
               /\ \/ verifier'.next = verifier.next
                  \/ /\ checkpoint[Target] # NoCheckpoint
                     /\ checkpoint[Target].signature = verifier.signature
                     /\ verifier'.next = checkpoint[Target].next
            \/ /\ verifier.phase = "fingerprinted" /\ verifier'.phase = "exited"
               /\ verifier'.signature = verifier.signature /\ verifier'.opened = verifier.opened
               /\ verifier'.exit = "verified"
               /\ checkpoint[Target] # NoCheckpoint
               /\ checkpoint[Target].signature = verifier.signature
               /\ checkpoint[Target].next = Positions
            \/ /\ verifier'.phase = "exited" /\ verifier'.exit # "verified"
               /\ verifier'.opened = verifier.opened
            \/ /\ verifier.phase = "checking" /\ verifier'.phase = "checking"
               /\ verifier'.signature = verifier.signature /\ verifier'.next = verifier.next
               /\ \E d \in Material :
                    verifier'.opened = [k \in DOMAIN verifier.opened \cup {d} |->
                                          IF k = d THEN version[d] ELSE verifier.opened[k]]
            \/ /\ verifier.phase = "checking" /\ verifier'.phase = "checked"
               /\ verifier'.signature = verifier.signature /\ verifier'.opened = verifier.opened
               /\ verifier'.next = ChunkEnd
               /\ Touches(Target) \subseteq DOMAIN verifier.opened
               /\ \A i \in verifier.next .. ChunkEnd - 1 : IsRight(Target, i, verifier.opened)
            \/ /\ verifier.phase = "checked" /\ verifier'.phase = "saving"
               /\ version = verifier.signature
               /\ verifier'.signature = verifier.signature /\ verifier'.opened = verifier.opened
               /\ verifier'.next = verifier.next
            \/ /\ verifier.phase = "saving" /\ verifier'.phase = "renamed"
               /\ verifier'.signature = verifier.signature /\ verifier'.opened = verifier.opened
               /\ verifier'.next = verifier.next
            \/ /\ verifier.phase = "renamed" /\ verifier'.phase \in {"exited", "checking"}
               /\ verifier'.phase = "exited" /\ verifier'.exit = "verified" =>
                    verifier.next = Positions
               /\ verifier'.signature = verifier.signature /\ verifier'.opened = verifier.opened
               /\ verifier'.next = verifier.next
         /\ verifier'.phase = "exited" \/ verifier'.exit = verifier.exit
<1>1. verifier \in Verifiers
  BY DEF CheckpointInv, ProcessTypes
<1>2. ASSUME NEW code, Exit(code)
      PROVE  /\ verifier'.phase = "exited" /\ verifier'.exit = code
             /\ verifier'.opened = verifier.opened /\ verifier'.signature = verifier.signature
             /\ verifier'.next = verifier.next
             /\ UNCHANGED <<version, flaws, driver, report>>
  BY <1>1, <1>2 DEF Exit, Become, Verifiers
<1>3. CASE OpenTarget
  BY <1>1, <1>3 DEF OpenTarget, Become, Verifiers
<1>4. CASE Fingerprint
  BY <1>1, <1>4 DEF Fingerprint, Become, Verifiers
<1>5. CASE Resume
  BY <1>1, <1>2, <1>5 DEF Resume, Acceptable, Become, Verifiers
<1>6. CASE \E d \in Material : OpenDependency(d)
  BY <1>1, <1>6 DEF OpenDependency, Become, Verifiers
<1>7. CASE CheckChunk
  BY <1>1, <1>2, <1>7 DEF CheckChunk, Chunk, Become, Verifiers
<1>8. CASE FingerprintAgain
  BY <1>1, <1>2, <1>8 DEF FingerprintAgain, Become, Verifiers
<1>9. CASE RenameCheckpoint
  BY <1>1, <1>9 DEF RenameCheckpoint, Verifiers
<1>10. CASE SyncCheckpoint
  <2> DEFINE v == [verifier EXCEPT !.through = verifier.next, !.chunks = @ + 1]
  <2>1. /\ v.phase = verifier.phase /\ v.exit = verifier.exit /\ v.signature = verifier.signature
        /\ v.opened = verifier.opened /\ v.next = verifier.next
        /\ \A f \in {"phase", "exit", "signature", "opened", "next"} : f \in DOMAIN v
    BY <1>1 DEF Verifiers
  <2>2. /\ verifier' = IF v.next = Positions THEN [v EXCEPT !.phase = "exited", !.exit = "verified"]
                       ELSE IF v.chunks = driver.max THEN [v EXCEPT !.phase = "exited", !.exit = "paused"]
                       ELSE [v EXCEPT !.phase = "checking"]
        /\ verifier.phase = "renamed" /\ UNCHANGED <<version, flaws, driver, report>>
    BY <1>10 DEF SyncCheckpoint, AfterChunk
  <2> HIDE DEF v
  <2> QED BY <2>1, <2>2
<1> QED
  BY <1>3, <1>4, <1>5, <1>6, <1>7, <1>8, <1>9, <1>10 DEF Verify

(* What is true of the files a state stands for stays true: files are      *)
(* never written again.                                                    *)
LEMMA RightKept ==
  ASSUME flaws' = flaws
  PROVE  \A m, j, c : IsRight(m, j, c)' <=> IsRight(m, j, c)
BY DEF IsRight, Touches

(* The script waits while the verifier runs.                               *)
LEMMA VerifyScript ==
  ASSUME CheckpointInv, Verify
  PROVE  ScriptInv' /\ VerifiedIsConsistent'
<1>1. /\ verifier.phase # "idle" /\ verifier'.phase # "idle"
      /\ UNCHANGED <<version, flaws, driver, report>>
  BY VerifierFields
<1>2. ScriptInv'
  BY <1>1 DEF CheckpointInv, ScriptInv, Covers, Target
<1>3. VerifiedIsConsistent'
  BY <1>1 DEF CheckpointInv, VerifiedIsConsistent, IsRight, Touches
<1> QED BY <1>2, <1>3

LEMMA VerifyHandles ==
  ASSUME CheckpointInv, Verify
  PROVE  HandlesInv'
<1>1. PICK n : n = verifier
  OBVIOUS
<1>2. PICK v : v = verifier'
  OBVIOUS
<1>3. PICK t : t = Target
  OBVIOUS
<1>4. /\ n \in Verifiers /\ version \in Contents /\ driver \in Drivers /\ v \in Verifiers
      /\ driver.signature \in Contents /\ Covers(version, driver.signature)
      /\ version' = version /\ driver' = driver /\ Target' = t
      /\ t \in Material
  <2>1. ProcessTypes' /\ ProcessTypes
    BY VerifyType DEF CheckpointInv
  <2>2. UNCHANGED <<version, driver>> /\ verifier.phase # "idle"
    BY VerifierFields
  <2>3. driver.phase = "running" /\ driver.at <= Len(Order)
    BY <2>2 DEF CheckpointInv, ScriptInv
  <2>4. t \in Material
    BY <1>3, <2>1, <2>3, TargetType
  <2> QED
    BY <1>1, <1>2, <1>3, <2>1, <2>2, <2>3, <2>4
       DEF CheckpointInv, ProcessTypes, TypeOK, ScriptInv, Target
<1>5. \A d \in Material : version[d] \in Int /\ driver.signature[d] \in Int
  BY <1>4 DEF Contents
<1>6. \A d \in DOMAIN n.opened : n.opened[d] \in Int /\ d \in Material
  BY <1>4 DEF Verifiers, Openings
<1> DEFINE Handles(w) ==
      /\ Covers(version, w.opened)
      /\ w.phase = "opened" => w.opened = [d \in {t} |-> version[d]]
      /\ \/ w.phase \in {"fingerprinted", "checking", "checked", "saving", "renamed"}
         \/ w.phase = "exited" /\ w.exit = "verified"
         =>
           /\ w.signature \in Contents
           /\ Covers(w.signature, driver.signature)
           /\ Covers(version, w.signature)
           /\ \A d \in DOMAIN w.opened : w.signature[d] <= w.opened[d]
      /\ w.phase = "checked" => Touches(t) \subseteq DOMAIN w.opened
<1>7. Handles(n)
  BY <1>1, <1>3 DEF CheckpointInv, HandlesInv, Signed
<1>8. Handles(v)
  <2>1. CASE v.opened = n.opened /\ v.phase = "exited" /\ v.exit # "verified"
    BY <1>7, <2>1
  <2>2. CASE n.phase = "started" /\ v.phase = "opened"
    <3>1. v.opened = [d \in {t} |-> version[d]]
      BY <1>1, <1>2, <1>3, <2>2, VerifierFields
    <3>2. Covers(version, v.opened)
      BY <1>4, <1>5, <3>1 DEF Covers
    <3> QED BY <2>2, <3>1, <3>2
  <2>3. CASE n.phase = "opened" /\ v.phase = "fingerprinted"
    <3>1. v.signature = version /\ v.opened = n.opened
      BY <1>1, <1>2, <2>3, VerifierFields
    <3>2. v.opened = [d \in {t} |-> version[d]]
      BY <1>7, <2>3, <3>1
    <3>3. Covers(version, version)
      BY <1>4, <1>5 DEF Covers, Contents
    <3>4. \A d \in DOMAIN v.opened : v.signature[d] <= v.opened[d]
      BY <1>4, <1>5, <3>1, <3>2
    <3> QED BY <1>4, <1>7, <2>3, <3>1, <3>3, <3>4
  <2>4. CASE n.phase = "checking" /\ v.phase = "checking"
    <3>1. v.signature = n.signature
      BY <1>1, <1>2, <2>4, VerifierFields
    <3>2. PICK d \in Material :
            v.opened = [k \in DOMAIN n.opened \cup {d} |->
                          IF k = d THEN version[d] ELSE n.opened[k]]
      BY <1>1, <1>2, <2>4, VerifierFields
    <3>3. Covers(version, v.opened)
      BY <1>5, <1>7, <3>2 DEF Covers
    <3>4. n.signature[d] <= version[d]
      BY <1>7, <2>4 DEF Covers, Contents
    <3>5. \A k \in DOMAIN v.opened : v.signature[k] <= v.opened[k]
      BY <1>7, <2>4, <3>1, <3>2, <3>4
    <3> QED BY <1>7, <2>4, <3>1, <3>3, <3>5
  <2>5. CASE /\ n.phase \in {"fingerprinted", "checking", "checked", "saving", "renamed"}
             /\ v.signature = n.signature /\ v.opened = n.opened
             /\ v.phase = "checked" => Touches(t) \subseteq DOMAIN n.opened
             /\ v.phase # "opened"
    BY <1>7, <2>5
  <2>6. \/ v.opened = n.opened /\ v.phase = "exited" /\ v.exit # "verified"
        \/ n.phase = "started" /\ v.phase = "opened"
        \/ n.phase = "opened" /\ v.phase = "fingerprinted"
        \/ n.phase = "checking" /\ v.phase = "checking"
        \/ /\ n.phase \in {"fingerprinted", "checking", "checked", "saving", "renamed"}
           /\ v.signature = n.signature /\ v.opened = n.opened
           /\ v.phase = "checked" => Touches(t) \subseteq DOMAIN n.opened
           /\ v.phase # "opened"
    BY <1>1, <1>2, <1>3, VerifierFields
  <2> HIDE DEF Handles
  <2> QED BY <2>1, <2>2, <2>3, <2>4, <2>5, <2>6
<1>9. \A c, e : Covers(c, e)' <=> Covers(c, e)
  BY DEF Covers
<1>10. HandlesInv'
  BY <1>2, <1>4, <1>8 DEF HandlesInv, Signed, Covers, Touches
<1> QED BY <1>10

(* The last chunk was checked in the files of the fingerprint, if those    *)
(* are still the files when it has been checked.                           *)
LEMMA VerifyChecked ==
  ASSUME CheckpointInv, Verify
  PROVE  CheckedInv' /\ CheckpointIsTrue'
<1>1. PICK n : n = verifier
  OBVIOUS
<1>2. PICK v : v = verifier'
  OBVIOUS
<1>3. PICK t : t = Target
  OBVIOUS
<1>4. /\ n \in Verifiers /\ v \in Verifiers /\ t \in Material /\ Target' = t
      /\ flaws' = flaws /\ version \in Contents
      /\ HandlesInv /\ Touches(t) \subseteq Material
  <2>1. ProcessTypes' /\ ProcessTypes
    BY VerifyType DEF CheckpointInv
  <2>2. UNCHANGED <<flaws, driver>> /\ verifier.phase # "idle"
    BY VerifierFields
  <2>3. t \in Material /\ Touches(t) \subseteq Material
    BY <1>3, <2>1, <2>2, TargetType DEF CheckpointInv, ScriptInv
  <2> QED
    BY <1>1, <1>2, <1>3, <2>1, <2>2, <2>3
       DEF CheckpointInv, ProcessTypes, TypeOK, Target
<1> DEFINE Right(w, c, upto) == \A j \in 0 .. upto - 1 : IsRight(t, j, c)
           Checked(w) ==
             /\ w.phase \in {"started", "opened", "fingerprinted"} => w.next = 0
             /\ w.phase \in {"checking", "saving", "renamed"} =>
                  \A j \in 0 .. w.next - 1 : IsRight(t, j, w.signature)
             /\ w.phase = "checked" =>
                  \A j \in 0 .. w.next - 1 :
                    IsRight(t, j, w.signature) \/ IsRight(t, j, w.opened)
             /\ w.phase = "exited" /\ w.exit = "verified" =>
                  \A j \in Index : IsRight(t, j, w.signature)
<1>5. Checked(n)
  BY <1>1, <1>3 DEF CheckpointInv, CheckedInv
<1>6. \A c \in {checkpoint[t], durable[t]} \ {NoCheckpoint} :
        \A j \in 0 .. c.next - 1 : IsRight(t, j, c.signature)
  BY <1>4 DEF CheckpointInv, CheckpointIsTrue
<1>7. n.next \in Int /\ v.next \in Int /\ Positions \in Int /\ ChunkEnd \in Int
  BY <1>4, ChunkAssumption, ChunkEndType DEF Verifiers, CheckpointInv
<1>8. Checked(v)
  <2>1. CASE n.phase = "started" /\ v.phase = "opened"
    BY <1>1, <1>2, <1>5, <2>1, VerifierFields
  <2>2. CASE n.phase = "opened" /\ v.phase = "fingerprinted"
    BY <1>1, <1>2, <1>5, <2>2, VerifierFields
  <2>3. CASE n.phase = "fingerprinted" /\ v.phase = "checking"
    <3>1. v.next = 0 \/ \A j \in 0 .. v.next - 1 : IsRight(t, j, v.signature)
      BY <1>1, <1>2, <1>3, <1>5, <1>6, <2>3, VerifierFields
    <3> QED BY <2>3, <3>1
  <2>4. CASE n.phase = "fingerprinted" /\ v.phase = "exited" /\ v.exit = "verified"
    <3>1. /\ checkpoint[t] # NoCheckpoint /\ checkpoint[t].next = Positions
          /\ checkpoint[t].signature = v.signature
      BY <1>1, <1>2, <1>3, <2>4, VerifierFields
    <3> QED BY <1>6, <2>4, <3>1 DEF Index
  <2>5. CASE n.phase = "checking" /\ v.phase = "checking"
    BY <1>1, <1>2, <1>5, <2>5, VerifierFields
  <2>6. CASE n.phase = "checking" /\ v.phase = "checked"
    <3>1. /\ v.signature = n.signature /\ v.opened = n.opened /\ v.next = ChunkEnd
          /\ \A j \in n.next .. ChunkEnd - 1 : IsRight(t, j, n.opened)
      BY <1>1, <1>2, <1>3, <2>6, VerifierFields
    <3>2. \A j \in 0 .. ChunkEnd - 1 : j \in 0 .. n.next - 1 \/ j \in n.next .. ChunkEnd - 1
      BY <1>7
    <3> QED BY <1>5, <2>6, <3>1, <3>2
  <2>7. CASE n.phase = "checked" /\ v.phase = "saving"
    <3>1. /\ v.signature = n.signature /\ v.next = n.next /\ version = n.signature
      BY <1>1, <1>2, <2>7, VerifierFields
    <3>2. /\ Covers(version, n.opened) /\ Touches(t) \subseteq DOMAIN n.opened
          /\ \A d \in DOMAIN n.opened : n.signature[d] <= n.opened[d]
      BY <1>1, <1>3, <1>4, <2>7 DEF HandlesInv, Signed
    <3>3. \A d \in Touches(t) : n.opened[d] = n.signature[d]
      <4>1. \A d \in DOMAIN n.opened : n.opened[d] \in Int /\ version[d] \in Int
        BY <1>4 DEF Verifiers, Openings, Contents
      <4> QED BY <3>1, <3>2, <4>1 DEF Covers
    <3>4. \A j : IsRight(t, j, n.opened) <=> IsRight(t, j, n.signature)
      BY <3>3, SameFiles
    <3> QED BY <1>5, <2>7, <3>1, <3>4
  <2>8. CASE n.phase = "saving" /\ v.phase = "renamed"
    BY <1>1, <1>2, <1>5, <2>8, VerifierFields
  <2>9. CASE /\ n.phase = "renamed" /\ v.phase \in {"exited", "checking"}
             /\ ~(v.phase = "exited" /\ v.exit # "verified")
    <3>1. v.signature = n.signature /\ v.next = n.next
      BY <1>1, <1>2, <2>9, VerifierFields
    <3>2. v.phase = "exited" /\ v.exit = "verified" => n.next = Positions
      BY <1>1, <1>2, <2>9, VerifierFields
    <3> QED BY <1>5, <2>9, <3>1, <3>2 DEF Index
  <2>10. CASE v.phase = "exited" /\ v.exit # "verified"
    BY <2>10
  <2>11. \/ n.phase = "started" /\ v.phase = "opened"
         \/ n.phase = "opened" /\ v.phase = "fingerprinted"
         \/ n.phase = "fingerprinted" /\ v.phase = "checking"
         \/ n.phase = "fingerprinted" /\ v.phase = "exited" /\ v.exit = "verified"
         \/ n.phase = "checking" /\ v.phase = "checking"
         \/ n.phase = "checking" /\ v.phase = "checked"
         \/ n.phase = "checked" /\ v.phase = "saving"
         \/ n.phase = "saving" /\ v.phase = "renamed"
         \/ n.phase = "renamed" /\ v.phase \in {"exited", "checking"}
         \/ v.phase = "exited" /\ v.exit # "verified"
    BY <1>1, <1>2, VerifierFields
  <2> HIDE DEF Checked
  <2> QED
    BY <2>1, <2>2, <2>3, <2>4, <2>5, <2>6, <2>7, <2>8, <2>9, <2>10, <2>11
<1>9. CheckedInv'
  BY <1>2, <1>4, <1>8 DEF CheckedInv, IsRight, Touches
<1>10. CheckpointIsTrue'
  <2>1. ASSUME NEW m \in Material, NEW c \in {checkpoint'[m], durable'[m]},
               c # NoCheckpoint, NEW j \in 0 .. c.next - 1
        PROVE  IsRight(m, j, c.signature)
    <3>1. \/ c \in {checkpoint[m], durable[m]}
          \/ m = t /\ n.phase = "saving" /\ c = [signature |-> n.signature, next |-> n.next]
      <4>1. UNCHANGED <<checkpoint, durable>> \/ RenameCheckpoint \/ SyncCheckpoint
        BY DEF Verify, OpenTarget, Fingerprint, Resume, OpenDependency, CheckChunk,
               FingerprintAgain, Exit, Become
      <4>2. {checkpoint, durable} \subseteq [Material -> Checkpoints \cup {NoCheckpoint}]
        BY DEF CheckpointInv, ProcessTypes
      <4> QED BY <1>1, <1>3, <2>1, <4>1, <4>2 DEF RenameCheckpoint, SyncCheckpoint
    <3>2. CASE c \in {checkpoint[m], durable[m]}
      BY <2>1, <3>2 DEF CheckpointInv, CheckpointIsTrue
    <3>3. CASE m = t /\ n.phase = "saving" /\ c = [signature |-> n.signature, next |-> n.next]
      BY <1>5, <2>1, <3>3
    <3> QED BY <3>1, <3>2, <3>3
  <2> QED BY <1>4, <2>1 DEF CheckpointIsTrue, IsRight, Touches
<1> QED BY <1>9, <1>10

-----------------------------------------------------------------------------
(* A verifier that has not started, or is gone, holds nothing.             *)
LEMMA NothingHeld ==
  ASSUME NEW p \in {"idle", "started"}, verifier' = [NotRunning EXCEPT !.phase = p]
  PROVE  HandlesInv' /\ CheckedInv'
<1>1. /\ verifier'.phase = p /\ verifier'.next = 0 /\ verifier'.exit = "none"
      /\ DOMAIN verifier'.opened = {}
  BY DEF NotRunning
<1>2. HandlesInv'
  BY <1>1 DEF HandlesInv, Signed, Covers
<1>3. CheckedInv'
  BY <1>1 DEF CheckedInv
<1> QED BY <1>2, <1>3

LEMMA NotRunningIdle == NotRunning = [NotRunning EXCEPT !.phase = "idle"]
BY DEF NotRunning

LEMMA ScriptBegin ==
  ASSUME CheckpointInv, Begin
  PROVE  HandlesInv' /\ CheckedInv' /\ ScriptInv' /\ VerifiedIsConsistent'
<1>1. /\ verifier.phase = "idle" /\ UNCHANGED <<version, flaws, verifier>>
      /\ version \in Contents
      /\ driver'.phase = "running" /\ driver'.at = 1 /\ driver'.signature = version
      /\ report' = [m \in Material |-> Unchecked]
  BY DEF Begin, CheckpointInv, ScriptInv, ProcessTypes, TypeOK
<1>2. HandlesInv' /\ CheckedInv'
  BY <1>1 DEF CheckpointInv, HandlesInv, CheckedInv, Signed, Covers
<1>3. Covers(version', driver'.signature)
  <2>1. \A d \in Material : version[d] \in Int
    BY <1>1 DEF Contents
  <2> QED BY <1>1, <2>1 DEF Covers, Contents
<1>4. ScriptInv'
  BY <1>1, <1>3 DEF ScriptInv, Covers
<1>5. VerifiedIsConsistent'
  BY <1>1 DEF VerifiedIsConsistent, Unchecked
<1> QED BY <1>2, <1>4, <1>5

LEMMA ScriptLaunch ==
  ASSUME CheckpointInv, Launch
  PROVE  HandlesInv' /\ CheckedInv' /\ ScriptInv' /\ VerifiedIsConsistent'
<1>1. HandlesInv' /\ CheckedInv'
  BY NothingHeld DEF Launch
<1>2. /\ driver.phase = "running" /\ driver.at <= Len(Order) /\ verifier.phase = "idle"
      /\ UNCHANGED <<version, flaws, driver>> /\ verifier'.phase = "started"
      /\ Target' = Target
      /\ report \in [Material -> [status : Statuses, checked : 0 .. Positions]]
      /\ report' = [report EXCEPT ![Target] = [status |-> "NOT_VERIFIED", checked |-> 0]]
  BY DEF Launch, CheckpointInv, ProcessTypes, Target, NotRunning
<1>3. \A m \in Material : m = Target \/ report'[m] = report[m]
  BY <1>2
<1>4. \A n \in 1 .. driver.at - 1 : Order[n] \in Material
  BY <1>2, OrderAssumption DEF CheckpointInv, ProcessTypes, Drivers
<1>5. ScriptInv'
  BY <1>2, <1>3, <1>4 DEF CheckpointInv, ScriptInv, Covers
<1>6. \A m \in Material : report'[m].status = "VERIFIED" => report[m].status = "VERIFIED"
  BY <1>2
<1>7. VerifiedIsConsistent'
  BY <1>2, <1>6 DEF CheckpointInv, VerifiedIsConsistent, IsRight, Touches
<1> QED BY <1>1, <1>5, <1>7

(* A run that stops vouches for no table more than before.                 *)
LEMMA ScriptStops ==
  ASSUME CheckpointInv, flaws' = flaws, NEW s, s # "VERIFIED", NEW c, Stop(s, c),
         verifier' = NotRunning
  PROVE  HandlesInv' /\ CheckedInv' /\ ScriptInv' /\ VerifiedIsConsistent'
<1>1. HandlesInv' /\ CheckedInv' /\ verifier'.phase = "idle"
  BY NothingHeld, NotRunningIdle DEF NotRunning
<1>2. driver'.phase = "stopped" /\ driver'.signature = driver.signature
  BY DEF Stop, CheckpointInv, ProcessTypes, Drivers
<1>3. \A m \in Material : report'[m].status = "VERIFIED" => report[m].status = "VERIFIED"
  BY DEF Stop, CheckpointInv, ProcessTypes
<1>4. ScriptInv'
  BY <1>1, <1>2 DEF ScriptInv
<1>5. VerifiedIsConsistent'
  BY <1>2, <1>3 DEF CheckpointInv, VerifiedIsConsistent, IsRight, Touches
<1> QED BY <1>1, <1>4, <1>5

(* A fingerprint between that of the script and the files as they are is   *)
(* both, when these agree.                                                 *)
LEMMA ScriptCollect ==
  ASSUME CheckpointInv, Collect
  PROVE  HandlesInv' /\ CheckedInv' /\ ScriptInv' /\ VerifiedIsConsistent'
<1>1. /\ driver.phase = "running" /\ verifier.phase = "exited" /\ verifier' = NotRunning
      /\ UNCHANGED <<version, flaws, checkpoint, durable>>
      /\ driver \in Drivers /\ driver.at <= Len(Order) /\ version \in Contents
      /\ driver.signature \in Contents
      /\ report \in [Material -> [status : Statuses, checked : 0 .. Positions]]
  BY DEF Collect, CheckpointInv, ProcessTypes, TypeOK, ScriptInv
<1>2. CASE \E s : s # "VERIFIED" /\ \E c : Stop(s, c)
  BY <1>1, <1>2, ScriptStops
<1>3. ASSUME version = driver.signature, "VERIFIED" \in StatusOf(verifier.exit),
             report' = [report EXCEPT
               ![Target] = [status |-> "VERIFIED", checked |-> verifier.through]],
             driver' = [driver EXCEPT !.at = @ + 1]
      PROVE  HandlesInv' /\ CheckedInv' /\ ScriptInv' /\ VerifiedIsConsistent'
  <2>1. verifier.exit = "verified"
    BY <1>3 DEF StatusOf
  <2>2. Target \in Material /\ Touches(Target) \subseteq Material
    BY <1>1, TargetType DEF CheckpointInv
  <2>3. /\ verifier.signature \in Contents
        /\ Covers(verifier.signature, driver.signature)
        /\ Covers(version, verifier.signature)
    BY <1>1, <2>1 DEF CheckpointInv, HandlesInv, Signed
  <2>4. \A d \in Material : verifier.signature[d] = driver.signature[d]
    <3>1. \A d \in Material : version[d] \in Int /\ verifier.signature[d] \in Int
      BY <1>1, <2>3 DEF Contents
    <3>2. \A d \in Material : /\ driver.signature[d] <= verifier.signature[d]
                              /\ verifier.signature[d] <= version[d]
      BY <1>1, <2>3 DEF Contents, Covers
    <3> QED BY <1>3, <3>1, <3>2
  <2>5. \A j \in Index : IsRight(Target, j, verifier.signature)
    BY <1>1, <2>1 DEF CheckpointInv, CheckedInv
  <2>6. \A j \in Index : IsRight(Target, j, driver.signature)
    BY <2>2, <2>4, <2>5, SameFiles
  <2>7. driver'.phase = "running" /\ driver'.signature = driver.signature
        /\ driver'.at = driver.at + 1 /\ driver.at \in Nat
    BY <1>1, <1>3 DEF Drivers
  <2>8. HandlesInv' /\ CheckedInv' /\ verifier'.phase = "idle"
    BY <1>1, NothingHeld, NotRunningIdle DEF NotRunning
  <2>9. \A n \in 1 .. driver'.at - 1 : report'[Order[n]].status = "VERIFIED"
    <3>1. ASSUME NEW n \in 1 .. driver.at PROVE report'[Order[n]].status = "VERIFIED"
      <4>1. Order[n] \in Material
        BY <1>1, <2>7, OrderAssumption
      <4>2. CASE Order[n] = Target
        BY <1>1, <1>3, <2>2, <4>2
      <4>3. CASE Order[n] # Target
        <5>1. n \in 1 .. driver.at - 1
          BY <2>7, <4>3 DEF Target
        <5>2. report[Order[n]].status = "VERIFIED"
          BY <1>1, <4>3, <5>1 DEF CheckpointInv, ScriptInv
        <5> QED BY <1>1, <1>3, <4>1, <4>3, <5>2
      <4> QED BY <4>2, <4>3
    <3> QED BY <2>7, <3>1
  <2>10. ScriptInv'
    BY <1>1, <2>7, <2>8, <2>9 DEF CheckpointInv, ScriptInv, Covers
  <2>11. \A m \in Material : m = Target \/ report'[m] = report[m]
    BY <1>1, <1>3
  <2>12. ASSUME NEW m \in Material, report'[m].status = "VERIFIED", NEW j \in Index
         PROVE  IsRight(m, j, driver.signature)
    BY <2>6, <2>11, <2>12 DEF CheckpointInv, VerifiedIsConsistent
  <2>13. VerifiedIsConsistent'
    BY <1>1, <2>7, <2>12 DEF VerifiedIsConsistent, IsRight, Touches
  <2> QED BY <2>8, <2>10, <2>13
<1>4. \/ \E s : s # "VERIFIED" /\ \E c : Stop(s, c)
      \/ /\ version = driver.signature /\ "VERIFIED" \in StatusOf(verifier.exit)
         /\ report' = [report EXCEPT
               ![Target] = [status |-> "VERIFIED", checked |-> verifier.through]]
         /\ driver' = [driver EXCEPT !.at = @ + 1]
  BY DEF Collect
<1> QED BY <1>2, <1>3, <1>4

LEMMA ScriptAllVerified ==
  ASSUME CheckpointInv, AllVerified
  PROVE  HandlesInv' /\ CheckedInv' /\ ScriptInv' /\ VerifiedIsConsistent'
<1>1. /\ driver.phase = "running" /\ driver.at = Len(Order) + 1 /\ Len(Order) \in Nat
      /\ UNCHANGED <<version, flaws, verifier, report>>
      /\ driver'.phase = "done" /\ driver'.signature = driver.signature
      /\ driver \in Drivers
  BY OrderAssumption DEF AllVerified, CheckpointInv, ProcessTypes, Drivers
<1>2. verifier.phase = "idle"
  BY <1>1 DEF CheckpointInv, ScriptInv
<1>3. \A n \in 1 .. Len(Order) : report[Order[n]].status = "VERIFIED"
  BY <1>1, <1>2 DEF CheckpointInv, ScriptInv
<1>4. HandlesInv' /\ CheckedInv' /\ ScriptInv'
  BY <1>1, <1>2 DEF CheckpointInv, HandlesInv, CheckedInv, ScriptInv, Signed, Covers
<1>5. VerifiedIsConsistent'
  BY <1>1, <1>3 DEF CheckpointInv, VerifiedIsConsistent, IsRight, Touches
<1> QED BY <1>4, <1>5

LEMMA ScriptStep ==
  ASSUME CheckpointInv, Script
  PROVE  CheckpointInv'
<1>1. ProcessTypes'
  BY ScriptType
<1>2. HandlesInv' /\ CheckedInv' /\ ScriptInv' /\ VerifiedIsConsistent'
  BY ScriptBegin, ScriptLaunch, ScriptCollect, ScriptAllVerified DEF Script
<1>3. UNCHANGED <<flaws, checkpoint, durable>>
  BY DEF Script, Begin, Launch, Collect, AllVerified
<1>4. CheckpointIsTrue'
  BY <1>3 DEF CheckpointInv, CheckpointIsTrue, IsRight, Touches
<1> QED BY <1>1, <1>2, <1>4 DEF CheckpointInv

-----------------------------------------------------------------------------
(* A table that is replaced gets a newer file; only what was opened before *)
(* the fingerprint could be older than that says.                          *)
LEMMA WorldReplace ==
  ASSUME CheckpointInv, ~EarlyReplace, NEW m \in Material, Replace(m)
  PROVE  CheckpointInv'
<1>1. /\ verifier.phase # "opened" /\ version \in Contents
      /\ version' = [version EXCEPT ![m] = @ + 1]
      /\ UNCHANGED <<flaws, checkpoint, durable, verifier, driver, report>>
      /\ Target' = Target
  BY DEF Replace, MayReplace, CheckpointInv, ProcessTypes, TypeOK, Target
<1>2. ProcessTypes'
  BY WorldType
<1>3. \A d \in Material : version[d] \in Int /\ version[d] <= version'[d]
  BY <1>1 DEF Contents
<1>4. ASSUME NEW S \in SUBSET Material, NEW f \in [S -> 0 .. MaxVersion], Covers(version, f)
      PROVE  Covers(version', f)
  <2>1. \A d \in S : f[d] \in Int /\ version'[d] \in Int
    BY <1>1, <1>2 DEF ProcessTypes, TypeOK, Contents
  <2> QED BY <1>3, <1>4, <2>1 DEF Covers
<1>5. verifier \in Verifiers /\ driver \in Drivers
  BY DEF CheckpointInv, ProcessTypes
<1>6. Covers(version', verifier'.opened)
  <2>1. PICK S \in SUBSET Material : verifier.opened \in [S -> 0 .. MaxVersion]
    BY <1>5 DEF Verifiers, Openings
  <2>2. Covers(version, verifier.opened)
    BY DEF CheckpointInv, HandlesInv
  <2> QED BY <1>1, <1>4, <2>1, <2>2
<1>7. \A f \in Contents : Covers(version, f) => Covers(version', f)
  BY <1>4 DEF Contents
<1>8. HandlesInv'
  BY <1>1, <1>6, <1>7 DEF CheckpointInv, HandlesInv, Signed, Covers, Touches
<1>9. CheckedInv' /\ CheckpointIsTrue' /\ VerifiedIsConsistent'
  BY <1>1 DEF CheckpointInv, CheckedInv, CheckpointIsTrue, VerifiedIsConsistent,
              IsRight, Touches
<1>10. ScriptInv'
  BY <1>1, <1>7 DEF CheckpointInv, ScriptInv, Covers
<1> QED BY <1>2, <1>8, <1>9, <1>10 DEF CheckpointInv

LEMMA WorldStep ==
  ASSUME CheckpointInv,
         \/ \E m \in Material : NewCheckpoint(m)
         \/ Kill \/ Interrupt \/ Crash \/ UNCHANGED vars
  PROVE  CheckpointInv'
<1>1. ProcessTypes' /\ ProcessTypes
  BY WorldType DEF CheckpointInv
<1>2. /\ verifier \in Verifiers /\ driver \in Drivers
      /\ {checkpoint, durable} \subseteq [Material -> Checkpoints \cup {NoCheckpoint}]
  BY <1>1 DEF ProcessTypes
<1>3. ASSUME NEW m \in Material, NewCheckpoint(m) PROVE CheckpointInv'
  <2>1. UNCHANGED <<version, flaws, verifier, driver, report>>
    BY <1>3 DEF NewCheckpoint
  <2>2. \A k \in Material : {checkpoint'[k], durable'[k]} \ {NoCheckpoint}
                              \subseteq {checkpoint[k], durable[k]} \ {NoCheckpoint}
    BY <1>2, <1>3 DEF NewCheckpoint
  <2>3. CheckpointIsTrue'
    BY <2>1, <2>2 DEF CheckpointInv, CheckpointIsTrue, IsRight, Touches
  <2>4. HandlesInv' /\ CheckedInv' /\ ScriptInv' /\ VerifiedIsConsistent'
    BY <2>1 DEF CheckpointInv, HandlesInv, CheckedInv, ScriptInv, VerifiedIsConsistent,
                IsRight, Touches, Signed, Covers, Target
  <2> QED BY <1>1, <2>3, <2>4 DEF CheckpointInv
<1>4. CASE Kill
  <2>1. /\ verifier.phase # "idle" /\ verifier'.phase = "exited" /\ verifier'.exit = "killed"
        /\ verifier'.opened = verifier.opened
        /\ UNCHANGED <<version, flaws, checkpoint, durable, driver, report>>
    BY <1>2, <1>4 DEF Kill, Verifiers
  <2>2. HandlesInv' /\ CheckedInv' /\ ScriptInv'
    BY <2>1 DEF CheckpointInv, HandlesInv, CheckedInv, ScriptInv, Signed, Covers, Target
  <2>3. CheckpointIsTrue' /\ VerifiedIsConsistent'
    BY <2>1 DEF CheckpointInv, CheckpointIsTrue, VerifiedIsConsistent, IsRight, Touches
  <2> QED BY <1>1, <2>2, <2>3 DEF CheckpointInv
<1>5. CASE Interrupt
  <2>1. /\ Stop("INTERRUPTED", 0) /\ verifier' = NotRunning
        /\ UNCHANGED <<version, flaws, checkpoint, durable>>
    BY <1>5 DEF Interrupt
  <2>2. HandlesInv' /\ CheckedInv' /\ ScriptInv' /\ VerifiedIsConsistent'
    BY <2>1, ScriptStops
  <2>3. CheckpointIsTrue'
    BY <2>1 DEF CheckpointInv, CheckpointIsTrue, IsRight, Touches
  <2> QED BY <1>1, <2>2, <2>3 DEF CheckpointInv
<1>6. CASE Crash
  <2>1. /\ verifier' = NotRunning /\ driver'.phase = "stopped"
        /\ driver'.signature = driver.signature
        /\ checkpoint' \in {checkpoint, durable} /\ durable' = checkpoint'
        /\ UNCHANGED <<version, flaws, report>>
    BY <1>2, <1>6 DEF Crash, Drivers
  <2>2. HandlesInv' /\ CheckedInv' /\ verifier'.phase = "idle"
    BY <2>1, NothingHeld, NotRunningIdle DEF NotRunning
  <2>3. ScriptInv'
    BY <2>1, <2>2 DEF ScriptInv
  <2>4. CheckpointIsTrue' /\ VerifiedIsConsistent'
    BY <2>1 DEF CheckpointInv, CheckpointIsTrue, VerifiedIsConsistent, IsRight, Touches
  <2> QED BY <1>1, <2>2, <2>3, <2>4 DEF CheckpointInv
<1>7. CASE UNCHANGED vars
  BY <1>1, <1>7 DEF vars, CheckpointInv, HandlesInv, CheckedInv, ScriptInv, CheckpointIsTrue,
                    VerifiedIsConsistent, IsRight, Touches, Signed, Covers, Target
<1> QED BY <1>3, <1>4, <1>5, <1>6, <1>7

LEMMA CheckpointInitially == Init => CheckpointInv
<1> SUFFICES ASSUME Init PROVE CheckpointInv
  OBVIOUS
<1>1. ProcessTypes
  BY TypeInitially
<1>2. /\ verifier.phase = "idle" /\ DOMAIN verifier.opened = {} /\ driver.phase = "stopped"
      /\ \A m \in Material : report[m].status = "NOT_CHECKED"
      /\ \A m \in Material : {checkpoint[m], durable[m]} = {NoCheckpoint}
  BY DEF Init, NotRunning, Unchecked
<1>3. HandlesInv /\ CheckedInv /\ ScriptInv
  BY <1>2 DEF HandlesInv, CheckedInv, ScriptInv, Signed, Covers
<1>4. CheckpointIsTrue /\ VerifiedIsConsistent
  BY <1>2 DEF CheckpointIsTrue, VerifiedIsConsistent
<1> QED BY <1>1, <1>3, <1>4 DEF CheckpointInv

LEMMA CheckpointStep ==
  ASSUME CheckpointInv, [Next]_vars, ~EarlyReplace
  PROVE  CheckpointInv'
<1>1. CASE Verify
  <2>1. ProcessTypes' /\ HandlesInv' /\ CheckedInv' /\ CheckpointIsTrue'
    BY <1>1, VerifyType, VerifyHandles, VerifyChecked
  <2>2. ScriptInv' /\ VerifiedIsConsistent'
    BY <1>1, VerifyScript
  <2> QED BY <2>1, <2>2 DEF CheckpointInv
<1>2. CASE Script
  BY <1>2, ScriptStep
<1>3. ASSUME NEW m \in Material, Replace(m) PROVE CheckpointInv'
  BY <1>3, WorldReplace
<1>4. CASE \/ \E m \in Material : NewCheckpoint(m)
           \/ Kill \/ Interrupt \/ Crash \/ UNCHANGED vars
  BY <1>4, WorldStep
<1> QED BY <1>1, <1>2, <1>3, <1>4 DEF Next

(* What a checkpoint covers was checked in the very files it names, also   *)
(* in what a crash leaves of it -- if no table is replaced between the     *)
(* opening of the target and its fingerprint (the run that allows this     *)
(* finds the counterexample).                                              *)
THEOREM CheckpointCorrect ==
  ASSUME ~EarlyReplace
  PROVE  Spec => []CheckpointIsTrue
<1>1. Init => CheckpointInv
  BY CheckpointInitially
<1>2. CheckpointInv /\ [Next]_vars => CheckpointInv'
  BY CheckpointStep
<1>3. CheckpointInv => CheckpointIsTrue
  BY DEF CheckpointInv
<1> QED BY <1>1, <1>2, <1>3, PTL DEF Spec

(* Under the same condition, what the script reports as verified is        *)
(* consistent in the files the script started with, and its last line says *)
(* so of every table.                                                      *)
THEOREM VerifiedCorrect ==
  ASSUME ~EarlyReplace
  PROVE  Spec => []VerifiedIsConsistent
<1>1. Init => CheckpointInv
  BY CheckpointInitially
<1>2. CheckpointInv /\ [Next]_vars => CheckpointInv'
  BY CheckpointStep
<1>3. CheckpointInv => VerifiedIsConsistent
  BY DEF CheckpointInv
<1> QED BY <1>1, <1>2, <1>3, PTL DEF Spec

=============================================================================
