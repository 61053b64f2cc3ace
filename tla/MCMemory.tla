------------------------------ MODULE MCMemory ------------------------------
(***************************************************************************)
(* Small instances of the memory of a generation: the pool that shares it  *)
(* out, one slot of a shared cache that is probed by two threads, and a    *)
(* shared cache that is resized.  They do not act on each other here; one  *)
(* of the three is at work and the other two are idle.                     *)
(***************************************************************************)
EXTENDS DependencyPool, SharedCache, CacheResize, TLC

VARIABLE part     \* which of the three is at work

all == <<vars, slotVars, resizeVars, part>>

HalfAndHalf == [s \in 0 .. Pages - 1 |-> IF s < (Pages + 1) \div 2 THEN "w1" ELSE "w2"]

ThreeTables == [t \in Table |-> IF t = "a" THEN 5 ELSE IF t = "b" THEN 3 ELSE 1]

Settings ==
  {[policy |-> "idle-reclaim", rebalance |-> TRUE, budget |-> 0],
   [policy |-> "cost-gated", rebalance |-> TRUE, budget |-> 3]}

(* The two that are idle are in one of their initial states. *)
MCInit ==
  /\ Init /\ SlotInit /\ ResizeInit
  /\ part \in {"pool", "slot", "storage"}
  /\ part # "pool" => config.policy = "idle-reclaim"
  /\ part # "slot" => page = [t \in Prober |-> CHOOSE p \in SlotPage : TRUE]
  /\ part # "storage" => cache = Fresh(2)

MCNext ==
  /\ UNCHANGED part
  /\ \/ part = "pool" /\ Next /\ UNCHANGED <<slotVars, resizeVars>>
     \/ part = "slot" /\ SlotNext /\ UNCHANGED <<vars, resizeVars>>
     \/ part = "storage" /\ ResizeNext /\ UNCHANGED <<vars, slotVars>>

MCSpec ==
  /\ MCInit /\ [][MCNext]_all
  /\ \A w \in Thread : WF_all(part = "pool" /\ Continue(w) /\ UNCHANGED <<slotVars, resizeVars, part>>)
  /\ WF_all(part = "slot" /\ Proceed(Survivor) /\ UNCHANGED <<vars, resizeVars, part>>)

(* Who asks for a table or for a page gets an answer: a thread that loads  *)
(* one wakes all who wait for it, and a lookup in a shared cache waits for *)
(* nobody.                                                                 *)
Answers == AcquireAnswers /\ NeverWaits
=============================================================================
