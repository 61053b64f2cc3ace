-------------------------- MODULE DependencyPool --------------------------
(***************************************************************************)
(* The memory that finished tables may take while others are generated or  *)
(* verified from them (dependency_resident.c).                             *)
(*                                                                         *)
(* Worker threads ask for a table when a move first leads to it            *)
(* (generate_egtb.c open_catalog_database): it is loaded as a whole, or    *)
(* gets a cache that all workers share, or else every worker has a private *)
(* one.  Loads and allocations run outside the pool's mutex; whoever asks  *)
(* for the same table meanwhile waits on the condition variable.           *)
(*                                                                         *)
(* Between two stages, when no worker runs, the coordinator moves memory   *)
(* between the shared caches.  When that pays off is decided from times    *)
(* and rates; here it may be decided either way.  What the budget allows   *)
(* is modelled exactly, in units of one page for each side with its slots. *)
(* All tables have one page size.                                          *)
(***************************************************************************)
EXTENDS Integers, FiniteSets, FiniteSetsExt

CONSTANTS Table, Thread,
          Full,         \* table -> its size
          Initial,      \* shared_bytes: first size of a shared cache
          Floor,        \* size that idle caches are reduced to
          MaxDatabase,  \* maximum_database
          Budget,       \* shared_budget
          Headroom,     \* what growth leaves for admissions: shared_budget / 20
          HighWater,    \* shared_budget / 10 * 9
          MaxStep,      \* most that an active transfer moves: shared_budget / 100
          Bootstrap,    \* what a returning cache may claim: shared_budget / 80
          Configs,      \* the settings considered
          Faults        \* whether memory and files may fail

Policies == {"cost-gated", "spare-budget", "idle-reclaim"}

None == "none"

ASSUME TableAssumption == IsFiniteSet(Table) /\ None \notin Table
ASSUME FullAssumption == Full \in [Table -> Nat \ {0}]
ASSUME UnitsAssumption ==
  /\ Initial \in Nat \ {0} /\ Floor \in 1 .. Initial
  /\ MaxDatabase \in Nat /\ Budget \in Nat
  /\ Headroom \in 0 .. Budget /\ HighWater \in 0 .. Budget
  /\ MaxStep \in Nat /\ Bootstrap \in Nat
ASSUME ConfigsAssumption ==
  Configs \subseteq [policy : Policies, rebalance : BOOLEAN, budget : Nat]
ASSUME PoolFaultsAssumption == Faults \in BOOLEAN

VARIABLES
  config,    \* policy, rebalance and the budget of resident tables
  entry,     \* table -> how the pool holds it
  views,     \* tables that some worker has a private view of
  stopped,   \* caches whose growth failed
  used,      \* bytes of resident tables, reserved or loaded
  mem,       \* sizes of the shared caches and what is allocated for them
  loan,      \* table -> loan_base: its payload without the loan, or 0
  reserve,   \* recovery_reserve
  trial,     \* the transfer under observation
  call,      \* worker -> the table it asks for and how far it is
  asleep     \* workers that wait for `changed`

pool == <<config, entry, views, stopped, used, mem, loan, reserve, trial>>
vars == <<pool, call, asleep>>

NoTrial == [donor |-> None, receiver |-> None, donorSize |-> 0,
            receiverSize |-> 0, active |-> FALSE, rollback |-> FALSE]

Fallback == 1     \* a cache of one page for each side

Granted(t, n) == Min({n, Full[t]})
Positive(n) == Max({n, 0})

Sizes == {Full[t] : t \in Table}

Modes == {"absent", "loading", "resident", "cached", "creating", "shared",
          "private", "failed"}
Steps == {"idle", "resident", "load", "share", "create", "view", "failed"}

TypeOK ==
  /\ config \in Configs
  /\ entry \in [Table -> Modes]
  /\ views \subseteq Table /\ stopped \subseteq Table
  /\ used \in Nat /\ reserve \in Nat
  /\ mem.size \in [Table -> Nat] /\ mem.allocated \in Nat /\ mem.over \in BOOLEAN
  /\ loan \in [Table -> Nat]
  /\ {trial.donor, trial.receiver} \subseteq Table \cup {None}
  /\ trial.active \in BOOLEAN /\ trial.rollback \in BOOLEAN
  /\ call \in [Thread -> [step : Steps, table : Table \cup {None}]]
  /\ asleep \subseteq Thread

Init ==
  /\ config \in Configs
  /\ entry = [t \in Table |-> "absent"]
  /\ views = {} /\ stopped = {}
  /\ used = 0 /\ reserve = 0
  /\ mem = [size |-> [t \in Table |-> 0], allocated |-> 0, over |-> FALSE]
  /\ loan = [t \in Table |-> 0]
  /\ trial = NoTrial
  /\ call = [w \in Thread |-> [step |-> "idle", table |-> None]]
  /\ asleep = {}

-----------------------------------------------------------------------------
(***************************************************************************)
(* Workers.  To name a table is to open it and to ask for it.              *)
(***************************************************************************)

Shared(t) == mem.size[t] > 0

Borrowers(loans) == {t \in Table : loans[t] > 0}

(* Mutant: the fallback of a lent cache is handed out. *)
AdmissionAvailable_Loans(m, loans) == Positive(Budget - m.allocated - reserve)

(* What may still be handed out. *)
AdmissionAvailable(m, loans) ==
  Positive(Budget - m.allocated - reserve - Fallback * Cardinality(Borrowers(loans)))

(* Memory after n more is allocated and none is freed. *)
Reserved(m, n) ==
  [m EXCEPT !.allocated = @ + n, !.over = @ \/ m.allocated + n > Budget]

To(w, step) ==
  call' = [call EXCEPT ![w] =
    [step |-> step, table |-> IF step \in {"idle", "failed"} THEN None ELSE @.table]]

Busy(w) == entry[call[w].table] \in {"loading", "creating"}

Awake(w, step) == call[w].step = step /\ w \notin asleep /\ ~Busy(w)

Ask(w, t) ==
  /\ call[w].step = "idle"
  /\ call' = [call EXCEPT ![w] = [step |-> "resident", table |-> t]]
  /\ UNCHANGED <<pool, asleep>>

(* pthread_cond_wait, which releases the mutex. *)
Wait(w) ==
  /\ call[w].step \in {"resident", "share"}
  /\ w \notin asleep
  /\ Busy(w)
  /\ asleep' = asleep \cup {w}
  /\ UNCHANGED <<pool, call>>

(* Whether t may be resident; it is charged before it is read. *)
Fits(t) == Full[t] <= MaxDatabase /\ Full[t] <= config.budget - used

(* The first worker that asks makes the entry and charges the load. *)
Enter(w) ==
  LET t == call[w].table IN
  /\ Awake(w, "resident")
  /\ entry[t] = "absent"
  /\ IF Fits(t)
       THEN /\ entry' = [entry EXCEPT ![t] = "loading"]
            /\ used' = used + Full[t]
            /\ To(w, "load")
       ELSE /\ entry' = [entry EXCEPT ![t] = "cached"]
            /\ To(w, "share")
            /\ UNCHANGED used
  /\ UNCHANGED <<config, views, stopped, mem, loan, reserve, trial, asleep>>

(* A later one finds it. *)
Find(w) ==
  LET t == call[w].table IN
  /\ Awake(w, "resident")
  /\ entry[t] # "absent"
  /\ To(w, CASE entry[t] = "failed" -> "failed"
             [] entry[t] = "resident" -> "idle"
             [] OTHER -> "share")
  /\ UNCHANGED <<pool, asleep>>

(* Mutant: only a success is announced. *)
Woken_Success(ok) == IF ok THEN {} ELSE asleep

Woken(ok) == {}      \* pthread_cond_broadcast: who still sleeps

Load(w, ok) ==
  LET t == call[w].table IN
  /\ call[w].step = "load"
  /\ entry' = [entry EXCEPT ![t] = IF ok THEN "resident" ELSE "failed"]
  /\ used' = IF ok THEN used ELSE used - Full[t]
  /\ asleep' = Woken(ok)
  /\ To(w, IF ok THEN "idle" ELSE "failed")
  /\ UNCHANGED <<config, views, stopped, mem, loan, reserve, trial>>

(* shared_decided: a table that does not fit is left to private caches. *)
Decide(w) ==
  LET t == call[w].table
      n == Granted(t, Initial) IN
  /\ Awake(w, "share")
  /\ entry[t] = "cached"
  /\ IF n > AdmissionAvailable(mem, loan)
       THEN /\ entry' = [entry EXCEPT ![t] = "private"]
            /\ To(w, "view")
            /\ UNCHANGED mem
       ELSE /\ entry' = [entry EXCEPT ![t] = "creating"]
            /\ mem' = Reserved(mem, n)
            /\ To(w, "create")
  /\ UNCHANGED <<config, views, stopped, used, loan, reserve, trial, asleep>>

Follow(w) ==
  LET t == call[w].table IN
  /\ Awake(w, "share")
  /\ entry[t] # "cached"
  /\ To(w, CASE entry[t] = "failed" -> "failed"
             [] entry[t] = "shared" -> "idle"
             [] OTHER -> "view")
  /\ UNCHANGED <<pool, asleep>>

Create(w, ok) ==
  LET t == call[w].table
      n == Granted(t, Initial) IN
  /\ call[w].step = "create"
  /\ entry' = [entry EXCEPT ![t] = IF ok THEN "shared" ELSE "failed"]
  /\ mem' = IF ok THEN [mem EXCEPT !.size[t] = n] ELSE Reserved(mem, -n)
  /\ asleep' = Woken(ok)
  /\ To(w, IF ok THEN "idle" ELSE "failed")
  /\ UNCHANGED <<config, views, stopped, used, loan, reserve, trial>>

(* The private view and its registration. *)
Register(w) ==
  /\ call[w].step = "view"
  /\ views' = views \cup {call[w].table}
  /\ To(w, "idle")
  /\ UNCHANGED <<config, entry, stopped, used, mem, loan, reserve, trial, asleep>>

(* No memory for the entry, the probe, the view or its registration. *)
CallFails(w) ==
  /\ Faults
  /\ \/ Awake(w, "resident") /\ entry[call[w].table] = "absent"
     \/ Awake(w, "share") /\ entry[call[w].table] = "shared"
     \/ call[w].step = "view"
  /\ To(w, "failed")
  /\ UNCHANGED <<pool, asleep>>

Continue(w) ==
  \/ Wait(w) \/ Enter(w) \/ Find(w) \/ Decide(w) \/ Follow(w) \/ Register(w)
  \/ Load(w, TRUE) \/ Create(w, TRUE)

Fail(w) == CallFails(w) \/ (Faults /\ (Load(w, FALSE) \/ Create(w, FALSE)))

-----------------------------------------------------------------------------
(***************************************************************************)
(* Resizing.  Each operator gives the set of outcomes: with Faults, any    *)
(* allocation may fail.                                                    *)
(***************************************************************************)

Outcome(ok, m) == [ok |-> ok, mem |-> m]
Failing(outcomes) == IF Faults THEN outcomes ELSE {}
Free(m) == Budget - m.allocated

(* Cache t gets size n; meanwhile `peak` was allocated. *)
Sized(m, t, n, peak) ==
  [size |-> [m.size EXCEPT ![t] = n],
   allocated |-> m.allocated - m.size[t] + n,
   over |-> m.over \/ peak > Budget]

(* egtb_shared_cache_resize: the new cache is filled from the old one. *)
Migrate(m, t, n) ==
  IF n = m.size[t] THEN {Outcome(TRUE, m)}
  ELSE {Outcome(TRUE, Sized(m, t, n, m.allocated + n))} \cup Failing({Outcome(FALSE, m)})

(* egtb_shared_cache_discard_resize: the old cache is replaced by a small  *)
(* one before the new one is allocated, and the small one may be what      *)
(* remains.                                                                *)
Discard(m, t, n) ==
  LET small == Sized(m, t, Fallback, m.allocated + Fallback) IN
  IF n = m.size[t] THEN {Outcome(TRUE, m)}
  ELSE {Outcome(TRUE, Sized(small, t, n, small.allocated + n))}
         \cup Failing({Outcome(FALSE, m), Outcome(FALSE, small)})

Refused(m, t, n, active) ==
  /\ n # m.size[t]
  /\ n > Free(m)
  /\ active => Fallback > Free(m) \/ n > Free(m) + m.size[t] - Fallback

(* coordinated_resize *)
Coordinated(m, t, n, active) ==
  IF Refused(m, t, n, active) THEN {Outcome(FALSE, m)}
  ELSE IF n > Free(m) THEN Discard(m, t, n)
  ELSE Migrate(m, t, n)

-----------------------------------------------------------------------------
(***************************************************************************)
(* Transfers: one at a time, observed, then accepted or undone.            *)
(***************************************************************************)

Quiescent == \A w \in Thread : call[w].step = "idle"

Adopt(s) == mem' = s.mem /\ reserve' = s.reserve /\ trial' = s.trial
Finished(m) == [mem |-> m, reserve |-> 0, trial |-> NoTrial]

(* Mutant: a deferred recovery forgets its reservation. *)
Deferred_Forgets(m, peak, tr) ==
  [mem |-> m, reserve |-> 0, trial |-> [tr EXCEPT !.rollback = TRUE]]

(* Mutant: the operands are swapped. *)
Deferred_Swapped(m, peak, tr) ==
  [mem |-> m, reserve |-> m.allocated - peak, trial |-> [tr EXCEPT !.rollback = TRUE]]

Deferred(m, peak, tr) ==
  [mem |-> m, reserve |-> peak - m.allocated, trial |-> [tr EXCEPT !.rollback = TRUE]]

(* finish_transfer(rollback): the receiver first, then the donor; what     *)
(* fails is tried again later and stays reserved until then.               *)
Undone(m, res, tr) ==
  LET peak == m.allocated + res
      received == IF tr.receiver = None THEN {Outcome(TRUE, m)}
                  ELSE Coordinated(m, tr.receiver, tr.receiverSize, tr.active)
      returned(o) == Coordinated(o.mem, tr.donor, tr.donorSize, tr.active) IN
  UNION {IF ~o.ok THEN {Deferred(o.mem, peak, tr)}
         ELSE {IF d.ok THEN Finished(d.mem) ELSE Deferred(d.mem, peak, tr) : d \in returned(o)} :
           o \in received}

(* Pressure on the donor, no clear benefit, a deadline, counters that were *)
(* reset, a new phase, or a recovery that was deferred.                    *)
Rollback ==
  /\ Quiescent
  /\ trial.donor # None
  /\ \E s \in Undone(mem, reserve, trial) : Adopt(s)
  /\ UNCHANGED <<config, entry, views, stopped, used, loan, call, asleep>>

(* What is lent to the receiver of an active transfer becomes its own. *)
Settled(d, r) ==
  [t \in Table |-> IF t = r \/ (t = d /\ loan[d] >= mem.size[d]) THEN 0 ELSE loan[t]]

Accept ==
  /\ Quiescent
  /\ trial.donor # None /\ ~trial.rollback
  /\ Adopt(Finished(mem))
  /\ loan' = IF trial.active THEN Settled(trial.donor, trial.receiver) ELSE loan
  /\ UNCHANGED <<config, entry, views, stopped, used, call, asleep>>

(* Both steps of a transfer, and its rollback when one of them fails. *)
Transferred(tr, donorTo, receiverTo, peak) ==
  LET reserved(m) == peak - m.allocated
      without(o) == IF tr.active THEN Undone(o.mem, reserved(o.mem), tr)
                    ELSE {[mem |-> o.mem, reserve |-> 0, trial |-> NoTrial]}
      grown(o) == IF tr.receiver = None THEN {o}
                  ELSE Coordinated(o.mem, tr.receiver, receiverTo, tr.active)
      alone == IF tr.active THEN tr ELSE [tr EXCEPT !.receiver = None] IN
  UNION {IF ~o.ok THEN without(o)
         ELSE UNION {IF g.ok THEN {[mem |-> g.mem, reserve |-> reserved(g.mem), trial |-> tr]}
                     ELSE Undone(g.mem, IF tr.active THEN reserved(g.mem) ELSE reserved(o.mem), alone) :
                       g \in grown(o)} :
           o \in Coordinated(mem, tr.donor, donorTo, tr.active)}

Trial(d, r, active) ==
  [donor |-> d, donorSize |-> mem.size[d], receiver |-> r, active |-> active,
   receiverSize |-> IF r = None THEN 0 ELSE mem.size[r], rollback |-> FALSE]

(* Mutant: the fallback is not kept free. *)
Capacity_Whole(t, available) == available + mem.size[t]

(* What t may have when its old cache can be given up for a fallback first. *)
Capacity(t, available) ==
  IF available >= Fallback THEN available + mem.size[t] - Fallback ELSE available

Physical(t) == Capacity(t, AdmissionAvailable(mem, loan))

Protected(t) ==
  Capacity(t, Positive(AdmissionAvailable(mem, loan) -
                       IF config.policy = "idle-reclaim" THEN Headroom ELSE 0))

(* A cache under pressure that may not grow. *)
Unfunded(r) ==
  /\ Shared(r) /\ r \notin stopped
  /\ mem.size[r] < Full[r]
  /\ Protected(r) <= mem.size[r]

(* What is allocated while the donor shrinks, while the receiver grows,    *)
(* and while either is undone.                                             *)
Peaks(dn, da, rn, ra) ==
  LET after == mem.allocated - da + dn IN
  {mem.allocated + dn, after + rn, after - ra + rn + ra}

(* Old policies: from an idle cache to one under pressure, or to nobody.   *)
StartTransfer(d, r, small, target) ==
  LET ra == IF r = None THEN 0 ELSE mem.size[r]
      peaks == Peaks(small, mem.size[d], target, ra) IN
  /\ Quiescent
  /\ config.policy # "idle-reclaim" /\ config.rebalance
  /\ trial.donor = None
  /\ Shared(d) /\ d # r
  /\ small \in Floor .. mem.size[d] - 1
  /\ IF r = None THEN target = 0 /\ mem.allocated > HighWater
     ELSE Unfunded(r) /\ target \in mem.size[r] + 1 .. Full[r]
  /\ \A p \in peaks : p <= Budget
  /\ \E s \in Transferred(Trial(d, r, FALSE), small, target, Max(peaks)) : Adopt(s)
  /\ UNCHANGED <<config, entry, views, stopped, used, loan, call, asleep>>

(* idle-reclaim: from one active cache to another. *)
StartActive(d, r, amount) ==
  LET grown == Granted(r, mem.size[r] + amount)
      peak == Max({mem.allocated, mem.allocated - amount - mem.size[r] + grown}) IN
  /\ Quiescent
  /\ config.policy = "idle-reclaim" /\ config.rebalance
  /\ trial.donor = None
  /\ Shared(d) /\ d # r /\ Unfunded(r)
  /\ amount \in 1 .. Min({MaxStep, mem.size[r] \div 2})
  /\ mem.size[d] - amount >= Initial
  /\ grown > mem.size[r]
  /\ peak + Fallback <= Budget
  /\ \E s \in Transferred(Trial(d, r, TRUE), mem.size[d] - amount, grown, peak + Fallback) :
       Adopt(s)
  /\ UNCHANGED <<config, entry, views, stopped, used, loan, call, asleep>>

-----------------------------------------------------------------------------
(***************************************************************************)
(* Growth, and the capacity that idle caches and borrowers give back.      *)
(***************************************************************************)

MayBorrow(t, protected) ==
  /\ config.policy = "idle-reclaim" /\ config.rebalance
  /\ Borrowers(loan) \subseteq {t}
  /\ mem.size[t] + 1 > protected

LoanAfter(t, n, borrowed) ==
  IF borrowed
    THEN IF loan[t] = 0 THEN mem.size[t] ELSE loan[t]
    ELSE IF loan[t] = 0 THEN 0 ELSE loan[t] + n - mem.size[t]

(* The loan of t is over once t has no more than its own. *)
Repaid(loans, t, m) ==
  IF m.size[t] <= loans[t] THEN [loans EXCEPT ![t] = 0] ELSE loans

(* policy_decide and the resize.  A returning cache may claim some of the  *)
(* headroom; which caches were larger before is not kept.                  *)
Grow(t, n, returning) ==
  LET claim == IF returning THEN Min({Bootstrap, Physical(t)}) ELSE 0
      protected == Max({Protected(t), claim})
      limit == IF MayBorrow(t, protected) THEN Max({protected, Physical(t)}) ELSE protected
      resized == IF n > Free(mem) THEN Discard(mem, t, n) ELSE Migrate(mem, t, n) IN
  /\ Quiescent
  /\ trial.donor = None
  /\ Shared(t) /\ t \notin stopped
  /\ returning => config.policy = "idle-reclaim"
  /\ n \in mem.size[t] + 1 .. Min({limit, Full[t]})
  /\ \E o \in resized :
       /\ mem' = o.mem
       /\ IF o.ok
            THEN /\ loan' = [loan EXCEPT ![t] = LoanAfter(t, n, n > protected)]
                 /\ UNCHANGED stopped
            ELSE /\ loan' = Repaid(loan, t, o.mem)
                 /\ stopped' = stopped \cup {t}
  /\ UNCHANGED <<config, entry, views, used, reserve, trial, call, asleep>>

Settle(t, outcomes) == {[mem |-> o.mem, loan |-> Repaid(loan, t, o.mem)] : o \in outcomes}

(* reclaim_idle_entry, when idle_reclaim_reason allows it *)
Reclaimed(t) ==
  IF /\ config.policy = "idle-reclaim" /\ config.rebalance
     /\ trial.donor = None
     /\ mem.size[t] > Floor
     /\ Fallback <= Free(mem)
  THEN Settle(t, Discard(mem, t, Floor))
  ELSE {}

(* The loan only. *)
Returned(t) ==
  Settle(t, IF loan[t] <= Free(mem) THEN Migrate(mem, t, loan[t]) ELSE Discard(mem, t, loan[t]))

(* repay_headroom, for another cache than t *)
RepaidFor(t) ==
  IF config.policy = "idle-reclaim" /\ trial.donor = None /\ Fallback <= Free(mem)
  THEN UNION {Reclaimed(e) \cup Returned(e) : e \in Borrowers(loan) \ {t}}
  ELSE {}

(* An idle cache makes room for one under pressure. *)
Reclaim(r, t) ==
  /\ Quiescent
  /\ r # t /\ Unfunded(r)
  /\ \E o \in Reclaimed(t) : mem' = o.mem /\ loan' = o.loan
  /\ UNCHANGED <<config, entry, views, stopped, used, reserve, trial, call, asleep>>

(* returning_waiter: repayment makes room for all it may claim. *)
RepayWaiter(t) ==
  LET claim == Granted(t, Bootstrap) IN
  /\ Quiescent
  /\ Shared(t) /\ t \notin stopped
  /\ mem.size[t] < claim /\ Physical(t) < claim
  /\ \E e \in Borrowers(loan) \ {t} : Physical(t) + mem.size[e] - loan[e] >= claim
  /\ \E o \in RepaidFor(t) : mem' = o.mem /\ loan' = o.loan
  /\ UNCHANGED <<config, entry, views, stopped, used, reserve, trial, call, asleep>>

(* maintain_private: room is made for a table under pressure, and the      *)
(* private views are given a shared cache.                                 *)
MaintainPrivate(t) ==
  LET n == Granted(t, Initial)
      funded(o) == n <= AdmissionAvailable(o.mem, o.loan)
      now == [mem |-> mem, loan |-> loan]
      recalled == IF RepaidFor(t) # {} THEN RepaidFor(t)
                  ELSE UNION {Reclaimed(e) : e \in Table \ {t}} IN
  /\ Quiescent
  /\ entry[t] = "private" /\ t \in views
  /\ config.policy = "idle-reclaim"
  /\ trial.donor = None
  /\ n <= Budget
  /\ \E o \in IF funded(now) THEN {now} ELSE recalled :
       /\ loan' = o.loan
       /\ \/ /\ funded(o)
             /\ entry' = [entry EXCEPT ![t] = "shared"]
             /\ mem' = [Reserved(o.mem, n) EXCEPT !.size[t] = n]
          \/ /\ ~funded(o) \/ Faults
             /\ mem' = o.mem
             /\ UNCHANGED entry
  /\ UNCHANGED <<config, views, stopped, used, reserve, trial, call, asleep>>

(* dependency_private_unregister: the workers of a stage are done. *)
Unregister(t) ==
  /\ Quiescent
  /\ t \in views
  /\ views' = views \ {t}
  /\ UNCHANGED <<config, entry, stopped, used, mem, loan, reserve, trial, call, asleep>>

Coordinate ==
  \/ Rollback \/ Accept
  \/ \E t \in Table :
       \/ MaintainPrivate(t) \/ RepayWaiter(t) \/ Unregister(t)
       \/ \E n \in 1 .. Full[t], returning \in BOOLEAN : Grow(t, n, returning)
       \/ \E r \in Table : Reclaim(r, t)
       \/ \E r \in Table, n \in 1 .. MaxStep : StartActive(t, r, n)
       \/ \E r \in Table \cup {None}, small \in 1 .. Full[t], n \in 0 .. Max(Sizes) :
            StartTransfer(t, r, small, n)

Next ==
  \/ \E w \in Thread : Continue(w) \/ Fail(w) \/ \E t \in Table : Ask(w, t)
  \/ Coordinate

Spec == Init /\ [][Next]_vars

(* Each thread runs. *)
FairSpec == Spec /\ \A w \in Thread : WF_vars(Continue(w))

-----------------------------------------------------------------------------
(***************************************************************************)
(* Properties.                                                             *)
(***************************************************************************)

Total(f) == MapThenSumSet(LAMBDA t : f[t], Table)

(* What is allocated for caches that are being created, and for tables     *)
(* that are loaded or resident.                                            *)
Promised == [t \in Table |-> IF entry[t] = "creating" THEN Granted(t, Initial) ELSE 0]
Charged == [t \in Table |-> IF entry[t] \in {"loading", "resident"} THEN Full[t] ELSE 0]

(* "bounds combined allocations including migration/slot metadata": not    *)
(* even between two allocations of one resize is the budget exceeded, and  *)
(* what is reserved for a recovery is left alone.  What was charged and    *)
(* what failed is neither lost nor counted twice.                          *)
BudgetHolds ==
  /\ ~mem.over
  /\ mem.allocated + reserve <= Budget
  /\ mem.allocated = Total(mem.size) + Total(Promised)
  /\ used = Total(Charged)
  /\ used <= config.budget

(* "Undo receiver first: the preflight reserved this exact recovery path": *)
(* whatever was admitted since the transfer began, and however often the   *)
(* recovery was deferred, the budget does not stand in its way.            *)
RollbackIsFunded ==
  trial.donor # None =>
    LET m == IF trial.receiver = None THEN mem
             ELSE Sized(mem, trial.receiver, trial.receiverSize, 0) IN
    /\ trial.receiver # None =>
         ~Refused(mem, trial.receiver, trial.receiverSize, trial.active)
    /\ ~Refused(m, trial.donor, trial.donorSize, trial.active)

(* "Keep the tiny discard-resize fallback fundable while a loan exists":   *)
(* there is one borrower at most, it holds more than its own, and it can   *)
(* be made to give the loan back.                                          *)
LoanIsRepayable ==
  /\ Cardinality(Borrowers(loan)) <= 1
  /\ trial.donor = None =>
       \A t \in Borrowers(loan) :
         /\ loan[t] < mem.size[t]
         /\ Fallback <= Free(mem)
         /\ loan[t] <= Free(mem) + mem.size[t] - Fallback

(* Whatever happens to the caches, the memory for it is there. *)
MemoryIsFunded == TypeOK /\ BudgetHolds /\ RollbackIsFunded /\ LoanIsRepayable

(* Whoever asks for a table is answered: the thread that loads or creates  *)
(* it wakes all that wait for it, also when it fails.                      *)
AcquireAnswers ==
  \A w \in Thread : call[w].step # "idle" ~> call[w].step \in {"idle", "failed"}

-----------------------------------------------------------------------------
(***************************************************************************)
(* Why the memory is there: whatever is tried, what the recovery may need  *)
(* was reserved before the transfer began.                                 *)
(***************************************************************************)
PoolTypeOK ==
  /\ config \in Configs
  /\ entry \in [Table -> Modes]
  /\ views \subseteq Table /\ stopped \subseteq Table
  /\ used \in Nat /\ reserve \in Nat
  /\ mem \in [size : [Table -> Nat], allocated : Nat, over : BOOLEAN]
  /\ loan \in [Table -> Nat]
  /\ trial \in [donor : Table \cup {None}, receiver : Table \cup {None}, donorSize : Nat,
                receiverSize : Nat, active : BOOLEAN, rollback : BOOLEAN]
  /\ call \in [Thread -> [step : Steps, table : Table \cup {None}]]
  /\ asleep \subseteq Thread

(* Only the worker that loads or creates a table will say how it ended.    *)
CallsInv ==
  /\ \A w \in Thread : call[w].step \notin {"idle", "failed"} => call[w].table \in Table
  /\ \A w \in Thread : call[w].step = "load" => entry[call[w].table] = "loading"
  /\ \A w \in Thread : call[w].step = "create" => entry[call[w].table] = "creating"
  /\ \A v, w \in Thread :
       call[v].step \in {"load", "create"} /\ call[v] = call[w] => v = w
  /\ \A t \in Table : entry[t] = "creating" =>
       \E w \in Thread : call[w].step = "create" /\ call[w].table = t
  /\ \A t \in Table : mem.size[t] > 0 <=> entry[t] = "shared"

(* What is reserved covers the way back, in either order of sizes.         *)
Recoverable(m, res, tr) ==
  /\ tr.donor \in Table /\ m.size[tr.donor] > 0 /\ tr.donorSize > 0
  /\ tr.receiver # tr.donor
  /\ tr.receiver # None => m.size[tr.receiver] > 0 /\ tr.receiverSize > 0
  /\ res \in Nat /\ m.allocated + res <= Budget
  /\ LET lent == tr.donorSize - m.size[tr.donor]
         taken == IF tr.receiver = None THEN 0 ELSE m.size[tr.receiver] - tr.receiverSize IN
     IF tr.active
       THEN /\ tr.receiver # None /\ lent >= 0
            /\ res >= 1 /\ res >= lent - taken + 1
       ELSE /\ taken # 0 => res >= tr.receiverSize
            /\ lent # 0 => res >= tr.donorSize - taken

TransferInv ==
  IF trial.donor = None
    THEN reserve = 0 /\ mem.allocated <= Budget
    ELSE /\ Recoverable(mem, reserve, trial)
         /\ trial.active <=> config.policy = "idle-reclaim"

(* What t has when there is no transfer, or when it is undone.             *)
Owned(t) ==
  IF trial.donor = None THEN mem.size[t]
  ELSE IF t = trial.donor THEN trial.donorSize
  ELSE IF t = trial.receiver THEN trial.receiverSize
  ELSE mem.size[t]

LoansInv ==
  /\ \A t, u \in Borrowers(loan) : t = u
  /\ \A t \in Borrowers(loan) :
       /\ config.policy = "idle-reclaim"
       /\ loan[t] < Owned(t)
       /\ trial.donor = None => mem.allocated + Fallback <= Budget

PoolInv ==
  /\ PoolTypeOK /\ BudgetHolds /\ CallsInv /\ TransferInv /\ LoansInv
=============================================================================
