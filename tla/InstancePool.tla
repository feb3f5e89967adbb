----------------------------- MODULE InstancePool -----------------------------
(***************************************************************************)
(* The trusted instance pool of crates/host/src/pool.rs.  Worker threads   *)
(* run guest hooks on pooled WebAssembly instances: a checkout reuses an   *)
(* idle instance, reserves a slot and builds one outside the lock, or      *)
(* waits on the condition variable until a deadline; the check-in returns, *)
(* recycles or discards the instance.  One mutex guards idle, live and the *)
(* trap breaker, and every action below that touches them is one critical  *)
(* section of it.  The condition variable is signalled after the unlock,   *)
(* so notify_one is a step of its own.                                     *)
(***************************************************************************)
EXTENDS Integers, Sequences, FiniteSets

CONSTANTS Threads,      \* the worker threads that run hooks
          Cap,          \* TrustedPool::cap, the clamped pool size
          MaxRequests,  \* max_requests_per_instance
          Threshold,    \* TRUSTED_TRAP_BREAKER_THRESHOLD
          Failures      \* what the guest may do wrong: "trap", "init", "panic"

ASSUME ThreadsAssumption == IsFiniteSet(Threads)
ASSUME CapAssumption == Cap \in Nat \ {0}
ASSUME MaxRequestsAssumption == MaxRequests \in Nat \ {0}
ASSUME ThresholdAssumption == Threshold \in Nat \ {0}
ASSUME FailuresAssumption == Failures \subseteq {"trap", "init", "panic"}

VARIABLES
  idle,      \* the stack of idle instances, each its `served` counter
  live,      \* PoolInner::live: idle + checked out + being built
  traps,     \* TrapBreaker::consecutive_traps, saturating at Threshold
  open,      \* TrapBreaker::is_open()
  pc,        \* where each thread is
  served,    \* the served counter of the instance a thread holds
  late       \* the thread's checkout deadline has passed

vars == <<idle, live, traps, open, pc, served, late>>

PCs == {"ready", "checkout", "parked", "building", "initfailed", "running",
        "recycling", "discarding", "notify", "unwound", "dropping"}

(* Between reserving a slot in `live` and giving it back.                  *)
SlotPCs == {"building", "initfailed", "running", "recycling", "discarding"}

(* With a guest instance in memory outside the idle stack.                 *)
InstancePCs == {"building", "running", "unwound", "dropping"}

(* Owing the condition variable a signal, or about to look at the pool     *)
(* again under the lock.                                                   *)
TransitPCs == {"checkout", "notify", "unwound"}

CountAt(f, labels) == Cardinality({t \in Threads : f[t] \in labels})

Parked == {t \in Threads : pc[t] = "parked"}

TypeOK ==
  /\ idle \in Seq(0..(MaxRequests - 1))
  /\ live \in Nat
  /\ traps \in 0..Threshold
  /\ open \in BOOLEAN
  /\ pc \in [Threads -> PCs]
  /\ served \in [Threads -> 0..(MaxRequests - 1)]
  /\ late \in [Threads -> BOOLEAN]

(* TrustedPool::new: one eager instance.                                   *)
Init ==
  /\ idle = <<0>>
  /\ live = 1
  /\ traps = 0
  /\ open = FALSE
  /\ pc = [t \in Threads |-> "ready"]
  /\ served = [t \in Threads |-> 0]
  /\ late = [t \in Threads |-> FALSE]

Goto(t, label) == pc' = [pc EXCEPT ![t] = label]

-----------------------------------------------------------------------------
(* TrapBreaker::record_trap: the count saturates, and from the threshold   *)
(* on every trap (re)opens the cooldown.                                   *)
RecordTrap ==
  /\ traps' = IF traps < Threshold THEN traps + 1 ELSE traps
  /\ open' = (open \/ traps' >= Threshold)

(* TrapBreaker::clear                                                      *)
Clear == traps' = 0 /\ open' = FALSE

(* The cooldown elapses; the trap count is kept.                           *)
CooldownElapses ==
  /\ open
  /\ open' = FALSE
  /\ UNCHANGED <<idle, live, traps, pc, served, late>>

LeakSlot == live' = live

(* A slot's saturating decrement of `live`.                                *)
ReleaseSlot == live' = IF live = 0 THEN 0 ELSE live - 1

-----------------------------------------------------------------------------
(* run_pooled -> checkout: the deadline is fixed once, here.               *)
StartCheckout(t) ==
  /\ pc[t] = "ready"
  /\ Goto(t, "checkout")
  /\ late' = [late EXCEPT ![t] = FALSE]
  /\ UNCHANGED <<idle, live, traps, open, served>>

(* Time reaches the deadline of a checkout that is still under way.        *)
DeadlinePasses(t) ==
  /\ pc[t] \in {"checkout", "parked"}
  /\ ~late[t]
  /\ late' = [late EXCEPT ![t] = TRUE]
  /\ UNCHANGED <<idle, live, traps, open, pc, served>>

PopIdle(t) ==
  /\ idle # <<>>
  /\ served' = [served EXCEPT ![t] = idle[Len(idle)]]
  /\ idle' = SubSeq(idle, 1, Len(idle) - 1)
  /\ Goto(t, "running")

(* checkout, Step::Use: an idle instance is used even while the breaker is *)
(* open.                                                                   *)
CheckoutUse(t) ==
  /\ pc[t] = "checkout"
  /\ PopIdle(t)
  /\ UNCHANGED <<live, traps, open, late>>

(* checkout: no idle instance and the breaker open, fail closed.           *)
CheckoutBreakerOpen(t) ==
  /\ pc[t] = "checkout"
  /\ idle = <<>> /\ open
  /\ Goto(t, "ready")
  /\ UNCHANGED <<idle, live, traps, open, served, late>>

(* checkout, Step::Build: the slot is reserved under the lock.             *)
CheckoutBuild(t) ==
  /\ pc[t] = "checkout"
  /\ idle = <<>> /\ ~open /\ live < Cap
  /\ live' = live + 1
  /\ Goto(t, "building")
  /\ UNCHANGED <<idle, traps, open, served, late>>

CheckoutWaitPerWait(t) ==
  /\ pc[t] = "checkout"
  /\ idle = <<>> /\ ~open /\ live >= Cap
  /\ late' = [late EXCEPT ![t] = FALSE]
  /\ Goto(t, "parked")
  /\ UNCHANGED <<idle, live, traps, open, served>>

(* checkout: wait_until(deadline).  Unlocking and joining the wait queue   *)
(* are one step; a deadline already behind times out at once.              *)
CheckoutWait(t) ==
  /\ pc[t] = "checkout"
  /\ idle = <<>> /\ ~open /\ live >= Cap
  /\ Goto(t, IF late[t] THEN "ready" ELSE "parked")
  /\ UNCHANGED <<idle, live, traps, open, served, late>>

(* wait_until times out: Unavailable, with no second look at the pool.     *)
WaitTimesOut(t) ==
  /\ pc[t] = "parked" /\ late[t]
  /\ Goto(t, "ready")
  /\ UNCHANGED <<idle, live, traps, open, served, late>>

(* checkout_idle, the hit: the inline path neither builds nor waits, and   *)
(* refuses while the breaker is open.  A miss changes nothing; its caller  *)
(* goes on to the blocking checkout.                                       *)
CheckoutIdle(t) ==
  /\ pc[t] = "ready"
  /\ ~open
  /\ PopIdle(t)
  /\ UNCHANGED <<live, traps, open, late>>

-----------------------------------------------------------------------------
(* instantiate_initialized returns Ok: the guard is disarmed.              *)
BuildSucceeds(t) ==
  /\ pc[t] = "building"
  /\ served' = [served EXCEPT ![t] = 0]
  /\ Goto(t, "running")
  /\ UNCHANGED <<idle, live, traps, open, late>>

(* instantiate_initialized returns Err: record_trap in a critical section  *)
(* of its own, before the guard gives the slot back.                       *)
BuildFails(t) ==
  /\ "init" \in Failures
  /\ pc[t] = "building"
  /\ RecordTrap
  /\ Goto(t, "initfailed")
  /\ UNCHANGED <<idle, live, served, late>>

(* LiveSlotGuard::drop after a failed build, up to the unlock.             *)
GuardAfterInitFailure(t) ==
  /\ pc[t] = "initfailed"
  /\ ReleaseSlot
  /\ Goto(t, "notify")
  /\ UNCHANGED <<idle, traps, open, served, late>>

(* A panic unwinds out of the build: the guard releases the slot.          *)
BuildPanics(t) ==
  /\ "panic" \in Failures
  /\ pc[t] = "building"
  /\ ReleaseSlot
  /\ Goto(t, "notify")
  /\ UNCHANGED <<idle, traps, open, served, late>>

-----------------------------------------------------------------------------
ReturnToIdleUnsignalled(t) ==
  /\ pc[t] = "running"
  /\ served[t] + 1 < MaxRequests
  /\ Clear
  /\ idle' = Append(idle, served[t] + 1)
  /\ Goto(t, "ready")
  /\ UNCHANGED <<live, served, late>>

ReturnToIdleNoRecycle(t) ==
  /\ pc[t] = "running"
  /\ Clear
  /\ idle' = Append(idle, served[t] + 1)
  /\ Goto(t, "notify")
  /\ UNCHANGED <<live, served, late>>

(* execute_pooled, Ok, more requests left in the instance.                 *)
ReturnToIdle(t) ==
  /\ pc[t] = "running"
  /\ served[t] + 1 < MaxRequests
  /\ Clear
  /\ idle' = Append(idle, served[t] + 1)
  /\ Goto(t, "notify")
  /\ UNCHANGED <<live, served, late>>

(* execute_pooled, Ok, the instance has served its requests: it is dropped *)
(* before the lock is taken ...                                            *)
RecycleDrop(t) ==
  /\ pc[t] = "running"
  /\ served[t] + 1 >= MaxRequests
  /\ Goto(t, "recycling")
  /\ UNCHANGED <<idle, live, traps, open, served, late>>

(* ... and then leaves `live`.                                             *)
RecycleRelease(t) ==
  /\ pc[t] = "recycling"
  /\ Clear
  /\ ReleaseSlot
  /\ Goto(t, "notify")
  /\ UNCHANGED <<idle, served, late>>

(* execute_pooled, Err: the trapped instance is dropped ...                *)
TrapDrop(t) ==
  /\ "trap" \in Failures
  /\ pc[t] = "running"
  /\ Goto(t, "discarding")
  /\ UNCHANGED <<idle, live, traps, open, served, late>>

(* ... its slot is released and the pool-wide breaker is told.             *)
TrapRelease(t) ==
  /\ pc[t] = "discarding"
  /\ ReleaseSlot
  /\ RecordTrap
  /\ Goto(t, "notify")
  /\ UNCHANGED <<idle, served, late>>

(* A panic unwinds out of the guest call.  `slot` is a local and `pooled`  *)
(* a parameter of execute_pooled, so the guard drops first: the slot is    *)
(* released and signalled while the instance still exists.                 *)
CallPanics(t) ==
  /\ "panic" \in Failures
  /\ pc[t] = "running"
  /\ ReleaseSlot
  /\ Goto(t, "unwound")
  /\ UNCHANGED <<idle, traps, open, served, late>>

DropAfterUnwind(t) ==
  /\ pc[t] = "dropping"
  /\ Goto(t, "ready")
  /\ UNCHANGED <<idle, live, traps, open, served, late>>

(* available.notify_one(): wakes one parked thread, if any.                *)
NotifyOne(t) ==
  /\ pc[t] \in {"notify", "unwound"}
  /\ LET next == IF pc[t] = "unwound" THEN "dropping" ELSE "ready" IN
     \/ /\ Parked = {}
        /\ Goto(t, next)
     \/ \E w \in Parked : pc' = [pc EXCEPT ![t] = next, ![w] = "checkout"]
  /\ UNCHANGED <<idle, live, traps, open, served, late>>

-----------------------------------------------------------------------------
Checkout(t) ==
  \/ CheckoutUse(t) \/ CheckoutBreakerOpen(t)
  \/ CheckoutBuild(t) \/ CheckoutWait(t)

Finish(t) ==
  \/ BuildSucceeds(t) \/ BuildFails(t) \/ BuildPanics(t)
  \/ GuardAfterInitFailure(t)
  \/ ReturnToIdle(t) \/ RecycleDrop(t) \/ RecycleRelease(t)
  \/ TrapDrop(t) \/ TrapRelease(t)
  \/ CallPanics(t) \/ DropAfterUnwind(t)

(* What a thread that has started does next, at each place one of these.   *)
Proceed(t) == Checkout(t) \/ WaitTimesOut(t) \/ Finish(t) \/ NotifyOne(t)

Step(t) ==
  \/ StartCheckout(t) \/ CheckoutIdle(t)
  \/ DeadlinePasses(t) \/ WaitTimesOut(t)
  \/ Checkout(t) \/ Finish(t) \/ NotifyOne(t)

Next == CooldownElapses \/ \E t \in Threads : Step(t)

(* A thread inside a critical section is scheduled, the clock advances and *)
(* the epoch deadline ends every guest call; nothing obliges a thread to   *)
(* start another request.                                                  *)
Fairness ==
  /\ WF_vars(CooldownElapses)
  /\ \A t \in Threads : WF_vars(DeadlinePasses(t)) /\ WF_vars(Proceed(t))

Spec == Init /\ [][Next]_vars /\ Fairness

-----------------------------------------------------------------------------
(* Every slot is accounted for: `live` is the idle instances plus the      *)
(* threads that hold a slot, whatever mix of traps, failed builds, panics  *)
(* and recycles interleave, and lazy fill never passes the cap.  A leaked  *)
(* slot would shrink the pool for good (LiveSlotGuard's comment).          *)
SlotAccounting ==
  /\ live = Len(idle) + CountAt(pc, SlotPCs)
  /\ live <= Cap

(* The instances that exist in memory never exceed the cap: an instance is *)
(* dropped before its slot is released (execute_pooled's recycle and trap  *)
(* arms), so the builder that takes the slot over cannot overlap it.       *)
PhysicalWithinCap ==
  Len(idle) + CountAt(pc, InstancePCs) <= Cap

(* No waiter sleeps beside an idle instance: while a thread is parked,     *)
(* each idle instance has a thread of its own on the way, one that owes a  *)
(* signal or one that will re-check the pool before it waits.              *)
IdleNeverStranded ==
  Parked # {} => Len(idle) <= CountAt(pc, TransitPCs)

(* checkout waits "when every instance is checked out": a parked thread    *)
(* has someone who holds a slot, or is on the way, to wake it.             *)
ParkedHasWaker ==
  Parked # {} => \E t \in Threads : pc[t] \in SlotPCs \cup TransitPCs

(* Every checkout comes back, with an instance or Unavailable, however     *)
(* often it is woken and loses the race for the instance: the deadline is  *)
(* one absolute instant for the whole checkout.                            *)
CheckoutReturns(t) == pc[t] = "checkout" ~> pc[t] \in {"ready", "running"}
=============================================================================
