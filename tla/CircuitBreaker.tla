--------------------------- MODULE CircuitBreaker ---------------------------
(***************************************************************************)
(* The per-upstream in-flight cap of                                       *)
(* crates/control/src/upstream/circuit_breaker.rs, across the group values *)
(* that reloads build: try_acquire is an optimistic fetch_add that backs   *)
(* out in a second atomic step, and a permit gives its place back to the   *)
(* group it was taken from, however many reloads have happened since.      *)
(***************************************************************************)
EXTENDS Integers, FiniteSets

CONSTANTS Holders,  \* concurrent forwards
          Groups,      \* a bound on reloads: group values are 1..Groups
          MaxOf      \* max_requests of each group value; 0 is unlimited

ASSUME HoldersAssumption == IsFiniteSet(Holders)
ASSUME GroupsAssumption == Groups \in Nat \ {0}
ASSUME MaxOfAssumption == MaxOf \in [1..Groups -> Nat]

VARIABLES routed,   \* the group value the routing table points at
          inFlight,  \* UpstreamGroup::in_flight of each group value
          stage,        \* "ready", "backout", "held", "noop"
          pinned,     \* the group value the request is pinned to
          spurious   \* history: a caller was refused below the cap

breakerVars == <<routed, inFlight, stage, pinned, spurious>>

Permits(g) == {r \in Holders : stage[r] = "held" /\ pinned[r] = g}

BackingOut(g) == {r \in Holders : stage[r] = "backout" /\ pinned[r] = g}

BreakerTypeOK ==
  /\ routed \in 1..Groups
  /\ inFlight \in [1..Groups -> Nat]
  /\ stage \in [Holders -> {"ready", "backout", "held", "noop"}]
  /\ pinned \in [Holders -> 1..Groups]
  /\ spurious \in BOOLEAN

BreakerInit ==
  /\ routed = 1
  /\ inFlight = [g \in 1..Groups |-> 0]
  /\ stage = [r \in Holders |-> "ready"]
  /\ pinned = [r \in Holders |-> 1]
  /\ spurious = FALSE

Enter(r, label) ==
  /\ stage[r] = "ready"
  /\ stage' = [stage EXCEPT ![r] = label]
  /\ pinned' = [pinned EXCEPT ![r] = routed]

(* max_requests == 0: a permit that counts nothing.                        *)
AcquireUnlimited(r) ==
  /\ MaxOf[routed] = 0
  /\ Enter(r, "noop")
  /\ UNCHANGED <<routed, inFlight, spurious>>

AcquireOffByOne(r) ==
  /\ MaxOf[routed] > 0
  /\ inFlight' = [inFlight EXCEPT ![routed] = @ + 1]
  /\ Enter(r, IF inFlight[routed] > MaxOf[routed] THEN "backout" ELSE "held")
  /\ UNCHANGED <<routed, spurious>>

(* fetch_add: the prior value decides between a permit and the back-out.   *)
Acquire(r) ==
  /\ MaxOf[routed] > 0
  /\ inFlight' = [inFlight EXCEPT ![routed] = @ + 1]
  /\ LET refused == inFlight[routed] >= MaxOf[routed] IN
     /\ Enter(r, IF refused THEN "backout" ELSE "held")
     /\ spurious' = \/ spurious
                    \/ refused /\ Cardinality(Permits(routed)) < MaxOf[routed]
  /\ UNCHANGED routed

BackOutLeaks(r) ==
  /\ stage[r] = "backout"
  /\ stage' = [stage EXCEPT ![r] = "ready"]
  /\ UNCHANGED <<routed, inFlight, pinned, spurious>>

(* fetch_sub of the back-out; try_acquire returns None.                    *)
BackOut(r) ==
  /\ stage[r] = "backout"
  /\ inFlight' = [inFlight EXCEPT ![pinned[r]] = @ - 1]
  /\ stage' = [stage EXCEPT ![r] = "ready"]
  /\ UNCHANGED <<routed, pinned, spurious>>

DropIntoCurrent(r) ==
  /\ stage[r] = "held"
  /\ inFlight' = [inFlight EXCEPT ![routed] = @ - 1]
  /\ stage' = [stage EXCEPT ![r] = "ready"]
  /\ UNCHANGED <<routed, pinned, spurious>>

(* RequestPermit::drop: the permit's own group is decremented.             *)
DropPermit(r) ==
  /\ stage[r] = "held"
  /\ inFlight' = [inFlight EXCEPT ![pinned[r]] = @ - 1]
  /\ stage' = [stage EXCEPT ![r] = "ready"]
  /\ UNCHANGED <<routed, pinned, spurious>>

DropNoop(r) ==
  /\ stage[r] = "noop"
  /\ stage' = [stage EXCEPT ![r] = "ready"]
  /\ UNCHANGED <<routed, inFlight, pinned, spurious>>

(* A reload builds a new group value with its own counter at 0 and its own *)
(* max_requests (UpstreamRegistry::reconcile).                             *)
BreakerReload ==
  /\ routed < Groups
  /\ routed' = routed + 1
  /\ UNCHANGED <<inFlight, stage, pinned, spurious>>

BreakerNext ==
  \/ BreakerReload
  \/ \E r \in Holders :
       \/ AcquireUnlimited(r) \/ Acquire(r) \/ BackOut(r)
       \/ DropPermit(r) \/ DropNoop(r)

BreakerSpec == BreakerInit /\ [][BreakerNext]_breakerVars

-----------------------------------------------------------------------------
(* Each group's counter is exactly the permits taken from it plus the      *)
(* refused callers that have not yet backed out, also for the requests     *)
(* that outlive their group: a reload never miscounts, and the usize never *)
(* wraps below zero.                                                       *)
InFlightAccounted ==
  \A g \in 1..Groups :
    inFlight[g] = Cardinality(Permits(g)) + Cardinality(BackingOut(g))

(* Concurrent callers never hold more than max_requests permits of one     *)
(* group, although the counter itself may pass it.                         *)
PermitsWithinMax ==
  \A g \in 1..Groups : MaxOf[g] > 0 => Cardinality(Permits(g)) <= MaxOf[g]

(* A refusal means the upstream is at max_requests: nobody is turned away  *)
(* while a permit is free.  Refuted: a refused caller is counted until it  *)
(* backs out, and refuses the next one.                                    *)
RefusedOnlyWhenFull == ~spurious
=============================================================================
