---------------------------- MODULE TokenBucket -----------------------------
(***************************************************************************)
(* The token-bucket arithmetic of crates/host/src/backend.rs, shared by a  *)
(* filter's host-ratelimit capability and by a route's native limiter.  A  *)
(* cell is <<tokens, last_refill>>; u64 arithmetic saturates at MaxU64.    *)
(***************************************************************************)
EXTENDS Integers

CONSTANTS MaxU64, Unseen

Sat(n) == IF n > MaxU64 THEN MaxU64 ELSE n
SatSub(a, b) == IF a > b THEN a - b ELSE 0
MinOf(a, b) == IF a < b THEN a ELSE b
DivFloor(a, b) == a \div b

DivCeil(a, b) == (a + b - 1) \div b

NoRefill(spec) == spec.interval = 0 \/ spec.refill = 0

(* Refill: `last` advances by whole intervals, so that no fraction is lost *)
(* and a clock that went back mints nothing.                               *)
RefillSteps(cell, spec, now) == SatSub(now, cell[2]) \div spec.interval

RefilledFromNow(cell, spec, now) ==
  IF cell = Unseen THEN <<spec.capacity, now>>
  ELSE IF NoRefill(spec) THEN <<MinOf(cell[1], spec.capacity), cell[2]>>
  ELSE LET n == RefillSteps(cell, spec, now)
       IN  <<MinOf(Sat(cell[1] + Sat(n * spec.refill)), spec.capacity), now>>

Refilled(cell, spec, now) ==
  IF cell = Unseen THEN <<spec.capacity, now>>
  ELSE IF NoRefill(spec) THEN <<MinOf(cell[1], spec.capacity), cell[2]>>
  ELSE LET n == RefillSteps(cell, spec, now)
       IN  <<MinOf(Sat(cell[1] + Sat(n * spec.refill)), spec.capacity),
             Sat(cell[2] + Sat(n * spec.interval))>>

(* Then consume: the new cell, the answer, and the advisory Retry-After.   *)
ApplyBucket(cell, cost, spec, now) ==
  LET full == Refilled(cell, spec, now)
      wait == IF NoRefill(spec) THEN MaxU64
              ELSE Sat(DivCeil(cost - full[1], spec.refill) * spec.interval)
  IN  IF full[1] >= cost
      THEN [cell |-> <<full[1] - cost, full[2]>>, allowed |-> TRUE, retry |-> 0]
      ELSE [cell |-> full, allowed |-> FALSE, retry |-> wait]
=============================================================================
