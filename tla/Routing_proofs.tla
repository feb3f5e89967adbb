--------------------------- MODULE Routing_proofs ---------------------------
(***************************************************************************)
(* Routing, for every configuration and any number of requests.            *)
(*                                                                         *)
(* Rate limit: a bucket's time stays a multiple of its interval, between   *)
(* the first and the latest clock it saw; what it granted and still holds  *)
(* is its burst and the refills up to its own time.                        *)
(* Split: the deficits of a schedule add up to zero and none falls below   *)
(* minus the total, so that no upstream is a whole pick ahead; a period    *)
(* ends where it began.                                                    *)
(* Paths: what normalisation leaves is plain, without encoded or dot       *)
(* segments, and prefix stripping keeps it so; an origin finds nothing to  *)
(* decode or resolve in it.                                                *)
(***************************************************************************)
EXTENDS Routing, FoldLemmas, SequenceTheorems

LEMMA MulMono ==
  ASSUME NEW a \in Nat, NEW b \in Nat, NEW c \in Nat, a <= b
  PROVE  a * c <= b * c /\ a * c \in Nat /\ b * c \in Nat
  OBVIOUS

LEMMA DivFacts ==
  ASSUME NEW a \in Nat, NEW b \in Nat \ {0}
  PROVE  /\ a \div b \in Nat
         /\ (a \div b) * b <= a
         /\ a < (a \div b) * b + b
  OBVIOUS

(* The quotient is the greatest multiple that fits.                        *)
LEMMA DivGreatest ==
  ASSUME NEW a \in Nat, NEW b \in Nat \ {0}, NEW k \in Nat, k * b <= a
  PROVE  k <= a \div b
<1> DEFINE d == a \div b
<1>1. d \in Nat /\ a < d * b + b
  BY DivFacts
<1> HIDE DEF d
<1>2. ASSUME d + 1 <= k PROVE FALSE
  <2>1. (d + 1) * b <= k * b
    BY <1>1, <1>2, MulMono
  <2>2. (d + 1) * b = d * b + b
    BY <1>1
  <2> QED  BY <1>1, <2>1, <2>2
<1>3. k <= d
  BY <1>1, <1>2
<1> QED  BY <1>3 DEF d

(* Later clocks have no fewer whole intervals behind them.                 *)
LEMMA DivMono ==
  ASSUME NEW a \in Nat, NEW c \in Nat, NEW b \in Nat \ {0}, a <= c
  PROVE  a \div b <= c \div b
<1> DEFINE k == a \div b
<1>1. k \in Nat /\ k * b <= a
  BY DivFacts
<1> HIDE DEF k
<1>2. k * b \in Nat /\ k * b <= c
  BY <1>1
<1>3. k <= c \div b
  BY <1>1, <1>2, DivGreatest
<1> QED  BY <1>3 DEF k
-----------------------------------------------------------------------------
(* A bucket's spec, as a route declares it.                                *)
SpecOK(spec) ==
  /\ spec.capacity \in 1..MaxU64 /\ spec.refill \in 1..MaxU64
  /\ spec.interval = Interval

(* A refill counts whole intervals, adds at most what they are worth, and  *)
(* never takes the bucket's time past the clock.                           *)
LEMMA RefillFacts ==
  ASSUME NEW tok \in Nat, NEW last \in Nat, NEW spec, SpecOK(spec),
         NEW now \in Nat, now <= MaxU64, last <= MaxU64
  PROVE  LET full == Refilled(<<tok, last>>, spec, now)
             n == RefillSteps(<<tok, last>>, spec, now)
         IN  /\ n \in Nat /\ (n = 0 \/ last + n * Interval <= now)
             /\ last = 0 => n = now \div Interval
             /\ full[1] \in Nat /\ full[1] <= spec.capacity
             /\ full[1] <= tok + n * spec.refill
             /\ full[1] = MinOf(Sat(tok + Sat(n * spec.refill)), spec.capacity)
             /\ full[2] = last + n * Interval /\ full[2] <= MaxU64
<1> DEFINE cell == <<tok, last>>
           n == RefillSteps(cell, spec, now)
           cap == spec.capacity
           rate == spec.refill
           gap == SatSub(now, last)
<1>0. /\ Interval \in Nat \ {0} /\ MaxU64 \in Nat
      /\ cap \in Nat /\ cap <= MaxU64 /\ rate \in Nat /\ spec.interval = Interval
      /\ rate # 0
  BY ClockAssumption DEF SpecOK
<1>1. gap \in Nat /\ gap <= now /\ (gap # 0 => gap = now - last) /\ (last = 0 => gap = now)
  BY DEF SatSub
<1>2. n = gap \div Interval
  BY <1>0 DEF RefillSteps
<1>3. n \in Nat /\ n * Interval <= gap
  <2> HIDE DEF gap, n
  <2> QED  BY <1>0, <1>1, <1>2, DivFacts
<1>4. n * Interval \in Nat /\ n * rate \in Nat
  <2> HIDE DEF n, rate
  <2> QED  BY <1>0, <1>3
<1>5. cell # Unseen /\ ~NoRefill(spec)
  BY <1>0, ClockAssumption DEF NoRefill
<1>6. Refilled(cell, spec, now) = <<MinOf(Sat(tok + Sat(n * rate)), cap), Sat(last + Sat(n * Interval))>>
  BY <1>0, <1>5 DEF Refilled
<1>7. n = 0 \/ last + n * Interval <= now
  <2> DEFINE x == n * Interval
  <2>1. x \in Nat /\ x <= gap /\ (gap = 0 => x = 0)
    <3> HIDE DEF gap, n
    <3> QED  BY <1>1, <1>3, <1>4
  <2>2. gap = 0 => n = 0
    <3>1. 0 \div Interval = 0
      BY <1>0
    <3> HIDE DEF gap
    <3> QED  BY <1>2, <3>1
  <2> HIDE DEF x, gap, n
  <2> QED  BY <1>1, <2>1, <2>2 DEF x
<1>8. last + n * Interval <= MaxU64
  <2> DEFINE x == n * Interval
  <2>1. n = 0 => x = 0
    BY <1>0
  <2>2. x \in Nat
    BY <1>4
  <2>3. n = 0 \/ last + x <= now
    BY <1>7
  <2> HIDE DEF x, n
  <2>4. last + x <= MaxU64
    BY <1>0, <2>1, <2>2, <2>3
  <2> QED  BY <2>4 DEF x
<1> DEFINE gain == n * rate
           move == n * Interval
<1>9. /\ MinOf(Sat(tok + Sat(gain)), cap) \in Nat /\ MinOf(Sat(tok + Sat(gain)), cap) <= cap
      /\ MinOf(Sat(tok + Sat(gain)), cap) <= tok + gain
  <2>1. gain \in Nat
    BY <1>4
  <2> HIDE DEF gain, cap
  <2> QED  BY <1>0, <2>1 DEF MinOf, Sat
<1>10. Sat(last + Sat(move)) = last + move
  <2>1. move \in Nat /\ last + move <= MaxU64
    BY <1>4, <1>8
  <2> HIDE DEF move
  <2> QED  BY <1>0, <2>1 DEF Sat
<1>11. last = 0 => n = now \div Interval
  BY <1>1, <1>2
<1>12. Refilled(cell, spec, now)[1] = MinOf(Sat(tok + Sat(gain)), cap)
       /\ Refilled(cell, spec, now)[2] = last + move
  BY <1>6, <1>10
<1> HIDE DEF n
<1> QED  BY <1>3, <1>7, <1>8, <1>9, <1>11, <1>12 DEF n

(* What a consult leaves.                                                  *)
LEMMA ConsultFacts ==
  ASSUME NEW cell, NEW cost \in Nat, NEW spec, NEW now,
         Refilled(cell, spec, now)[1] \in Nat
  PROVE  LET full == Refilled(cell, spec, now)
             a == ApplyBucket(cell, cost, spec, now)
         IN  /\ a.allowed \in BOOLEAN /\ (a.allowed <=> full[1] >= cost)
             /\ a.cell[2] = full[2]
             /\ a.cell[1] = IF a.allowed THEN full[1] - cost ELSE full[1]
  BY DEF ApplyBucket

LEMMA RefusedFacts ==
  ASSUME NEW cell, NEW cost \in Nat, NEW spec, NEW now, ~NoRefill(spec),
         Refilled(cell, spec, now)[1] \in Nat,
         ~ApplyBucket(cell, cost, spec, now).allowed
  PROVE  LET full == Refilled(cell, spec, now)
             a == ApplyBucket(cell, cost, spec, now)
         IN  /\ full[1] < cost /\ a.cell = full
             /\ a.retry = Sat(DivCeil(cost - full[1], spec.refill) * spec.interval)
<1> DEFINE full == Refilled(cell, spec, now)
<1>1. CASE full[1] >= cost
  BY <1>1 DEF ApplyBucket
<1>2. CASE ~(full[1] >= cost)
  <2> DEFINE wait == Sat(DivCeil(cost - full[1], spec.refill) * spec.interval)
  <2>1. ApplyBucket(cell, cost, spec, now) = [cell |-> full, allowed |-> FALSE, retry |-> wait]
    BY <1>2 DEF ApplyBucket
  <2> HIDE DEF wait
  <2> QED  BY <1>2, <2>1 DEF wait
<1> QED  BY <1>1, <1>2

LEMMA CeilFacts ==
  ASSUME NEW a \in Nat \ {0}, NEW b \in Nat \ {0}
  PROVE  DivCeil(a, b) \in Nat /\ DivCeil(a, b) <= a /\ a <= DivCeil(a, b) * b
<1> DEFINE k == DivCeil(a, b)
<1>1. a + b - 1 \in Nat /\ k = (a + b - 1) \div b
  BY DEF DivCeil
<1>2. k \in Nat /\ k * b <= a + b - 1 /\ a + b - 1 < k * b + b
  BY <1>1, DivFacts
<1> HIDE DEF k
<1>3. a <= k * b
  <2> DEFINE x == k * b
  <2>1. x \in Nat
    BY <1>2
  <2> HIDE DEF x
  <2> QED  BY <1>2, <2>1 DEF x
<1>4. k <= a
  <2>1. ASSUME a + 1 <= k PROVE FALSE
    <3>1. (a + 1) * b <= k * b
      BY <1>2, <2>1, MulMono
    <3>2. (a + 1) * b = a * b + b /\ a <= a * b /\ a * b \in Nat
      OBVIOUS
    <3> QED  BY <1>2, <3>1, <3>2
  <2> QED  BY <1>2, <2>1
<1> QED  BY <1>2, <1>3, <1>4 DEF k

(* After the hint the tokens are there.                                    *)
LEMMA RetrySuffices ==
  ASSUME NEW tok \in Nat, NEW last \in Nat, NEW spec, SpecOK(spec),
         NEW now \in Nat, now <= MaxU64, last <= now,
         NEW cost \in 1..spec.capacity, cost * Interval <= MaxU64,
         ~ApplyBucket(<<tok, last>>, cost, spec, now).allowed
  PROVE  LET a == ApplyBucket(<<tok, last>>, cost, spec, now)
         IN  ApplyBucket(a.cell, cost, spec, now + a.retry).allowed
<1> DEFINE cell == <<tok, last>>
           a == ApplyBucket(cell, cost, spec, now)
           full == Refilled(cell, spec, now)
           rate == spec.refill
           cap == spec.capacity
           n == RefillSteps(cell, spec, now)
<1>0. /\ Interval \in Nat \ {0} /\ MaxU64 \in Nat
      /\ cap \in Nat /\ cap <= MaxU64 /\ rate \in Nat \ {0} /\ spec.interval = Interval
      /\ cost \in Nat \ {0} /\ cost <= cap /\ ~NoRefill(spec)
  BY ClockAssumption DEF SpecOK, NoRefill
<1>1. last <= MaxU64
  BY <1>0
<1>2. /\ n \in Nat /\ (n = 0 \/ last + n * Interval <= now)
      /\ full[1] \in Nat /\ full[2] = last + n * Interval
  BY <1>1, RefillFacts
<1>3. full[2] \in Nat /\ full[2] <= now
  <2> DEFINE x == n * Interval
  <2>1. x \in Nat /\ (n = 0 => x = 0)
    BY <1>0, <1>2
  <2>2. (n = 0 \/ last + x <= now) /\ full[2] = last + x
    BY <1>2
  <2> HIDE DEF x, n, full
  <2> QED  BY <2>1, <2>2
<1>4. /\ full[1] < cost /\ a.cell = full
      /\ a.retry = Sat(DivCeil(cost - full[1], rate) * Interval)
  <2>1. /\ full[1] < cost /\ a.cell = full
        /\ a.retry = Sat(DivCeil(cost - full[1], spec.refill) * spec.interval)
    BY <1>0, <1>2, RefusedFacts
  <2> QED  BY <1>0, <2>1
<1>5. full = <<full[1], full[2]>>
  <2>1. \E x, y : full = <<x, y>>
    BY DEF Refilled
  <2> HIDE DEF full
  <2> QED  BY <2>1
<1> DEFINE lack == cost - full[1]
           k == DivCeil(lack, rate)
           have == full[1]
           at == full[2]
<1>6. lack \in Nat \ {0} /\ lack <= cost /\ cost = have + lack
  <2> HIDE DEF full
  <2> QED  BY <1>0, <1>2, <1>4
<1>7. k \in Nat /\ k <= lack /\ lack <= k * rate
  <2> HIDE DEF lack, rate
  <2> QED  BY <1>0, <1>6, CeilFacts
<1> HIDE DEF k, lack
<1>8. k * Interval <= MaxU64 /\ k * Interval \in Nat
  <2>1. k * Interval <= cost * Interval /\ k * Interval \in Nat /\ cost * Interval \in Nat
    <3>1. k <= cost
      BY <1>0, <1>6, <1>7
    <3> QED  BY <1>0, <1>7, <3>1, MulMono
  <2> QED  BY <1>0, <2>1
<1>9. a.retry = k * Interval
  <2>1. a.retry = Sat(k * Interval)
    BY <1>4 DEF k, lack
  <2> HIDE DEF a
  <2> QED  BY <1>0, <1>8, <2>1 DEF Sat
<1> DEFINE later == now + k * Interval
           m == SatSub(later, at) \div Interval
           gain == m * rate
<1>10. later \in Nat /\ SatSub(later, at) \in Nat /\ k * Interval <= SatSub(later, at)
  <2> DEFINE x == k * Interval
  <2>1. x \in Nat /\ at \in Nat /\ at <= now
    BY <1>3, <1>8
  <2> HIDE DEF x, at
  <2>2. now + x \in Nat /\ SatSub(now + x, at) \in Nat /\ x <= SatSub(now + x, at)
    BY <2>1 DEF SatSub
  <2> QED  BY <2>2 DEF x
<1>11. m \in Nat /\ k <= m
  <2> DEFINE g == SatSub(later, at)
  <2>1. g \in Nat /\ k * Interval <= g
    BY <1>10
  <2> HIDE DEF g
  <2>2. g \div Interval \in Nat /\ k <= g \div Interval
    BY <1>0, <1>7, <2>1, DivFacts, DivGreatest
  <2> QED  BY <2>2 DEF g
<1> HIDE DEF m, rate, full, cap
<1>12. gain \in Nat /\ lack <= gain
  <2>1. k * rate <= m * rate /\ m * rate \in Nat /\ k * rate \in Nat
    BY <1>0, <1>7, <1>11, MulMono
  <2> QED  BY <1>6, <1>7, <2>1
<1>13. Refilled(<<have, at>>, spec, later)[1] = MinOf(Sat(have + Sat(gain)), cap)
  <2>1. <<have, at>> # Unseen
    BY <1>2, <1>3, ClockAssumption
  <2>2. RefillSteps(<<have, at>>, spec, later) = m
    BY <1>0 DEF RefillSteps, m
  <2> HIDE DEF have, at, later
  <2> QED  BY <1>0, <2>1, <2>2 DEF Refilled, cap, rate
<1>14. MinOf(Sat(have + Sat(gain)), cap) >= cost /\ MinOf(Sat(have + Sat(gain)), cap) \in Nat
  <2>1. have \in Nat /\ gain \in Nat /\ lack \in Nat /\ cost = have + lack /\ lack <= gain
    BY <1>2, <1>6, <1>12
  <2> HIDE DEF have, gain
  <2> QED  BY <1>0, <2>1 DEF MinOf, Sat
<1>15. ApplyBucket(<<have, at>>, cost, spec, later).allowed
  <2>1. Refilled(<<have, at>>, spec, later)[1] \in Nat /\ Refilled(<<have, at>>, spec, later)[1] >= cost
    BY <1>13, <1>14
  <2> HIDE DEF have, at, later
  <2> QED  BY <1>0, <2>1, ConsultFacts
<1>16. a.cell = <<have, at>> /\ now + a.retry = later
  BY <1>4, <1>5, <1>9
<1> HIDE DEF have, at, later, a
<1>17. ApplyBucket(a.cell, cost, spec, now + a.retry).allowed
  BY <1>15, <1>16
<1> QED  BY <1>17 DEF a
-----------------------------------------------------------------------------
(* A bucket c with history b.  Its time is that of q whole intervals, from *)
(* the first clock it saw to no later than the latest; its grants and its  *)
(* tokens are covered by the burst and the refills up to q.                *)
Covered(c, b, spec, q) ==
  /\ c[2] = q * Interval
  /\ b.lo \div Interval <= q /\ q <= b.hi \div Interval
  /\ b.count + c[1] <= spec.capacity + spec.refill * (q - b.lo \div Interval)

BucketOK(c, b, spec) ==
  /\ c \in Nat \X Nat /\ c[2] <= MaxU64
  /\ b.count \in Nat /\ b.hi \in Nat
  /\ b.lo = Wild => b.count = 0 /\ c = <<0, 0>> /\ b.hi = 0
  /\ b.lo # Wild => b.lo \in Nat /\ \E q \in Nat : Covered(c, b, spec, q)

(* The history after a consult.                                            *)
Noted(b, allowed, now) ==
  [count |-> b.count + (IF allowed THEN 1 ELSE 0),
   lo |-> IF b.lo = Wild THEN now ELSE b.lo,
   hi |-> IF now > b.hi THEN now ELSE b.hi]

LEMMA NotedFacts ==
  ASSUME NEW b, b.count \in Nat, b.hi \in Nat, NEW ok \in BOOLEAN, NEW now \in Nat
  PROVE  LET d == Noted(b, ok, now)
         IN  /\ d.count \in Nat /\ d.count = b.count + (IF ok THEN 1 ELSE 0)
             /\ d.hi \in Nat /\ b.hi <= d.hi /\ now <= d.hi
             /\ d.lo = IF b.lo = Wild THEN now ELSE b.lo
             /\ (b.hi = 0 => d.hi = now)
  BY DEF Noted

(* The first consult of a bucket finds it full; every later one finds what *)
(* the last left and the refills since.                                    *)
LEMMA ConsultKeeps ==
  ASSUME NEW c, NEW b, NEW spec, SpecOK(spec), BucketOK(c, b, spec),
         NEW now \in Nat, now <= MaxU64
  PROVE  LET a == ApplyBucket(c, 1, spec, now)
         IN  BucketOK(a.cell, Noted(b, a.allowed, now), spec)
<1> DEFINE tok == c[1]
           last == c[2]
           n == RefillSteps(c, spec, now)
           full == Refilled(c, spec, now)
           a == ApplyBucket(c, 1, spec, now)
           d == Noted(b, a.allowed, now)
           cap == spec.capacity
           rate == spec.refill
<1>0. /\ Interval \in Nat \ {0} /\ MaxU64 \in Nat /\ Wild \notin Nat
      /\ cap \in Nat /\ rate \in Nat
  BY ClockAssumption DEF SpecOK
<1>1. tok \in Nat /\ last \in Nat /\ last <= MaxU64 /\ c = <<tok, last>>
  BY DEF BucketOK
<1>2. /\ n \in Nat /\ (n = 0 \/ last + n * Interval <= now)
      /\ last = 0 => n = now \div Interval
      /\ full[1] \in Nat /\ full[1] <= cap
      /\ full[1] <= tok + n * rate
      /\ full[2] = last + n * Interval /\ full[2] <= MaxU64
  <2> HIDE DEF tok, last
  <2> QED  BY <1>1, RefillFacts
<1>3. /\ a.allowed \in BOOLEAN /\ (a.allowed <=> full[1] >= 1)
      /\ a.cell[2] = full[2]
      /\ a.cell[1] = IF a.allowed THEN full[1] - 1 ELSE full[1]
  BY <1>2, ConsultFacts
<1>4. a.cell = <<a.cell[1], a.cell[2]>>
  <2>1. \E x, y : full = <<x, y>>
    BY DEF Refilled
  <2>2. a.cell = full \/ \E x, y : a.cell = <<x, y>>
    BY DEF ApplyBucket
  <2> HIDE DEF a, full
  <2> QED  BY <2>1, <2>2
<1>5. /\ d.count \in Nat /\ d.count = b.count + (IF a.allowed THEN 1 ELSE 0)
      /\ d.hi \in Nat /\ b.hi <= d.hi /\ now <= d.hi
      /\ d.lo = IF b.lo = Wild THEN now ELSE b.lo
  <2>1. b.count \in Nat /\ b.hi \in Nat
    BY DEF BucketOK
  <2> HIDE DEF a
  <2> QED  BY <1>3, <2>1, NotedFacts
<1> HIDE DEF n, full, a, d, tok, last, cap, rate
<1>6. /\ a.cell[1] \in Nat /\ a.cell[2] \in Nat /\ a.cell[2] <= MaxU64
      /\ d.count + a.cell[1] = b.count + full[1]
  <2>1. n * Interval \in Nat
    BY <1>0, <1>2
  <2>2. full[2] \in Nat /\ b.count \in Nat
    BY <1>1, <1>2, <2>1 DEF BucketOK
  <2> QED  BY <1>2, <1>3, <1>5, <2>2
<1>7. a.cell \in Nat \X Nat
  BY <1>4, <1>6
<1>8. d.lo \in Nat /\ d.lo # Wild
  BY <1>0, <1>5 DEF BucketOK
<1>9. \E q \in Nat : Covered(a.cell, d, spec, q)
  <2>1. CASE b.lo = Wild
    <3>1. b.count = 0 /\ last = 0 /\ d.lo = now
      BY <1>1, <1>5, <2>1 DEF BucketOK, last
    <3>2. n = now \div Interval /\ full[2] = n * Interval /\ n * Interval \in Nat
      BY <1>0, <1>2, <3>1
    <3>3. n <= d.hi \div Interval
      BY <1>0, <1>5, <3>2, DivMono
    <3>4. d.lo \div Interval <= n /\ n - d.lo \div Interval = 0
      BY <1>2, <3>1, <3>2
    <3>5. d.count + a.cell[1] <= cap + rate * (n - d.lo \div Interval)
      <4>1. rate * 0 = 0
        BY <1>0
      <4>2. d.count + a.cell[1] = full[1]
        BY <1>2, <1>6, <3>1
      <4> QED  BY <1>0, <1>2, <3>4, <4>1, <4>2
    <3>6. Covered(a.cell, d, spec, n)
      BY <1>3, <3>2, <3>3, <3>4, <3>5 DEF Covered, cap, rate
    <3> QED  BY <1>2, <3>6
  <2>2. CASE b.lo # Wild
    <3>1. PICK q \in Nat : Covered(c, b, spec, q)
      BY <2>2 DEF BucketOK
    <3> DEFINE from == b.lo \div Interval
    <3>2. /\ last = q * Interval /\ from <= q /\ q <= b.hi \div Interval
          /\ b.count + tok <= cap + rate * (q - from)
      BY <3>1 DEF Covered, last, tok, cap, rate
    <3>3. d.lo = b.lo /\ b.lo \in Nat /\ b.hi \in Nat /\ b.count \in Nat
      BY <1>5, <2>2 DEF BucketOK
    <3>4. from \in Nat
      BY <1>0, <3>3, DivFacts
    <3> HIDE DEF from
    <3> DEFINE m == q + n
    <3>5. m \in Nat /\ m = q + n /\ last + n * Interval = m * Interval /\ m * Interval \in Nat
      BY <1>0, <1>2, <3>2
    <3> HIDE DEF m
    <3>6. m <= d.hi \div Interval
      <4>1. CASE n = 0
        <5>1. b.hi \div Interval <= d.hi \div Interval
          BY <1>0, <1>5, <3>3, DivMono
        <5>2. b.hi \div Interval \in Nat /\ d.hi \div Interval \in Nat
          BY <1>0, <1>5, <3>3, DivFacts
        <5> QED  BY <3>2, <3>5, <4>1, <5>1, <5>2
      <4>2. CASE n # 0
        <5>1. m * Interval <= d.hi
          BY <1>2, <1>5, <3>5, <4>2
        <5> QED  BY <1>0, <1>5, <3>5, <5>1, DivGreatest
      <4> QED  BY <4>1, <4>2
    <3>7. d.count + a.cell[1] <= cap + rate * (m - from)
      <4> DEFINE z == q - from
                 x == rate * z
                 y == n * rate
      <4>1. z \in Nat /\ m - from = z + n
        BY <1>2, <3>2, <3>4, <3>5
      <4>2. full[1] <= tok + y /\ b.count + tok <= cap + x
        BY <1>2, <3>2
      <4> HIDE DEF z
      <4>3. x \in Nat /\ y \in Nat /\ rate * (z + n) = x + y
        BY <1>0, <1>2, <4>1
      <4> HIDE DEF x, y
      <4>4. b.count + full[1] <= cap + (x + y)
        BY <1>0, <1>1, <1>2, <3>3, <4>2, <4>3
      <4> QED  BY <1>6, <4>1, <4>3, <4>4
    <3>8. from <= m
      BY <1>2, <3>2, <3>4, <3>5
    <3>9. a.cell[2] = m * Interval
      BY <1>2, <1>3, <3>5
    <3>10. Covered(a.cell, d, spec, m)
      BY <3>3, <3>6, <3>7, <3>8, <3>9 DEF Covered, cap, rate, from
    <3> QED  BY <3>5, <3>10
  <2> QED  BY <2>1, <2>2
<1>10. BucketOK(a.cell, d, spec)
  BY <1>5, <1>6, <1>7, <1>8, <1>9 DEF BucketOK
<1> QED  BY <1>10 DEF a, d

(* The bucket's grants are covered by the clocks it saw.                   *)
LEMMA CoveredGrants ==
  ASSUME NEW c, NEW b, NEW spec, SpecOK(spec), BucketOK(c, b, spec), b.lo # Wild
  PROVE  b.count <= spec.capacity
                    + spec.refill * ((b.hi \div Interval) - (b.lo \div Interval))
<1>1. PICK q \in Nat : Covered(c, b, spec, q)
  BY DEF BucketOK
<1> DEFINE from == b.lo \div Interval
           to == b.hi \div Interval
           cap == spec.capacity
           rate == spec.refill
<1>2. b.lo \in Nat /\ b.hi \in Nat /\ b.count \in Nat /\ c[1] \in Nat
  BY DEF BucketOK
<1>3. cap \in Nat /\ rate \in Nat /\ Interval \in Nat \ {0}
  BY ClockAssumption DEF SpecOK
<1>4. from \in Nat /\ to \in Nat
  BY <1>2, <1>3, DivFacts
<1>5. from <= q /\ q <= to /\ b.count + c[1] <= cap + rate * (q - from)
  BY <1>1 DEF Covered
<1> HIDE DEF from, to, cap, rate
<1>6. /\ (q - from) * rate <= (to - from) * rate
      /\ (q - from) * rate \in Nat /\ (to - from) * rate \in Nat
  <2>1. q - from \in Nat /\ to - from \in Nat /\ q - from <= to - from
    BY <1>4, <1>5
  <2> QED  BY <1>3, <2>1, MulMono
<1>7. rate * (q - from) = (q - from) * rate /\ rate * (to - from) = (to - from) * rate
  BY <1>3, <1>4
<1>8. b.count <= cap + rate * (to - from)
  <2> DEFINE x == (q - from) * rate
             y == (to - from) * rate
  <2>1. x \in Nat /\ y \in Nat /\ x <= y /\ b.count + c[1] <= cap + x
    BY <1>5, <1>6, <1>7
  <2> HIDE DEF x, y
  <2>2. b.count <= cap + y
    BY <1>2, <1>3, <2>1
  <2> QED  BY <1>7, <2>2 DEF y
<1> QED  BY <1>8 DEF from, to, cap, rate
-----------------------------------------------------------------------------
BucketInv ==
  /\ clock \in MinClock..MaxClock
  /\ \A g \in Gens, i \in Limited, s \in Slots :
       BucketOK(cells[g][i][s], grants[g][i][s], BucketSpec(Routes[i].limit))
  /\ \E C, G : /\ cells \in [Gens -> [Limited -> [Slots -> C]]]
              /\ grants \in [Gens -> [Limited -> [Slots -> G]]]

LEMMA LimitsOK ==
  ASSUME NEW i \in Limited
  PROVE  SpecOK(BucketSpec(Routes[i].limit))
<1>1. Routes[i].limit.rate \in 1..MaxU64 /\ Routes[i].limit.burst \in 1..MaxU64
  BY ConfigAssumption DEF Limited
<1> QED  BY <1>1 DEF SpecOK, BucketSpec

LEMMA BucketInvInit ==
  Init => BucketInv
<1> SUFFICES ASSUME Init PROVE BucketInv
  OBVIOUS
<1>1. clock \in MinClock..MaxClock
  BY ClockAssumption DEF Init
<1>2. ASSUME NEW g \in Gens, NEW i \in Limited, NEW s \in Slots
      PROVE  BucketOK(cells[g][i][s], grants[g][i][s], BucketSpec(Routes[i].limit))
  <2>1. cells[g][i][s] = <<0, 0>> /\ grants[g][i][s] = [count |-> 0, lo |-> Wild, hi |-> 0]
    BY DEF Init
  <2> QED  BY <2>1, ClockAssumption DEF BucketOK
<1>3. \E C, G : /\ cells \in [Gens -> [Limited -> [Slots -> C]]]
              /\ grants \in [Gens -> [Limited -> [Slots -> G]]]
  <2>1. /\ cells \in [Gens -> [Limited -> [Slots -> {<<0, 0>>}]]]
        /\ grants \in [Gens -> [Limited -> [Slots -> {[count |-> 0, lo |-> Wild, hi |-> 0]}]]]
    BY DEF Init
  <2> QED  BY <2>1
<1> QED  BY <1>1, <1>2, <1>3 DEF BucketInv

(* One entry of a table of tables of tables is replaced, or none.          *)
LEMMA PutShape ==
  ASSUME NEW A, NEW B, NEW D, NEW C, NEW f \in [A -> [B -> [D -> C]]],
         NEW x, NEW y, NEW z, NEW v
  PROVE  [f EXCEPT ![x][y][z] = v] \in [A -> [B -> [D -> C \cup {v}]]]
<1> DEFINE F == [f EXCEPT ![x][y][z] = v]
<1>1. F = [a \in A |-> IF a = x THEN [f[x] EXCEPT ![y][z] = v] ELSE f[a]]
  OBVIOUS
<1>2. ASSUME NEW a \in A PROVE F[a] \in [B -> [D -> C \cup {v}]]
  <2>1. f[a] \in [B -> [D -> C]]
    OBVIOUS
  <2> DEFINE h == f[a]
             H == [h EXCEPT ![y][z] = v]
  <2>2. F[a] = H \/ F[a] = h
    BY <1>1
  <2>3. H = [b \in B |-> IF b = y THEN [h[y] EXCEPT ![z] = v] ELSE h[b]]
    BY <2>1
  <2>4. ASSUME NEW b \in B PROVE H[b] \in [D -> C \cup {v}]
    <3>1. h[b] \in [D -> C]
      BY <2>1
    <3>2. H[b] = [h[b] EXCEPT ![z] = v] \/ H[b] = h[b]
      BY <2>3
    <3> HIDE DEF h, H
    <3> QED  BY <3>1, <3>2
  <2>5. ASSUME NEW b \in B PROVE h[b] \in [D -> C \cup {v}]
    BY <2>1
  <2>6. H \in [B -> [D -> C \cup {v}]] /\ h \in [B -> [D -> C \cup {v}]]
    BY <2>1, <2>3, <2>4, <2>5
  <2> HIDE DEF h, H, F
  <2> QED  BY <2>2, <2>6
<1>3. F = [a \in A |-> F[a]]
  OBVIOUS
<1> HIDE DEF F
<1>4. F \in [A -> [B -> [D -> C \cup {v}]]]
  BY <1>2, <1>3
<1> QED  BY <1>4 DEF F

(* A consult leaves every bucket in order: the one it asked by             *)
(* ConsultKeeps, the others untouched.                                     *)
LEMMA ConsultStep ==
  ASSUME BucketInv, NEW w \in Workers, CheckRateLimit(w)
  PROVE  BucketInv'
<1> DEFINE r == req[w]
           limit == Routes[r.route].limit
           k == Slot(limit, r.asked.peer)
           spec == BucketSpec(limit)
           answer == ApplyBucket(cells[r.gen][r.route][k], 1, spec, clock)
           seen == grants[r.gen][r.route][k]
           note == Noted(seen, answer.allowed, clock)
<1>1. clock' = clock
  BY DEF CheckRateLimit
<1>2. CASE limit = Wild
  <2>1. cells' = cells /\ grants' = grants
    BY <1>2 DEF CheckRateLimit
  <2> QED  BY <1>1, <2>1 DEF BucketInv
<1>3. CASE limit # Wild
  <2>1. /\ cells' = [cells EXCEPT ![r.gen][r.route][k] = answer.cell]
        /\ grants' = [grants EXCEPT ![r.gen][r.route][k] = note]
    BY <1>3 DEF CheckRateLimit, Noted
  <2>2. PICK C, G : /\ cells \in [Gens -> [Limited -> [Slots -> C]]]
                    /\ grants \in [Gens -> [Limited -> [Slots -> G]]]
    BY DEF BucketInv
  <2> DEFINE put == answer.cell
             gn == r.gen
             rt == r.route
  <2>3. ASSUME NEW g \in Gens, NEW i \in Limited, NEW s \in Slots
        PROVE  BucketOK(cells'[g][i][s], grants'[g][i][s], BucketSpec(Routes[i].limit))
    <3>1. CASE g = gn /\ i = rt /\ s = k
      <4> HIDE DEF put, note, gn, rt, k
      <4>1. cells'[g][i][s] = put /\ grants'[g][i][s] = note
        BY <2>1, <2>2, <3>1 DEF put, gn, rt
      <4>2. BucketOK(cells[g][i][s], grants[g][i][s], BucketSpec(Routes[i].limit))
        BY DEF BucketInv
      <4>3. clock \in Nat /\ clock <= MaxU64
        BY ClockAssumption DEF BucketInv
      <4>4. SpecOK(BucketSpec(Routes[i].limit))
        BY LimitsOK
      <4>5. LET a == ApplyBucket(cells[g][i][s], 1, BucketSpec(Routes[i].limit), clock)
            IN  BucketOK(a.cell, Noted(grants[g][i][s], a.allowed, clock), BucketSpec(Routes[i].limit))
        BY <4>2, <4>3, <4>4, ConsultKeeps
      <4>6. BucketOK(put, note, BucketSpec(Routes[i].limit))
        BY <3>1, <4>5 DEF put, note, gn, rt
      <4> QED  BY <4>1, <4>6
    <3>2. CASE ~(g = gn /\ i = rt /\ s = k)
      <4> HIDE DEF put, note, gn, rt, k
      <4>1. cells'[g][i][s] = cells[g][i][s] /\ grants'[g][i][s] = grants[g][i][s]
        BY <2>1, <2>2, <3>2 DEF put, gn, rt
      <4> QED  BY <4>1 DEF BucketInv
    <3> QED  BY <3>1, <3>2
  <2>4. /\ cells' \in [Gens -> [Limited -> [Slots -> C \cup {put}]]]
        /\ grants' \in [Gens -> [Limited -> [Slots -> G \cup {note}]]]
    <3> HIDE DEF put, note, gn, rt, k
    <3>1. /\ cells' = [cells EXCEPT ![gn][rt][k] = put]
          /\ grants' = [grants EXCEPT ![gn][rt][k] = note]
      BY <2>1 DEF put, gn, rt
    <3> QED  BY <2>2, <3>1, PutShape
  <2>5. \E D, H : /\ cells' \in [Gens -> [Limited -> [Slots -> D]]]
                /\ grants' \in [Gens -> [Limited -> [Slots -> H]]]
    BY <2>4
  <2> QED  BY <1>1, <2>3, <2>5 DEF BucketInv
<1> QED  BY <1>2, <1>3

LEMMA BucketInvNext ==
  BucketInv /\ [Next]_vars => BucketInv'
<1> SUFFICES ASSUME BucketInv, [Next]_vars PROVE BucketInv'
  OBVIOUS
<1>1. CASE UNCHANGED <<clock, cells, grants>>
  BY <1>1 DEF BucketInv
<1>2. ASSUME NEW w \in Workers, NEW q \in Requests, Arrive(w, q) PROVE BucketInv'
  BY <1>1, <1>2 DEF Arrive, history
<1>3. ASSUME NEW w \in Workers, CheckRateLimit(w) PROVE BucketInv'
  BY <1>3, ConsultStep
<1>4. ASSUME NEW w \in Workers, Dispatch(w) \/ Pick(w) \/ Probe(w) \/ Claim(w) \/ Scan(w)
                                      \/ Finish(w)
      PROVE  BucketInv'
  BY <1>1, <1>4, Zenon DEF Dispatch, Pick, Probe, Claim, Scan, Finish, history
<1>5. CASE Reload
  BY <1>1, <1>5 DEF Reload, history
<1>6. ASSUME NEW u \in Instances, Flip(u) PROVE BucketInv'
  BY <1>1, <1>6 DEF Flip
<1>7. CASE ClockStep
  BY <1>7 DEF ClockStep, history, BucketInv
<1>8. CASE UNCHANGED vars
  BY <1>1, <1>8 DEF vars
<1> QED  BY <1>2, <1>3, <1>4, <1>5, <1>6, <1>7, <1>8 DEF Next

(* A cell in order makes every retry hint from it late enough.             *)
LEMMA BucketInvImplies ==
  BucketInv => BucketHonest
<1> SUFFICES ASSUME BucketInv PROVE BucketHonest
  OBVIOUS
<1>1. GrantsBounded
  <2> SUFFICES ASSUME NEW g \in Gens, NEW i \in Limited, NEW s \in Slots,
                      grants[g][i][s].lo # Wild
               PROVE  LET b == grants[g][i][s]
                          spec == BucketSpec(Routes[i].limit)
                      IN  b.count <= spec.capacity
                            + spec.refill * ((b.hi \div Interval) - (b.lo \div Interval))
    BY DEF GrantsBounded
  <2>1. BucketOK(cells[g][i][s], grants[g][i][s], BucketSpec(Routes[i].limit))
    BY DEF BucketInv
  <2> QED  BY <2>1, LimitsOK, CoveredGrants
<1>2. RetryIsLateEnough
  <2> SUFFICES ASSUME NEW g \in Gens, NEW i \in Limited, NEW s \in Slots,
                      NEW cost \in 1..BucketSpec(Routes[i].limit).capacity,
                      clock >= cells[g][i][s][2], cost * Interval <= MaxU64,
                      ~ApplyBucket(cells[g][i][s], cost, BucketSpec(Routes[i].limit), clock).allowed
               PROVE  LET a == ApplyBucket(cells[g][i][s], cost, BucketSpec(Routes[i].limit), clock)
                      IN  ApplyBucket(a.cell, cost, BucketSpec(Routes[i].limit), clock + a.retry).allowed
    BY DEF RetryIsLateEnough
  <2> DEFINE tok == cells[g][i][s][1]
             last == cells[g][i][s][2]
  <2>1. tok \in Nat /\ last \in Nat /\ cells[g][i][s] = <<tok, last>>
    <3>1. cells[g][i][s] \in Nat \X Nat
      BY DEF BucketInv, BucketOK
    <3> QED  BY <3>1
  <2>2. clock \in Nat /\ clock <= MaxU64 /\ last <= clock
    BY <2>1, ClockAssumption DEF BucketInv
  <2> HIDE DEF tok, last
  <2> QED  BY <2>1, <2>2, LimitsOK, RetrySuffices
<1> QED  BY <1>1, <1>2 DEF BucketHonest

(* A bucket grants no more than its burst and the refills between the      *)
(* clocks it saw, and no refusal names a wait that is too short: for every *)
(* step the wall clock may take, every reload and every interleaving of    *)
(* the requests that consult it (ratelimit.rs; backend.rs, apply_bucket).  *)
THEOREM BucketsAreHonest == Spec => []BucketHonest
<1>1. Spec => []BucketInv
  BY BucketInvInit, BucketInvNext, PTL DEF Spec
<1> QED  BY <1>1, BucketInvImplies, PTL

-----------------------------------------------------------------------------
(* The weighted split.  Weights as a manifest gives them, and weights that *)
(* were reduced.                                                           *)
SplitWeights(w) ==
  /\ IsFiniteSet(DOMAIN w) /\ DOMAIN w \subseteq Int
  /\ \A i \in DOMAIN w : w[i] \in Nat /\ w[i] <= MaxBackendWeight
  /\ Live(w) # {}

PositiveWeights(r) ==
  /\ IsFiniteSet(DOMAIN r) /\ DOMAIN r # {} /\ DOMAIN r \subseteq Int
  /\ r \in [DOMAIN r -> Nat \ {0}]

LEMMA ModFacts ==
  ASSUME NEW a \in Nat, NEW d \in Nat \ {0}, a % d = 0
  PROVE  a = d * (a \div d) /\ a \div d \in Nat
OBVIOUS

LEMMA DivisorFacts ==
  ASSUME NEW w, SplitWeights(w)
  PROVE  /\ Divisor(w) \in Nat \ {0}
         /\ \A i \in Live(w) : w[i] % Divisor(w) = 0
<1> DEFINE ds == {d \in 1..MaxBackendWeight : \A i \in Live(w) : w[i] % d = 0}
<1>0. MaxBackendWeight \in Nat
  BY ConfigAssumption
<1>1. 1 \in ds
  <2>1. PICK i : i \in Live(w)
    BY DEF SplitWeights
  <2>2. w[i] \in Nat /\ w[i] > 0 /\ w[i] <= MaxBackendWeight
    BY <2>1 DEF SplitWeights, Live
  <2>3. \A j \in Live(w) : w[j] % 1 = 0
    BY DEF SplitWeights, Live
  <2> QED  BY <1>0, <2>2, <2>3
<1>2. IsFiniteSet(ds) /\ ds \subseteq Int
  <2>1. IsFiniteSet(1..MaxBackendWeight)
    BY <1>0, FS_Interval
  <2>2. ds \subseteq 1..MaxBackendWeight /\ 1..MaxBackendWeight \subseteq Int
    OBVIOUS
  <2> HIDE DEF ds
  <2> QED  BY <2>1, <2>2, FS_Subset
<1> DEFINE id == [d \in ds |-> d]
<1>7. \A d \in ds : id[d] \in Int
  BY <1>2
<1> HIDE DEF ds, id
<1>3. PICK top \in ds : \A d \in ds : id[top] > id[d] \/ (id[top] = id[d] /\ top <= d)
  BY <1>1, <1>2, <1>7, GreatestExists
<1>4. \A d \in ds : top >= d
  BY <1>2, <1>3 DEF id
<1>5. Max(ds) \in ds
  BY <1>4 DEF Max
<1>6. Divisor(w) \in ds
  BY <1>5 DEF Divisor, ds
<1> QED  BY <1>6 DEF ds

LEMMA ReducedFacts ==
  ASSUME NEW w, SplitWeights(w)
  PROVE  /\ PositiveWeights(Reduced(w)) /\ DOMAIN Reduced(w) = Live(w)
         /\ \A i \in Live(w) : w[i] = Divisor(w) * Reduced(w)[i]
<1> DEFINE d == Divisor(w)
<1>1. d \in Nat \ {0} /\ \A i \in Live(w) : w[i] % d = 0
  BY DivisorFacts
<1> HIDE DEF d
<1>2. DOMAIN Reduced(w) = Live(w) /\ \A i \in Live(w) : Reduced(w)[i] = w[i] \div d
  BY DEF Reduced, d
<1>3. ASSUME NEW i \in Live(w)
      PROVE  w[i] = d * Reduced(w)[i] /\ Reduced(w)[i] \in Nat \ {0}
  <2>1. w[i] \in Nat /\ w[i] > 0
    BY DEF SplitWeights, Live
  <2>2. w[i] = d * (w[i] \div d) /\ w[i] \div d \in Nat
    BY <1>1, <2>1, ModFacts
  <2> DEFINE q == w[i] \div d
  <2>3. w[i] = d * q /\ q \in Nat /\ Reduced(w)[i] = q
    BY <1>2, <2>2
  <2> HIDE DEF q
  <2>4. q # 0
    BY <1>1, <2>1, <2>3
  <2> QED  BY <2>3, <2>4
<1>4. IsFiniteSet(Live(w)) /\ Live(w) # {} /\ Live(w) \subseteq Int
  BY FS_Subset DEF SplitWeights, Live
<1>5. Reduced(w) \in [Live(w) -> Nat \ {0}]
  BY <1>2, <1>3 DEF Reduced
<1> QED  BY <1>2, <1>3, <1>4, <1>5 DEF PositiveWeights, d

LEMMA TotalPositive ==
  ASSUME NEW r, PositiveWeights(r)
  PROVE  Total(r) \in Nat \ {0}
<1> DEFINE D == DOMAIN r
<1>1. \A x \in D : r[x] \in Int /\ r[x] > 0
  BY DEF PositiveWeights
<1>2. PICK x : x \in D
  BY DEF PositiveWeights
<1>3. IsFiniteSet(D) /\ IsFiniteSet(D \ {x})
  BY FS_Subset DEF PositiveWeights
<1>4. SumFunctionOnSet(r, D) = r[x] + SumFunctionOnSet(r, D \ {x})
  BY <1>1, <1>2, <1>3, SumRemove
<1>5. SumFunctionOnSet(r, D \ {x}) \in Nat
  <2>1. \A y \in D \ {x} : r[y] \in Int /\ r[y] >= 0
    BY <1>1
  <2> QED  BY <1>3, <2>1, SumNotNegative
<1> QED  BY <1>1, <1>2, <1>4, <1>5 DEF Total, SumFunction

LEMMA TotalScales ==
  ASSUME NEW w, SplitWeights(w)
  PROVE  Total(w) = Divisor(w) * Total(Reduced(w))
<1> DEFINE D == DOMAIN w
<1>1. IsFiniteSet(D) /\ Live(w) \subseteq D /\ IsFiniteSet(Live(w))
  BY FS_Subset DEF SplitWeights, Live
<1>2. (\A x \in D : w[x] \in Int) /\ \A x \in D \ Live(w) : w[x] = 0
  BY DEF SplitWeights, Live
<1>3. SumFunctionOnSet(w, D) = SumFunctionOnSet(w, Live(w))
  BY <1>1, <1>2, SumSupport
<1>4. Divisor(w) \in Int
  BY DivisorFacts
<1>5. \A x \in Live(w) : Reduced(w)[x] \in Int /\ w[x] = Divisor(w) * Reduced(w)[x]
  BY ReducedFacts DEF PositiveWeights
<1>6. SumFunctionOnSet(w, Live(w)) = Divisor(w) * SumFunctionOnSet(Reduced(w), Live(w))
  BY <1>1, <1>4, <1>5, SumScales
<1> QED  BY <1>3, <1>6, ReducedFacts DEF Total, SumFunction

(* The neediest backend is one of them, and none needs more.               *)
LEMMA NeediestFacts ==
  ASSUME NEW D, IsFiniteSet(D), D # {}, D \subseteq Int, NEW d \in [D -> Int]
  PROVE  Neediest(d) \in D /\ \A j \in D : d[j] <= d[Neediest(d)]
<1>1. \E i \in D : \A j \in D : d[i] > d[j] \/ (d[i] = d[j] /\ i <= j)
  BY GreatestExists
<1>2. DOMAIN d = D
  OBVIOUS
<1>3. /\ Neediest(d) \in D
      /\ \A j \in D : d[Neediest(d)] > d[j] \/ (d[Neediest(d)] = d[j] /\ Neediest(d) <= j)
  BY <1>1, <1>2, Zenon DEF Neediest
<1> DEFINE m == Neediest(d)
<1>4. m \in D /\ \A j \in D : d[m] > d[j] \/ d[m] = d[j]
  BY <1>3
<1> HIDE DEF m
<1>5. \A j \in D : d[j] <= d[m]
  BY <1>4
<1> QED  BY <1>4, <1>5 DEF m

(* Deficits that are in order: they add up to nothing, and none is a whole *)
(* total below zero.                                                       *)
InOrder(r, d) ==
  /\ d \in [DOMAIN r -> Int] /\ SumFunctionOnSet(d, DOMAIN r) = 0
  /\ \A b \in DOMAIN r : d[b] > -Total(r)

Served(r, d) == Neediest(Credited(r, d))

LEMMA DebitedFacts ==
  ASSUME NEW r, PositiveWeights(r), NEW d, d \in [DOMAIN r -> Int]
  PROVE  /\ Served(r, d) \in DOMAIN r
         /\ Debited(r, d) \in [DOMAIN r -> Int]
         /\ \A b \in DOMAIN r : Debited(r, d)[b] = IF b = Served(r, d)
                                                   THEN d[b] + r[b] - Total(r)
                                                   ELSE d[b] + r[b]
<1> DEFINE D == DOMAIN r
           c == Credited(r, d)
<1>1. \A b \in D : r[b] \in Int /\ d[b] \in Int
  BY DEF PositiveWeights
<1>2. c \in [D -> Int] /\ \A b \in D : c[b] = d[b] + r[b]
  BY <1>1 DEF Credited
<1> HIDE DEF c
<1>3. Neediest(c) \in D
  BY <1>2, NeediestFacts DEF PositiveWeights
<1>4. Debited(r, d) = [c EXCEPT ![Neediest(c)] = @ - Total(r)]
  BY DEF Debited, c
<1>5. Total(r) \in Int
  BY TotalPositive
<1> QED  BY <1>1, <1>2, <1>3, <1>4, <1>5 DEF Served, c

LEMMA DebitedInOrder ==
  ASSUME NEW r, PositiveWeights(r), NEW d, InOrder(r, d)
  PROVE  InOrder(r, Debited(r, d))
<1> DEFINE D == DOMAIN r
           c == Credited(r, d)
           e == Debited(r, d)
           p == Served(r, d)
           L == Total(r)
<1>0. IsFiniteSet(D) /\ d \in [D -> Int] /\ L \in Nat \ {0}
  BY TotalPositive DEF PositiveWeights, InOrder
<1>1. p \in D /\ e \in [D -> Int]
  BY DebitedFacts DEF InOrder
<1>2. \A b \in D : e[b] = IF b = p THEN d[b] + r[b] - L ELSE d[b] + r[b]
  BY DebitedFacts DEF InOrder
<1>3. \A b \in D : r[b] \in Int /\ r[b] > 0 /\ d[b] \in Int
  BY <1>0 DEF PositiveWeights
<1>4. c \in [D -> Int] /\ \A b \in D : c[b] = d[b] + r[b]
  BY <1>3 DEF Credited
<1>5. \A b \in D : c[b] <= c[p]
  BY <1>0, <1>4, NeediestFacts DEF Served, PositiveWeights
<1>6. SumFunctionOnSet(r, D) = L
  BY DEF Total, SumFunction
<1>7. SumFunctionOnSet(d, D) = 0
  BY DEF InOrder
<1>8. \A b \in D : d[b] > -L
  BY DEF InOrder
<1> HIDE DEF c, e, p, L, D
<1>9. SumFunctionOnSet(c, D) = L
  <2>1. SumFunctionOnSet(c, D) = SumFunctionOnSet(d, D) + SumFunctionOnSet(r, D)
    BY <1>0, <1>3, <1>4, SumAdds
  <2> QED  BY <1>0, <1>6, <1>7, <2>1
<1>10. c[p] > 0
  <2>1. \E b \in D : c[b] > 0
    BY <1>0, <1>4, <1>9, SumPositive
  <2> QED  BY <1>1, <1>4, <1>5, <2>1
<1>11. SumFunctionOnSet(e, D) = 0
  <2> DEFINE t == D \ {p}
  <2>1. IsFiniteSet(t)
    BY <1>0, FS_Subset
  <2>2. SumFunctionOnSet(e, D) = e[p] + SumFunctionOnSet(e, t)
    BY <1>0, <1>1, SumRemove
  <2>3. SumFunctionOnSet(c, D) = c[p] + SumFunctionOnSet(c, t)
    BY <1>0, <1>1, <1>4, SumRemove
  <2>4. SumFunctionOnSet(e, t) = SumFunctionOnSet(c, t)
    <3>1. \A x \in t : e[x] \in Int /\ e[x] = c[x]
      BY <1>1, <1>2, <1>4
    <3> QED  BY <2>1, <3>1, SumEqual
  <2>5. SumFunctionOnSet(c, t) \in Int /\ c[p] \in Int
    BY <1>1, <1>4, <2>1, SumType
  <2>6. e[p] = c[p] - L
    <3>1. e[p] = d[p] + r[p] - L /\ c[p] = d[p] + r[p]
      BY <1>1, <1>2, <1>4
    <3>2. d[p] \in Int /\ r[p] \in Int /\ L \in Int
      BY <1>0, <1>1, <1>3
    <3> QED  BY <3>1, <3>2
  <2> DEFINE rest == SumFunctionOnSet(c, t)
  <2>7. SumFunctionOnSet(e, D) = (c[p] - L) + rest /\ L = c[p] + rest
    BY <1>9, <2>2, <2>3, <2>4, <2>6
  <2>8. rest \in Int /\ c[p] \in Int
    BY <2>5
  <2> HIDE DEF t, rest
  <2> QED  BY <1>0, <2>7, <2>8
<1>12. ASSUME NEW b \in D PROVE e[b] > -L
  <2>1. CASE b = p
    <3>1. e[b] = c[p] - L /\ c[p] \in Int
      <4>1. e[b] = d[p] + r[p] - L /\ c[p] = d[p] + r[p] /\ c[p] \in Int
        BY <1>1, <1>2, <1>4, <2>1
      <4>2. d[p] \in Int /\ r[p] \in Int /\ L \in Int
        BY <1>0, <1>1, <1>3
      <4> QED  BY <4>1, <4>2
    <3> QED  BY <1>0, <1>10, <3>1
  <2>2. CASE b # p
    BY <1>0, <1>2, <1>3, <1>8, <2>2
  <2> QED  BY <2>1, <2>2
<1> QED  BY <1>1, <1>11, <1>12 DEF InOrder, D, e, L

(* The deficits of a period are the ones its steps leave.                  *)
LEMMA DeficitsRecur ==
  ASSUME NEW r, PositiveWeights(r)
  PROVE  /\ Deficits(r)[0] = [i \in DOMAIN r |-> 0]
         /\ \A k \in 1..Total(r) : Deficits(r)[k] = Debited(r, Deficits(r)[k - 1])
<1> DEFINE D == DOMAIN r
           L == Total(r)
           All == [D -> Int]
           base == [i \in D |-> 0]
           next == [d \in All |-> Debited(r, d)]
           Solves(g) == g = [k \in 0..L |-> IF k = 0 THEN base ELSE Debited(r, g[k - 1])]
<1>1. L \in Nat
  BY TotalPositive
<1>2. base \in All /\ next \in [All -> All]
  BY DebitedFacts
<1> HIDE DEF L
<1>3. PICK g \in [0..L -> All] : Recurs(L, base, next, g)
  BY <1>1, <1>2, RecursionExists
<1>4. Solves(g)
  <2>1. g = [k \in 0..L |-> IF k = 0 THEN base ELSE next[g[k - 1]]]
    BY <1>3 DEF Recurs
  <2>2. ASSUME NEW k \in 0..L
        PROVE  g[k] = IF k = 0 THEN base ELSE Debited(r, g[k - 1])
    <3>1. CASE k = 0
      BY <1>1, <2>1, <3>1
    <3>2. CASE k # 0
      <4>1. g[k - 1] \in All
        BY <1>1, <1>3, <3>2
      <4>2. g[k] = next[g[k - 1]]
        BY <2>1, <3>2
      <4>3. next[g[k - 1]] = Debited(r, g[k - 1])
        BY <4>1
      <4> QED  BY <3>2, <4>2, <4>3
    <3> QED  BY <3>1, <3>2
  <2> HIDE DEF base, next, All
  <2> QED  BY <1>3, <2>2
<1>5. Deficits(r) = CHOOSE h : Solves(h)
  BY Zenon DEF Deficits, L
<1> HIDE DEF Solves
<1>6. Solves(Deficits(r))
  BY <1>4, <1>5
<1>7. \A k \in 0..L : Deficits(r)[k] = IF k = 0 THEN base ELSE Debited(r, Deficits(r)[k - 1])
  <2> HIDE DEF base
  <2> QED  BY <1>6 DEF Solves
<1>8. Deficits(r)[0] = base
  BY <1>1, <1>7
<1>9. ASSUME NEW k \in 1..L PROVE Deficits(r)[k] = Debited(r, Deficits(r)[k - 1])
  BY <1>1, <1>7
<1> QED  BY <1>8, <1>9 DEF L

(* After k steps each deficit is what the backend was credited less what   *)
(* it was debited, a whole number of times the total.                      *)
WholeDebits(r, k, d) ==
  \A b \in DOMAIN r : \E m \in Int : d[b] = k * r[b] - m * Total(r)

LEMMA DeficitsInOrder ==
  ASSUME NEW r, PositiveWeights(r)
  PROVE  \A k \in 0..Total(r) : InOrder(r, Deficits(r)[k]) /\ WholeDebits(r, k, Deficits(r)[k])
<1> DEFINE L == Total(r)
           d(k) == Deficits(r)[k]
           Good(k) == InOrder(r, d(k)) /\ WholeDebits(r, k, d(k))
           N == {k \in Nat : k <= L => Good(k)}
<1>1. L \in Nat \ {0}
  BY TotalPositive
<1>2. \A b \in DOMAIN r : r[b] \in Int
  BY DEF PositiveWeights
<1>3. 0 \in N
  <2>1. d(0) = [i \in DOMAIN r |-> 0]
    BY DeficitsRecur
  <2>2. SumFunctionOnSet(d(0), DOMAIN r) = 0
    BY <2>1, SumOfZeros DEF PositiveWeights
  <2>3. InOrder(r, d(0))
    BY <1>1, <2>1, <2>2 DEF InOrder
  <2>4. WholeDebits(r, 0, d(0))
    <3> SUFFICES ASSUME NEW b \in DOMAIN r
                 PROVE  \E m \in Int : d(0)[b] = 0 * r[b] - m * L
      BY DEF WholeDebits
    <3>1. d(0)[b] = 0 * r[b] - 0 * L
      BY <1>1, <1>2, <2>1
    <3> QED  BY <3>1
  <2> QED  BY <2>3, <2>4
<1>4. ASSUME NEW k \in Nat, k \in N PROVE k + 1 \in N
  <2> SUFFICES ASSUME k + 1 <= L PROVE Good(k + 1)
    OBVIOUS
  <2>1. InOrder(r, d(k)) /\ WholeDebits(r, k, d(k))
    BY <1>1, <1>4
  <2>2. d(k + 1) = Debited(r, d(k))
    <3>1. k + 1 \in 1..Total(r) /\ (k + 1) - 1 = k
      BY <1>1
    <3>2. Deficits(r)[k + 1] = Debited(r, Deficits(r)[(k + 1) - 1])
      BY <3>1, DeficitsRecur
    <3> QED  BY <3>1, <3>2
  <2>3. InOrder(r, d(k + 1))
    BY <2>1, <2>2, DebitedInOrder
  <2>4. ASSUME NEW b \in DOMAIN r
        PROVE  \E m \in Int : d(k + 1)[b] = (k + 1) * r[b] - m * L
    <3>1. PICK m \in Int : d(k)[b] = k * r[b] - m * L
      BY <2>1 DEF WholeDebits
    <3>2. \/ d(k + 1)[b] = d(k)[b] + r[b] - L
          \/ d(k + 1)[b] = d(k)[b] + r[b]
      BY <2>1, <2>2, DebitedFacts DEF InOrder
    <3> DEFINE x == d(k + 1)[b]
               y == r[b]
               z == d(k)[b]
    <3>3. y \in Int /\ z = k * y - m * L /\ (x = z + y - L \/ x = z + y)
      BY <1>2, <3>1, <3>2
    <3> HIDE DEF x, y, z, L
    <3>4. CASE x = z + y - L
      <4>1. x = (k + 1) * y - (m + 1) * L
        BY <1>1, <3>3, <3>4
      <4> QED  BY <4>1 DEF x, y
    <3>5. CASE x = z + y
      <4>1. x = (k + 1) * y - m * L
        BY <1>1, <3>3, <3>5
      <4> QED  BY <4>1 DEF x, y
    <3> QED  BY <3>3, <3>4, <3>5
  <2> QED  BY <2>3, <2>4 DEF WholeDebits
<1> HIDE DEF N
<1>5. Nat \subseteq N
  BY <1>3, <1>4, InductionSet
<1>6. ASSUME NEW k \in 0..L PROVE Good(k)
  BY <1>1, <1>5 DEF N
<1> QED  BY <1>6

(* A period ends where it began.                                           *)
LEMMA PeriodCloses ==
  ASSUME NEW r, PositiveWeights(r)
  PROVE  Deficits(r)[Total(r)] = Deficits(r)[0]
<1> DEFINE L == Total(r)
           d == Deficits(r)[L]
           D == DOMAIN r
<1>1. L \in Nat \ {0}
  BY TotalPositive
<1>2. InOrder(r, d) /\ WholeDebits(r, L, d)
  BY <1>1, DeficitsInOrder
<1>3. ASSUME NEW b \in D PROVE d[b] \in Int /\ d[b] >= 0
  <2>1. PICK m \in Int : d[b] = L * r[b] - m * L
    BY <1>2 DEF WholeDebits
  <2>2. d[b] > -L /\ d[b] \in Int /\ r[b] \in Int
    BY <1>2 DEF InOrder, PositiveWeights
  <2> DEFINE x == d[b]
             y == r[b] - m
  <2>3. x = y * L /\ x > -L /\ y \in Int
    BY <1>1, <2>1, <2>2
  <2> HIDE DEF x, y, L
  <2>4. ASSUME y <= -1 PROVE FALSE
    <3>1. y * L <= -L
      BY <1>1, <2>3, <2>4
    <3> QED  BY <1>1, <2>3, <3>1
  <2>5. y >= 0
    BY <2>3, <2>4
  <2>6. y * L >= 0
    BY <1>1, <2>3, <2>5
  <2> QED  BY <2>2, <2>3, <2>6 DEF x
<1>4. \A b \in D : d[b] = 0
  <2>1. IsFiniteSet(D) /\ SumFunctionOnSet(d, D) = 0
    BY <1>2 DEF InOrder, PositiveWeights
  <2> HIDE DEF d, D
  <2> QED  BY <1>3, <2>1, SumZero
<1>5. d = [b \in D |-> 0]
  BY <1>2, <1>4 DEF InOrder
<1> QED  BY <1>5, DeficitsRecur

(* A route's table: one period of its reduced weights.                     *)
LEMMA SplitFacts ==
  ASSUME NEW i \in DOMAIN Routes
  PROVE  LET w == Routes[i].weights
             r == Reduced(w)
         IN  /\ SplitWeights(w) /\ PositiveWeights(r)
             /\ Len(Split[i]) = Total(r) /\ DOMAIN Split[i] = 1..Total(r)
             /\ \A k \in 1..Total(r) : /\ Split[i][k] = Served(r, Deficits(r)[k - 1])
                                       /\ Split[i][k] \in Live(w)
<1> DEFINE w == Routes[i].weights
           r == Reduced(w)
           L == Total(r)
<1>1. w \in Seq(Nat) /\ ValidSplit(w)
  BY ConfigAssumption
<1>2. SplitWeights(w)
  <2>1. DOMAIN w = 1..Len(w) /\ Len(w) \in Nat /\ \A j \in DOMAIN w : w[j] \in Nat
    BY <1>1
  <2>2. IsFiniteSet(1..Len(w)) /\ 1..Len(w) \subseteq Int
    BY <2>1, FS_Interval
  <2> QED  BY <1>1, <2>1, <2>2 DEF SplitWeights, ValidSplit
<1>3. PositiveWeights(r) /\ DOMAIN r = Live(w)
  BY <1>2, ReducedFacts
<1>4. L \in Nat
  BY <1>3, TotalPositive
<1> HIDE DEF L
<1>5. Split[i] = [k \in 1..L |-> Served(r, Deficits(r)[k - 1])]
  BY DEF Split, Table, WeightedSchedule, Served, L
<1>6. ASSUME NEW k \in 1..L PROVE Served(r, Deficits(r)[k - 1]) \in Live(w)
  <2>1. k - 1 \in 0..L
    BY <1>4
  <2>2. InOrder(r, Deficits(r)[k - 1])
    BY <1>3, <2>1, DeficitsInOrder DEF L
  <2> QED  BY <1>3, <2>2, DebitedFacts DEF InOrder
<1>7. Len(Split[i]) = L /\ DOMAIN Split[i] = 1..L
  BY <1>4, <1>5
<1>8. \A k \in 1..L : Split[i][k] = Served(r, Deficits(r)[k - 1])
  BY <1>5
<1> QED  BY <1>2, <1>3, <1>6, <1>7, <1>8 DEF L

(* Of two tuples of numbers that differ, one exceeds the other.            *)
Ranks == [1..6 -> Int]

LEMMA ExceedsTotal ==
  ASSUME NEW a \in Ranks, NEW b \in Ranks, a[6] # b[6]
  PROVE  Exceeds(a, b) \/ Exceeds(b, a)
<1> DEFINE Parts(k) == \A j \in 1..(k - 1) : a[j] = b[j]
<1>1. \E k \in 1..6 : a[k] # b[k] /\ Parts(k)
  <2>1. CASE a[1] # b[1]
    BY <2>1
  <2>2. CASE a[1] = b[1] /\ a[2] # b[2]
    BY <2>2
  <2>3. CASE a[1] = b[1] /\ a[2] = b[2] /\ a[3] # b[3]
    BY <2>3
  <2>4. CASE a[1] = b[1] /\ a[2] = b[2] /\ a[3] = b[3] /\ a[4] # b[4]
    BY <2>4
  <2>5. CASE a[1] = b[1] /\ a[2] = b[2] /\ a[3] = b[3] /\ a[4] = b[4] /\ a[5] # b[5]
    BY <2>5
  <2>6. CASE a[1] = b[1] /\ a[2] = b[2] /\ a[3] = b[3] /\ a[4] = b[4] /\ a[5] = b[5]
    BY <2>6
  <2> QED  BY <2>1, <2>2, <2>3, <2>4, <2>5, <2>6
<1>2. PICK k \in 1..6 : a[k] # b[k] /\ Parts(k)
  BY <1>1
<1>3. a[k] \in Int /\ b[k] \in Int /\ DOMAIN a = 1..6 /\ DOMAIN b = 1..6
  BY DEF Ranks
<1>4. CASE a[k] > b[k]
  BY <1>2, <1>3, <1>4 DEF Exceeds
<1>5. CASE b[k] > a[k]
  BY <1>2, <1>3, <1>5 DEF Exceeds
<1> QED  BY <1>2, <1>3, <1>4, <1>5

LEMMA ExceedsTransitive ==
  ASSUME NEW a \in Ranks, NEW b \in Ranks, NEW c \in Ranks, Exceeds(a, b), Exceeds(b, c)
  PROVE  Exceeds(a, c)
<1>1. PICK k \in 1..6 : a[k] > b[k] /\ \A j \in 1..(k - 1) : a[j] = b[j]
  BY DEF Exceeds, Ranks
<1>2. PICK l \in 1..6 : b[l] > c[l] /\ \A j \in 1..(l - 1) : b[j] = c[j]
  BY DEF Exceeds, Ranks
<1>3. \A j \in 1..6 : a[j] \in Int /\ b[j] \in Int /\ c[j] \in Int
  BY DEF Ranks
<1>4. DOMAIN a = 1..6
  BY DEF Ranks
<1>5. CASE k <= l
  <2>1. a[k] > c[k] /\ \A j \in 1..(k - 1) : a[j] = c[j]
    <3>1. b[k] >= c[k]
      <4>1. CASE k = l
        BY <1>2, <1>3, <4>1
      <4>2. CASE k < l
        BY <1>2, <1>3, <4>2
      <4> QED  BY <1>5, <4>1, <4>2
    <3> QED  BY <1>1, <1>2, <1>3, <1>5, <3>1
  <2> QED  BY <1>4, <2>1 DEF Exceeds
<1>6. CASE l < k
  <2>1. a[l] > c[l] /\ \A j \in 1..(l - 1) : a[j] = c[j]
    <3>1. a[l] = b[l]
      BY <1>1, <1>6
    <3> QED  BY <1>1, <1>2, <1>3, <1>6, <3>1
  <2> QED  BY <1>4, <2>1 DEF Exceeds
<1> QED  BY <1>5, <1>6

(* When a route fits, one is selected, and it fits.                        *)
LEMMA SelectFits ==
  ASSUME NEW q
  PROVE  \/ Select(Routes, q) = NoRoute
         \/ Select(Routes, q) \in DOMAIN Routes /\ RouteMatches(Routes[Select(Routes, q)], q)
<1> DEFINE fit == {i \in DOMAIN Routes : RouteMatches(Routes[i], q)}
           rank == [i \in DOMAIN Routes |-> Specificity(Routes[i], i)]
           best == {i \in fit : \A j \in fit \ {i} : Exceeds(rank[i], rank[j])}
           Good == {s \in SUBSET fit : s # {} =>
                      \E i \in s : \A j \in s \ {i} : Exceeds(rank[i], rank[j])}
<1>1. IsFiniteSet(fit)
  <2>1. DOMAIN Routes = 1..Len(Routes) /\ Len(Routes) \in Nat
    BY ConfigAssumption
  <2>2. IsFiniteSet(1..Len(Routes))
    BY <2>1, FS_Interval
  <2> QED  BY <2>1, <2>2, FS_Subset
<1>2. ASSUME NEW i \in DOMAIN Routes PROVE rank[i] \in Ranks /\ rank[i][6] = -i /\ i \in Int
  <2>1. i \in Int
    BY ConfigAssumption
  <2>2. /\ Len(Routes[i].prefix) \in Nat
        /\ Cardinality(Routes[i].headers) \in Nat /\ Cardinality(Routes[i].query) \in Nat
    BY ConfigAssumption, FS_CardinalityType
  <2>3. PrefixLen(Routes[i].prefix) \in Int
    BY <2>2 DEF PrefixLen
  <2> DEFINE a == IF Routes[i].host = Wild THEN 0 ELSE 1
             b == PrefixLen(Routes[i].prefix)
             c == IF Routes[i].method = Wild THEN 0 ELSE 1
             d == Cardinality(Routes[i].headers)
             e == Cardinality(Routes[i].query)
  <2>4. rank[i] = <<a, b, c, d, e, -i>>
    BY DEF Specificity
  <2>5. a \in Int /\ b \in Int /\ c \in Int /\ d \in Int /\ e \in Int
    BY <2>2, <2>3
  <2> HIDE DEF a, b, c, d, e, rank
  <2> QED  BY <2>1, <2>4, <2>5 DEF Ranks
<1> HIDE DEF rank
<1>3. {} \in Good
  OBVIOUS
<1>4. ASSUME NEW s \in SUBSET fit, NEW x \in s, s \ {x} \in Good
      PROVE  s \in Good
  <2>1. CASE s \ {x} = {}
    BY <2>1
  <2>2. CASE s \ {x} # {}
    <3>1. PICK i \in s \ {x} : \A j \in (s \ {x}) \ {i} : Exceeds(rank[i], rank[j])
      BY <1>4, <2>2
    <3>2. \A j \in s : rank[j] \in Ranks
      BY <1>2
    <3>3. rank[x][6] # rank[i][6]
      BY <1>2
    <3>4. CASE Exceeds(rank[i], rank[x])
      <4>1. \A j \in s \ {i} : Exceeds(rank[i], rank[j])
        BY <3>1, <3>4
      <4> QED  BY <4>1
    <3>5. CASE Exceeds(rank[x], rank[i])
      <4>1. ASSUME NEW j \in s \ {x} PROVE Exceeds(rank[x], rank[j])
        <5>1. CASE j = i
          BY <3>5, <5>1
        <5>2. CASE j # i
          BY <3>1, <3>2, <3>5, <5>2, ExceedsTransitive
        <5> QED  BY <5>1, <5>2
      <4> QED  BY <4>1
    <3> QED  BY <3>2, <3>3, <3>4, <3>5, ExceedsTotal
  <2> QED  BY <2>1, <2>2
<1> HIDE DEF Good
<1>5. fit \in Good
  BY <1>1, <1>3, <1>4, SubsetInduction
<1>6. fit # {} => best # {}
  BY <1>5 DEF Good
<1> DEFINE raw == {i \in fit : \A j \in fit \ {i} :
                     Exceeds(Specificity(Routes[i], i), Specificity(Routes[j], j))}
<1>7. best = raw
  BY DEF rank
<1>8. Select(Routes, q) = IF fit = {} THEN NoRoute ELSE CHOOSE i \in raw : TRUE
  BY Zenon DEF Select
<1>9. fit # {} => (CHOOSE i \in raw : TRUE) \in raw
  BY <1>6, <1>7
<1>10. fit # {} => Select(Routes, q) \in fit
  <2> HIDE DEF fit
  <2> QED  BY <1>8, <1>9
<1> QED  BY <1>8, <1>10

-----------------------------------------------------------------------------
(* Requests on their way.  A request that looks for an upstream has passed *)
(* over those instances only that were not eligible when it looked, and so *)
(* are not among the ones that stayed so.                                  *)
Missed(i, n, steady) == steady \cap InstancesOf[Entry(i, n)] = {}

Probing(r) ==
  /\ r \in [stage : {"probe"}, gen : Gens, route : DOMAIN Routes, todo : SUBSET r.todo,
            steady : SUBSET eligible]
  /\ r.steady \cap InstancesIn(LiveUpstreams[r.route]) \subseteq r.todo

Claiming(r) ==
  r \in [stage : {"claim"}, gen : Gens, route : DOMAIN Routes, steady : SUBSET eligible]

Scanning(r) ==
  /\ r \in [stage : {"scan"}, gen : Gens, route : DOMAIN Routes, off : Nat, start : Nat,
            todo : SUBSET r.todo, steady : SUBSET eligible]
  /\ r.start < Len(Split[r.route]) /\ r.off < Len(Split[r.route])
  /\ r.steady \cap InstancesOf[Entry(r.route, r.start + r.off)] \subseteq r.todo
  /\ \A k \in 0..(r.off - 1) : Missed(r.route, r.start + k, r.steady)

RequestOK(r) ==
  /\ r.stage \in {"idle", "routed", "chain", "pick", "probe", "claim", "scan", "unavailable"}
  /\ r.stage \in {"routed", "chain", "pick"} => r.gen \in Gens /\ r.route \in DOMAIN Routes
  /\ r.stage = "probe" => Probing(r)
  /\ r.stage = "claim" => Claiming(r)
  /\ r.stage = "scan" => Scanning(r)
  /\ r.stage = "unavailable" => r.steady \cap InstancesIn(LiveUpstreams[r.route]) = {}

RequestInv ==
  /\ gen \in Gens
  /\ req = [w \in Workers |-> req[w]]
  /\ \A w \in Workers : RequestOK(req[w])

LEMMA ModSmall ==
  ASSUME NEW n \in Nat \ {0}, NEW a \in Nat, a < n
  PROVE  a % n = a /\ (a + n) % n = a
OBVIOUS

(* Whoever has looked at as many entries as the table has saw them all.    *)
LEMMA ScanCovers ==
  ASSUME NEW i \in DOMAIN Routes, NEW start \in Nat, start < Len(Split[i]), NEW steady,
         \A k \in 0..(Len(Split[i]) - 1) : Missed(i, start + k, steady)
  PROVE  steady \cap InstancesIn(LiveUpstreams[i]) = {}
<1> DEFINE L == Len(Split[i])
<1>1. L \in Nat \ {0} /\ DOMAIN Split[i] = 1..L
  BY SplitFacts, TotalPositive
<1> SUFFICES ASSUME NEW j \in 1..L
             PROVE  steady \cap InstancesOf[Routes[i].upstreams[Split[i][j]]] = {}
  BY <1>1 DEF LiveUpstreams, InstancesIn
<1> HIDE DEF L
<1>2. \E k \in 0..(L - 1) : (start + k) % L = j - 1
  <2>1. start < L
    BY DEF L
  <2>2. CASE start <= j - 1
    <3>1. start + (j - 1 - start) = j - 1 /\ j - 1 - start \in 0..(L - 1)
      BY <1>1, <2>1, <2>2
    <3>2. (j - 1) % L = j - 1
      BY <1>1, ModSmall
    <3> QED  BY <3>1, <3>2
  <2>3. CASE start > j - 1
    <3> DEFINE k == (j - 1) + L - start
    <3>1. k \in 0..(L - 1) /\ start + k = (j - 1) + L
      BY <1>1, <2>1, <2>3
    <3>2. ((j - 1) + L) % L = j - 1
      BY <1>1, ModSmall
    <3> QED  BY <3>1, <3>2
  <2> QED  BY <1>1, <2>2, <2>3
<1>3. PICK k \in 0..(L - 1) : (start + k) % L = j - 1
  BY <1>2
<1>4. Entry(i, start + k) = Routes[i].upstreams[Split[i][(j - 1) + 1]]
  BY <1>3 DEF Entry, L
<1>5. (j - 1) + 1 = j
  BY <1>1
<1> QED  BY <1>3, <1>4, <1>5 DEF L, Missed

LEMMA RequestInvInit ==
  Init => RequestInv
BY ClockAssumption DEF Init, RequestInv, RequestOK, Idle, Gens

(* A step of one request leaves the others, and their upstreams, alone.    *)
LEMMA OneRequest ==
  ASSUME RequestInv, NEW w \in Workers, NEW r, req' = [req EXCEPT ![w] = r],
         UNCHANGED <<gen, eligible>>, (RequestOK(r))'
  PROVE  RequestInv'
<1>1. ASSUME NEW v \in Workers PROVE RequestOK(req[v])'
  <2>1. CASE v = w
    BY <2>1 DEF RequestInv
  <2>2. CASE v # w
    <3>1. req'[v] = req[v]
      BY <2>2 DEF RequestInv
    <3> QED  BY <3>1 DEF RequestInv, RequestOK, Probing, Claiming, Scanning
  <2> QED  BY <2>1, <2>2
<1> QED  BY <1>1 DEF RequestInv

(* The cursors only count.                                                 *)
CursorInv == cursor \in [Gens -> [DOMAIN Routes -> Nat]]

LEMMA CursorInvInit == Init => CursorInv
BY DEF Init, CursorInv, Fresh

LEMMA CursorInvNext ==
  CursorInv /\ [Next]_vars => CursorInv'
<1> SUFFICES ASSUME CursorInv, [Next]_vars PROVE CursorInv'
  OBVIOUS
<1>1. CASE UNCHANGED cursor
  BY <1>1 DEF CursorInv
<1>2. ASSUME NEW w \in Workers, Claim(w) PROVE CursorInv'
  <2> DEFINE g == req[w].gen
             i == req[w].route
  <2>1. cursor' = [cursor EXCEPT ![g][i] = @ + 1]
    BY <1>2, Zenon DEF Claim
  <2>2. PICK v : v = cursor[g][i] + 1
    BY Zenon
  <2>3. cursor' = [cursor EXCEPT ![g][i] = v]
    BY <2>1, <2>2
  <2>4. g \in Gens /\ i \in DOMAIN Routes => v \in Nat
    BY <2>2 DEF CursorInv
  <2> HIDE DEF g, i
  <2> QED  BY <2>3, <2>4 DEF CursorInv
<1> QED  BY <1>1, <1>2 DEF Next, Arrive, CheckRateLimit, Dispatch, Pick, Probe, Scan, Finish,
                           Reload, Flip, ClockStep, vars

LEMMA IdleOK == RequestOK(Idle) /\ RequestOK(Idle)'
BY DEF RequestOK, Idle

(* A request that gives up has passed over every instance of its route.    *)
LEMMA UnavailableKeeps ==
  ASSUME RequestInv, NEW w \in Workers, Unavailable(w), UNCHANGED <<gen, eligible>>,
         req[w].steady \cap InstancesIn(LiveUpstreams[req[w].route]) = {}
  PROVE  RequestInv'
<1>1. PICK r : r = [stage |-> "unavailable", route |-> req[w].route, steady |-> req[w].steady]
  BY Zenon
<1>2. r.stage = "unavailable" /\ r.route = req[w].route /\ r.steady = req[w].steady
  BY <1>1
<1>3. (RequestOK(r))'
  BY <1>2 DEF RequestOK
<1> QED  BY <1>1, <1>3, OneRequest DEF Unavailable

(* An instance passed over was not eligible, so it did not stay so.        *)
LEMMA PassOverKeeps ==
  ASSUME RequestInv, NEW w \in Workers, PassOver(w), UNCHANGED <<gen, eligible>>,
         req[w].stage \in {"probe", "scan"}
  PROVE  RequestInv'
<1> DEFINE r == req[w]
<1>1. PICK i : i = AtHand(w)
  OBVIOUS
<1>2. i \in r.todo /\ i \notin eligible
  BY <1>1 DEF PassOver, AtHand
<1>3. PICK new : new = [r EXCEPT !.todo = @ \ {i}]
  BY Zenon
<1>4. req' = [req EXCEPT ![w] = new]
  BY <1>1, <1>3, Zenon DEF PassOver
<1>5. CASE r.stage = "probe"
  <2>1. Probing(r)
    BY <1>5 DEF RequestInv, RequestOK
  <2>2. /\ new \in [stage : {"probe"}, gen : Gens, route : DOMAIN Routes, todo : SUBSET new.todo,
                     steady : SUBSET eligible]
        /\ new.stage = "probe" /\ new.route = r.route /\ new.steady = r.steady
        /\ new.todo = r.todo \ {i} /\ r.steady \subseteq eligible
    BY <1>3, <2>1 DEF Probing
  <2>3. new.steady \cap InstancesIn(LiveUpstreams[new.route]) \subseteq new.todo
    BY <1>2, <2>1, <2>2 DEF Probing
  <2>4. (Probing(new))'
    BY <2>2, <2>3 DEF Probing
  <2>5. (RequestOK(new))'
    BY <2>2, <2>4 DEF RequestOK
  <2> QED  BY <1>4, <2>5, OneRequest
<1>6. CASE r.stage = "scan"
  <2>1. Scanning(r)
    BY <1>6 DEF RequestInv, RequestOK
  <2>2. /\ new \in [stage : {"scan"}, gen : Gens, route : DOMAIN Routes, off : Nat, start : Nat,
                     todo : SUBSET new.todo, steady : SUBSET eligible]
        /\ new.stage = "scan" /\ new.route = r.route /\ new.steady = r.steady
        /\ new.start = r.start /\ new.off = r.off
        /\ new.todo = r.todo \ {i} /\ r.steady \subseteq eligible
    BY <1>3, <2>1 DEF Scanning
  <2>3. new.steady \cap InstancesOf[Entry(new.route, new.start + new.off)] \subseteq new.todo
    BY <1>2, <2>1, <2>2 DEF Scanning
  <2>4. /\ new.start < Len(Split[new.route]) /\ new.off < Len(Split[new.route])
        /\ \A k \in 0..(new.off - 1) : Missed(new.route, new.start + k, new.steady)
    BY <2>1, <2>2 DEF Scanning
  <2>5. (Scanning(new))'
    BY <2>2, <2>3, <2>4 DEF Scanning
  <2>6. (RequestOK(new))'
    BY <2>2, <2>5 DEF RequestOK
  <2> QED  BY <1>4, <2>6, OneRequest
<1> QED  BY <1>5, <1>6

LEMMA ProbeKeeps ==
  ASSUME RequestInv, NEW w \in Workers, Probe(w)
  PROVE  RequestInv'
<1> DEFINE r == req[w]
<1>1. r.stage = "probe" /\ UNCHANGED <<gen, eligible>> /\ Probing(r)
  BY Zenon DEF Probe, RequestInv, RequestOK
<1>2. r.gen \in Gens /\ r.route \in DOMAIN Routes /\ r.steady \subseteq eligible
  BY <1>1 DEF Probing
<1>3. ASSUME NEW new, new = [stage |-> "claim", gen |-> r.gen, route |-> r.route,
                             steady |-> r.steady],
             req' = [req EXCEPT ![w] = new]
      PROVE  RequestInv'
  <2>1. new.stage = "claim" /\ (Claiming(new))'
    BY <1>1, <1>2, <1>3 DEF Claiming
  <2>2. (RequestOK(new))'
    BY <2>1 DEF RequestOK
  <2> QED  BY <1>1, <1>3, <2>2, OneRequest
<1>4. CASE PassOver(w)
  BY <1>1, <1>4, PassOverKeeps
<1>5. CASE r.todo = {} /\ Unavailable(w)
  <2>1. r.steady \cap InstancesIn(LiveUpstreams[r.route]) = {}
    BY <1>1, <1>5 DEF Probing
  <2> QED  BY <1>1, <1>5, <2>1, UnavailableKeeps
<1> QED  BY <1>3, <1>4, <1>5, Zenon DEF Probe

LEMMA ClaimKeeps ==
  ASSUME RequestInv, CursorInv, NEW w \in Workers, Claim(w)
  PROVE  RequestInv'
<1> DEFINE r == req[w]
           start == cursor[r.gen][r.route] % Len(Split[r.route])
           insts == InstancesOf[Entry(r.route, start)]
<1>1. r.stage = "claim" /\ UNCHANGED <<gen, eligible>> /\ Claiming(r)
  BY Zenon DEF Claim, RequestInv, RequestOK
<1>2. r.gen \in Gens /\ r.route \in DOMAIN Routes /\ r.steady \subseteq eligible
  BY <1>1 DEF Claiming
<1>3. PICK new : new = [stage |-> "scan", gen |-> r.gen, route |-> r.route, off |-> 0,
                        start |-> start, todo |-> insts, steady |-> r.steady]
  BY Zenon
<1>4. req' = [req EXCEPT ![w] = new]
  BY <1>3, Zenon DEF Claim
<1>5. start \in Nat /\ start < Len(Split[r.route]) /\ 0 < Len(Split[r.route])
  <2>1. cursor[r.gen][r.route] \in Nat
    BY <1>2 DEF CursorInv
  <2>2. Len(Split[r.route]) \in Nat \ {0}
    BY <1>2, SplitFacts, TotalPositive
  <2> HIDE DEF r
  <2> QED  BY <2>1, <2>2
<1>6. PICK at : at = start /\ at \in Nat /\ at < Len(Split[r.route])
  BY <1>5
<1> HIDE DEF start
<1>7. /\ new \in [stage : {"scan"}, gen : Gens, route : DOMAIN Routes, off : Nat, start : Nat,
                   todo : SUBSET new.todo, steady : SUBSET eligible]
      /\ new.stage = "scan" /\ new.route = r.route /\ new.start = at /\ new.off = 0
      /\ new.todo = insts
  BY <1>2, <1>3, <1>6
<1>8. at + 0 = at
  BY <1>6
<1>9. new.steady \cap InstancesOf[Entry(new.route, new.start + new.off)] \subseteq new.todo
  BY <1>6, <1>7, <1>8
<1>10. 0..(0 - 1) = {}
  OBVIOUS
<1>11. (Scanning(new))'
  <2> HIDE DEF r, insts
  <2>1. new.start < Len(Split[new.route]) /\ new.off < Len(Split[new.route])
    BY <1>5, <1>6, <1>7
  <2> QED  BY <1>1, <1>7, <1>9, <1>10, <2>1 DEF Scanning
<1>12. (RequestOK(new))'
  BY <1>7, <1>11 DEF RequestOK
<1> QED  BY <1>1, <1>4, <1>12, OneRequest

LEMMA ScanKeeps ==
  ASSUME RequestInv, NEW w \in Workers, Scan(w)
  PROVE  RequestInv'
<1> DEFINE r == req[w]
           L == Len(Split[r.route])
<1>1. r.stage = "scan" /\ UNCHANGED <<gen, eligible>> /\ Scanning(r)
  BY Zenon DEF Scan, RequestInv, RequestOK
<1>2. r.route \in DOMAIN Routes /\ r.start \in Nat /\ r.off \in Nat /\ r.steady \subseteq eligible
  BY <1>1 DEF Scanning
<1>3. L \in Nat \ {0} /\ r.start < L /\ r.off < L
  BY <1>1, <1>2, SplitFacts, TotalPositive DEF Scanning
<1>4. CASE Answer(w)
  <2>1. PICK new : new = Idle
    OBVIOUS
  <2>2. (RequestOK(new))'
    BY <2>1, IdleOK
  <2> QED  BY <1>1, <1>4, <2>1, <2>2, OneRequest DEF Answer
<1>5. CASE PassOver(w)
  BY <1>1, <1>5, PassOverKeeps
<1>6. ASSUME r.todo = {} PROVE \A k \in 0..r.off : Missed(r.route, r.start + k, r.steady)
  <2>1. ASSUME NEW k \in 0..r.off PROVE Missed(r.route, r.start + k, r.steady)
    <3>1. CASE k = r.off
      BY <1>1, <1>6, <3>1 DEF Scanning, Missed
    <3>2. CASE k \in 0..(r.off - 1)
      BY <1>1, <3>2 DEF Scanning
    <3> QED  BY <1>2, <3>1, <3>2
  <2> QED  BY <2>1
<1>7. CASE r.todo = {} /\ r.off + 1 < L /\ Advance(w)
  <2> DEFINE insts == InstancesOf[Entry(r.route, r.start + r.off + 1)]
  <2>1. PICK new : new = [r EXCEPT !.off = @ + 1, !.todo = insts]
    BY Zenon
  <2>2. req' = [req EXCEPT ![w] = new]
    BY <1>7, <2>1, Zenon DEF Advance
  <2>3. /\ new \in [stage : {"scan"}, gen : Gens, route : DOMAIN Routes, off : Nat, start : Nat,
                     todo : SUBSET new.todo, steady : SUBSET eligible]
        /\ new.off = r.off + 1 /\ new.stage = "scan" /\ new.route = r.route
        /\ new.start = r.start /\ new.steady = r.steady /\ new.todo = insts
    <3>1. r \in [stage : {"scan"}, gen : Gens, route : DOMAIN Routes, off : Nat, start : Nat,
                 todo : SUBSET r.todo, steady : SUBSET eligible]
      BY <1>1 DEF Scanning
    <3>2. PICK n, s : n = r.off + 1 /\ s = insts
      OBVIOUS
    <3>3. n \in Nat /\ new = [r EXCEPT !.off = n, !.todo = s]
      BY <1>2, <2>1, <3>2
    <3> HIDE DEF r, insts
    <3>4. new = [stage |-> r.stage, gen |-> r.gen, route |-> r.route, off |-> n,
                 start |-> r.start, todo |-> s, steady |-> r.steady]
      BY <3>1, <3>3
    <3> QED  BY <3>1, <3>2, <3>3, <3>4
  <2>4. (r.off + 1) - 1 = r.off /\ r.start + (r.off + 1) = r.start + r.off + 1
    BY <1>2
  <2>5. \A k \in 0..(new.off - 1) : Missed(new.route, new.start + k, new.steady)
    BY <1>6, <1>7, <2>3, <2>4
  <2>6. new.start < Len(Split[new.route]) /\ new.off < Len(Split[new.route])
    BY <1>3, <1>7, <2>3
  <2>7. new.steady \cap InstancesOf[Entry(new.route, new.start + new.off)] \subseteq new.todo
    BY <2>3, <2>4
  <2>8. (Scanning(new))'
    <3> HIDE DEF r, L, insts
    <3> QED  BY <1>1, <2>3, <2>5, <2>6, <2>7 DEF Scanning
  <2>9. (RequestOK(new))'
    BY <2>3, <2>8 DEF RequestOK
  <2> QED  BY <1>1, <2>2, <2>9, OneRequest
<1>8. CASE r.todo = {} /\ ~(r.off + 1 < L) /\ Unavailable(w)
  <2>1. r.off = L - 1
    BY <1>2, <1>3, <1>8
  <2>2. \A k \in 0..(L - 1) : Missed(r.route, r.start + k, r.steady)
    BY <1>6, <1>8, <2>1
  <2>3. r.steady \cap InstancesIn(LiveUpstreams[r.route]) = {}
    BY <1>2, <1>3, <2>2, ScanCovers
  <2> QED  BY <1>1, <1>8, <2>3, UnavailableKeeps
<1> QED  BY <1>4, <1>5, <1>7, <1>8, Zenon DEF Scan

(* An instance that flips is no longer one that stayed eligible.           *)
LEMMA FlipKeeps ==
  ASSUME RequestInv, NEW u \in Instances, Flip(u)
  PROVE  RequestInv'
<1>1. req' = [w \in Workers |-> IF req[w].stage \in Looking
                                THEN [req[w] EXCEPT !.steady = @ \ {u}] ELSE req[w]]
  BY DEF Flip
<1>2. ASSUME NEW w \in Workers PROVE RequestOK(req[w])'
  <2> DEFINE r == req[w]
  <2>1. ASSUME r.steady \subseteq eligible PROVE r.steady \ {u} \subseteq eligible'
    BY <2>1 DEF Flip
  <2>2. CASE r.stage = "probe"
    <3>1. Probing(r)
      BY <2>2 DEF RequestInv, RequestOK
    <3>2. req'[w] = [r EXCEPT !.steady = @ \ {u}]
      BY <1>1, <2>2 DEF Looking
    <3>3. r.steady \ {u} \subseteq eligible'
      BY <2>1, <3>1 DEF Probing
    <3>4. /\ req'[w] \in [stage : {"probe"}, gen : Gens, route : DOMAIN Routes,
                           todo : SUBSET (req'[w].todo), steady : SUBSET (eligible')]
          /\ req'[w].stage = "probe" /\ req'[w].route = r.route
          /\ req'[w].steady \subseteq r.steady /\ req'[w].todo = r.todo
      BY <3>1, <3>2, <3>3 DEF Probing
    <3>5. Probing(req[w])'
      BY <3>1, <3>4 DEF Probing
    <3> QED  BY <3>4, <3>5 DEF RequestOK
  <2>3. CASE r.stage = "claim"
    <3>1. Claiming(r)
      BY <2>3 DEF RequestInv, RequestOK
    <3>2. req'[w] = [r EXCEPT !.steady = @ \ {u}]
      BY <1>1, <2>3 DEF Looking
    <3>3. r.steady \ {u} \subseteq eligible'
      BY <2>1, <3>1 DEF Claiming
    <3>4. req'[w].stage = "claim" /\ Claiming(req[w])'
      BY <3>1, <3>2, <3>3 DEF Claiming
    <3> QED  BY <3>4 DEF RequestOK
  <2>4. CASE r.stage = "scan"
    <3>1. Scanning(r)
      BY <2>4 DEF RequestInv, RequestOK
    <3>2. req'[w] = [r EXCEPT !.steady = @ \ {u}]
      BY <1>1, <2>4 DEF Looking
    <3>3. r.steady \ {u} \subseteq eligible'
      BY <2>1, <3>1 DEF Scanning
    <3>4. /\ req'[w] \in [stage : {"scan"}, gen : Gens, route : DOMAIN Routes, off : Nat,
                           start : Nat, todo : SUBSET (req'[w].todo),
                           steady : SUBSET (eligible')]
          /\ req'[w].stage = "scan" /\ req'[w].route = r.route /\ req'[w].off = r.off
          /\ req'[w].start = r.start /\ req'[w].steady \subseteq r.steady
          /\ req'[w].todo = r.todo
      BY <3>1, <3>2, <3>3 DEF Scanning
    <3>5. Scanning(req[w])'
      <4>1. \A k \in 0..(r.off - 1) : Missed(r.route, r.start + k, r.steady)
        BY <3>1 DEF Scanning
      <4>2. r.start < Len(Split[r.route]) /\ r.off < Len(Split[r.route])
        BY <3>1 DEF Scanning
      <4>3. r.steady \cap InstancesOf[Entry(r.route, r.start + r.off)] \subseteq r.todo
        BY <3>1 DEF Scanning
      <4>4. \A k \in 0..(r.off - 1) : Missed(r.route, r.start + k, req'[w].steady)
        BY <3>4, <4>1 DEF Missed
      <4> QED  BY <3>4, <4>2, <4>3, <4>4 DEF Scanning
    <3> QED  BY <3>4, <3>5 DEF RequestOK
  <2>5. CASE r.stage \notin Looking
    <3>1. req'[w] = req[w]
      BY <1>1, <2>5
    <3> QED  BY <2>5, <3>1 DEF RequestInv, RequestOK, Looking
  <2> QED  BY <2>2, <2>3, <2>4, <2>5 DEF Looking
<1> QED  BY <1>1, <1>2 DEF Flip, RequestInv

LEMMA RequestInvNext ==
  RequestInv /\ CursorInv /\ [Next]_vars => RequestInv'
<1> SUFFICES ASSUME RequestInv, CursorInv, [Next]_vars PROVE RequestInv'
  OBVIOUS
<1> USE DEF history
<1>1. ASSUME NEW w \in Workers, NEW q \in Requests, Arrive(w, q) PROVE RequestInv'
  <2> DEFINE clean == NormalizePath(q)
             route == IF clean = NoRoute THEN NoRoute ELSE Select(Routes, clean)
             new == IF route = NoRoute THEN Idle
                    ELSE [stage |-> "routed", gen |-> gen, route |-> route, asked |-> clean]
  <2>1. req' = [req EXCEPT ![w] = new] /\ UNCHANGED <<gen, eligible>>
    BY <1>1 DEF Arrive
  <2>2. route = NoRoute \/ route \in DOMAIN Routes
    BY SelectFits
  <2> HIDE DEF route, clean
  <2>3. PICK r : r = new
    OBVIOUS
  <2>4. (RequestOK(r))'
    <3>1. CASE route = NoRoute
      BY <2>3, <3>1, IdleOK
    <3>2. CASE route # NoRoute
      BY <2>2, <2>3, <3>2 DEF RequestOK, RequestInv
    <3> QED  BY <3>1, <3>2
  <2> QED  BY <2>1, <2>3, <2>4, OneRequest
<1>2. ASSUME NEW w \in Workers, CheckRateLimit(w) \/ Dispatch(w) PROVE RequestInv'
  <2>1. /\ req[w].stage \in {"routed", "chain"} /\ UNCHANGED <<gen, eligible>>
        /\ (\E stage \in {"chain", "pick"} : Enter(w, stage)) \/ Answer(w)
    <3>1. CASE CheckRateLimit(w)
      <4> DEFINE next == IF Routes[req[w].route].filters THEN "chain" ELSE "pick"
      <4>1. next \in {"chain", "pick"}
        OBVIOUS
      <4>2. /\ req[w].stage = "routed" /\ gen' = gen /\ eligible' = eligible
            /\ Enter(w, next) \/ Answer(w)
        BY <3>1, Zenon DEF CheckRateLimit
      <4> HIDE DEF next
      <4> QED  BY <4>1, <4>2
    <3>2. CASE Dispatch(w)
      BY <3>2, Zenon DEF Dispatch
    <3> QED  BY <1>2, <3>1, <3>2
  <2>2. req[w].gen \in Gens /\ req[w].route \in DOMAIN Routes
    BY <2>1 DEF RequestInv, RequestOK
  <2>3. CASE Answer(w)
    <3>1. PICK r : r = Idle
      OBVIOUS
    <3>2. (RequestOK(r))'
      BY <3>1, IdleOK
    <3> QED  BY <2>1, <2>3, <3>1, <3>2, OneRequest DEF Answer
  <2>4. ASSUME NEW stage \in {"chain", "pick"}, Enter(w, stage) PROVE RequestInv'
    <3>1. PICK r : r = [stage |-> stage, gen |-> req[w].gen, route |-> req[w].route]
      BY Zenon
    <3>2. (RequestOK(r))'
      BY <2>2, <3>1 DEF RequestOK
    <3> QED  BY <2>1, <2>4, <3>1, <3>2, OneRequest DEF Enter
  <2> QED  BY <2>1, <2>3, <2>4
<1>3. ASSUME NEW w \in Workers, Pick(w) PROVE RequestInv'
  <2> DEFINE route == req[w].route
             live == InstancesIn(LiveUpstreams[route])
  <2>1. req[w].stage = "pick" /\ UNCHANGED <<gen, eligible>>
    BY <1>3, Zenon DEF Pick
  <2>2. req[w].gen \in Gens /\ route \in DOMAIN Routes
    BY <2>1 DEF RequestInv, RequestOK
  <2>3. PICK r : r = [stage |-> "probe", gen |-> req[w].gen, route |-> route,
                      todo |-> live, steady |-> eligible]
    BY Zenon
  <2>4. req' = [req EXCEPT ![w] = r]
    BY <1>3, <2>3, Zenon DEF Pick
  <2>5. r.stage = "probe" /\ r.route = route /\ r.todo = live
    BY <2>3
  <2>6. (Probing(r))'
    <3> HIDE DEF live, route
    <3>1. r \in [stage : {"probe"}, gen : Gens, route : DOMAIN Routes, todo : SUBSET r.todo,
                 steady : SUBSET eligible]
      BY <2>2, <2>3
    <3>2. InstancesIn(LiveUpstreams[r.route]) = r.todo
      BY <2>5 DEF live
    <3> QED  BY <2>1, <3>1, <3>2 DEF Probing
  <2>7. (RequestOK(r))'
    BY <2>5, <2>6 DEF RequestOK
  <2> QED  BY <2>1, <2>4, <2>7, OneRequest
<1>4. ASSUME NEW w \in Workers, Probe(w) PROVE RequestInv'
  BY <1>4, ProbeKeeps
<1>9. ASSUME NEW w \in Workers, Claim(w) PROVE RequestInv'
  BY <1>9, ClaimKeeps
<1>10. ASSUME NEW w \in Workers, Scan(w) PROVE RequestInv'
  BY <1>10, ScanKeeps
<1>5. ASSUME NEW w \in Workers, Finish(w) PROVE RequestInv'
  <2>1. PICK r : r = Idle
    OBVIOUS
  <2>2. (RequestOK(r))'
    BY <2>1, IdleOK
  <2> QED  BY <1>5, <2>1, <2>2, OneRequest DEF Finish, Answer
<1>6. CASE Reload
  <2>1. gen' \in Gens
    BY <1>6, ClockAssumption DEF Reload, Gens, RequestInv
  <2> QED  BY <1>6, <2>1 DEF Reload, RequestInv, RequestOK, Probing, Claiming, Scanning
<1>7. ASSUME NEW u \in Instances, Flip(u) PROVE RequestInv'
  BY <1>7, FlipKeeps
<1>8. CASE ClockStep \/ UNCHANGED vars
  BY <1>8 DEF ClockStep, vars, RequestInv, RequestOK, Probing, Claiming, Scanning
<1> QED  BY <1>1, <1>2, <1>3, <1>4, <1>5, <1>6, <1>7, <1>8, <1>9, <1>10 DEF Next

-----------------------------------------------------------------------------
(* Shares.  As long as nothing flipped, what a backend was served is its   *)
(* share of the picks so far less its deficit at the cursor.               *)
Shaped(f) ==
  f = [g \in Gens |-> [i \in DOMAIN Routes |-> [b \in DOMAIN Routes[i].weights |-> f[g][i][b]]]]

(* One table, of the reduced weights r.                                    *)
OnSchedule(r, c, s) ==
  \A b \in DOMAIN r : s[b] * Total(r) - c * r[b] = -Deficits(r)[c % Total(r)][b]

SharesOf(i, c, s) ==
  LET w == Routes[i].weights
  IN  /\ \A b \in DOMAIN w : s[b] \in Nat
      /\ OnSchedule(Reduced(w), c, s)
      /\ \A b \in DOMAIN w \ Live(w) : s[b] = 0

AllShares(cur, f) ==
  \A g \in Gens, i \in DOMAIN Routes : SharesOf(i, cur[g][i], f[g][i])

ShareInv == Shaped(served) /\ (~flipped => AllShares(cursor, served))

LEMMA ModOfSum ==
  ASSUME NEW L \in Nat \ {0}, NEW q \in Nat, NEW m \in Nat, m < L
  PROVE  (q * L + m) % L = m
OBVIOUS

(* The entry at the cursor is the backend the schedule serves next.        *)
LEMMA ScheduleStep ==
  ASSUME NEW r, PositiveWeights(r), NEW c \in Nat, NEW s, NEW z,
         OnSchedule(r, c, s), \A b \in DOMAIN r : s[b] \in Nat,
         \A b \in DOMAIN r : z[b] = IF b = Served(r, Deficits(r)[c % Total(r)])
                                    THEN s[b] + 1 ELSE s[b]
  PROVE  OnSchedule(r, c + 1, z)
<1> DEFINE L == Total(r)
           k == c % L
           d == Deficits(r)[k]
           e == Debited(r, d)
           n == (c + 1) % L
<1>1. L \in Nat \ {0}
  BY TotalPositive
<1>2. k \in 0..(L - 1) /\ (n = k + 1 \/ (k + 1 = L /\ n = 0))
  <2> HIDE DEF L
  <2>1. k \in 0..(L - 1)
    BY <1>1
  <2>2. c = (c \div L) * L + k /\ c \div L \in Nat
    BY <1>1
  <2> DEFINE q == c \div L
  <2> HIDE DEF q, k
  <2>3. CASE k + 1 < L
    <3>1. c + 1 = q * L + (k + 1)
      BY <1>1, <2>1, <2>2 DEF q
    <3>2. (q * L + (k + 1)) % L = k + 1
      <4>1. q \in Nat /\ k + 1 \in Nat
        BY <1>1, <2>1, <2>2 DEF q
      <4> QED  BY <1>1, <2>3, <4>1, ModOfSum
    <3> QED  BY <2>1, <3>1, <3>2
  <2>4. CASE k + 1 = L
    <3>1. c + 1 = (q + 1) * L + 0
      BY <1>1, <2>1, <2>2, <2>4 DEF q
    <3>2. ((q + 1) * L + 0) % L = 0
      BY <1>1, <2>2, ModOfSum DEF q
    <3> QED  BY <2>1, <2>4, <3>1, <3>2
  <2> QED  BY <1>1, <2>1, <2>3, <2>4
<1>3. Deficits(r)[n] = e
  <2> HIDE DEF n
  <2>1. Deficits(r)[k + 1] = e
    <3> HIDE DEF k
    <3>1. k + 1 \in 1..L /\ (k + 1) - 1 = k
      BY <1>1, <1>2
    <3>2. Deficits(r)[k + 1] = Debited(r, Deficits(r)[(k + 1) - 1])
      BY <3>1, DeficitsRecur
    <3> QED  BY <3>1, <3>2
  <2>2. CASE n = k + 1
    BY <2>1, <2>2
  <2>3. CASE k + 1 = L /\ n = 0
    BY <2>1, <2>3, PeriodCloses
  <2> QED  BY <1>2, <2>2, <2>3
<1>4. d \in [DOMAIN r -> Int]
  <2>1. k \in 0..L
    BY <1>1, <1>2
  <2> QED  BY <2>1, DeficitsInOrder DEF InOrder
<1>5. \A b \in DOMAIN r : e[b] = IF b = Served(r, d) THEN d[b] + r[b] - L ELSE d[b] + r[b]
  BY <1>4, DebitedFacts
<1>6. ASSUME NEW b \in DOMAIN r PROVE z[b] * L - (c + 1) * r[b] = -Deficits(r)[n][b]
  <2> DEFINE x == s[b]
             y == z[b]
             rb == r[b]
             db == d[b]
             eb == e[b]
  <2>1. x \in Nat /\ rb \in Int /\ db \in Int
    BY <1>4 DEF PositiveWeights
  <2>2. x * L - c * rb = -db
    BY DEF OnSchedule
  <2>3. Deficits(r)[n][b] = eb
    BY <1>3
  <2>4. \/ y = x + 1 /\ eb = db + rb - L
        \/ y = x /\ eb = db + rb
    BY <1>5
  <2> HIDE DEF x, y, rb, db, eb, L, n
  <2>5. CASE y = x + 1 /\ eb = db + rb - L
    <3>1. (x + 1) * L - (c + 1) * rb = (x * L - c * rb) + L - rb
      BY <1>1, <2>1
    <3> QED  BY <1>1, <2>1, <2>2, <2>3, <2>5, <3>1 DEF y, rb
  <2>6. CASE y = x /\ eb = db + rb
    <3>1. x * L - (c + 1) * rb = (x * L - c * rb) - rb
      BY <1>1, <2>1
    <3> QED  BY <1>1, <2>1, <2>2, <2>3, <2>6, <3>1 DEF y, rb
  <2> QED  BY <2>4, <2>5, <2>6
<1> QED  BY <1>6 DEF OnSchedule

(* One count of one table goes up.                                         *)
CountedAt(f, gn, rt, x, h) ==
  \A g \in Gens, i \in DOMAIN Routes :
    /\ ~(g = gn /\ i = rt) => h[g][i] = f[g][i]
    /\ g = gn /\ i = rt => h[g][i] = [f[g][i] EXCEPT ![x] = @ + 1]

LEMMA CountUp ==
  ASSUME NEW f, Shaped(f), NEW gn \in Gens, NEW rt \in DOMAIN Routes,
         NEW x \in DOMAIN Routes[rt].weights, NEW h, h = [f EXCEPT ![gn][rt][x] = @ + 1]
  PROVE  Shaped(h) /\ CountedAt(f, gn, rt, x, h)
<1> DEFINE B(i) == DOMAIN Routes[i].weights
           new == [f[gn][rt] EXCEPT ![x] = @ + 1]
<1>1. \A g \in Gens : f[g] = [i \in DOMAIN Routes |-> [b \in B(i) |-> f[g][i][b]]]
  BY DEF Shaped
<1>2. \A g \in Gens, i \in DOMAIN Routes : f[g][i] = [b \in B(i) |-> f[g][i][b]]
  BY <1>1
<1>3. DOMAIN f = Gens /\ \A g \in Gens : DOMAIN f[g] = DOMAIN Routes
  BY <1>1 DEF Shaped
<1>4. f = [g \in Gens |-> f[g]] /\ \A g \in Gens : f[g] = [i \in DOMAIN Routes |-> f[g][i]]
  <2>1. f = [g \in Gens |-> f[g]]
    BY DEF Shaped
  <2> QED  BY <1>1, <2>1
<1>5. h = [g \in Gens |-> IF g = gn THEN [f[gn] EXCEPT ![rt] = new] ELSE f[g]]
  BY <1>3, <1>4
<1>6. ASSUME NEW g \in Gens, NEW i \in DOMAIN Routes
      PROVE  h[g][i] = IF g = gn /\ i = rt THEN new ELSE f[g][i]
  <2> HIDE DEF new
  <2> QED  BY <1>4, <1>5
<1>7. new = [b \in B(rt) |-> new[b]]
  BY <1>2
<1>8. \A g \in Gens, i \in DOMAIN Routes : h[g][i] = [b \in B(i) |-> h[g][i][b]]
  <2> HIDE DEF new
  <2>1. ASSUME NEW g \in Gens, NEW i \in DOMAIN Routes
        PROVE  h[g][i] = [b \in B(i) |-> h[g][i][b]]
    <3>1. CASE g = gn /\ i = rt
      BY <1>6, <1>7, <3>1
    <3>2. CASE ~(g = gn /\ i = rt)
      BY <1>2, <1>6, <3>2
    <3> QED  BY <3>1, <3>2
  <2> QED  BY <2>1
<1>9. ASSUME NEW g \in Gens PROVE h[g] = [i \in DOMAIN Routes |-> h[g][i]]
  <2> HIDE DEF new
  <2>1. CASE g = gn
    <3>1. h[g] = [f[gn] EXCEPT ![rt] = new]
      BY <1>5, <2>1
    <3> QED  BY <1>4, <3>1
  <2>2. CASE g # gn
    <3>1. h[g] = f[g]
      BY <1>5, <2>2
    <3> QED  BY <1>4, <3>1
  <2> QED  BY <2>1, <2>2
<1>10. Shaped(h)
  <2>1. \A g \in Gens : h[g] = [i \in DOMAIN Routes |-> [b \in B(i) |-> h[g][i][b]]]
    BY <1>8, <1>9
  <2>2. h = [g \in Gens |-> h[g]]
    BY <1>5
  <2> QED  BY <2>1, <2>2 DEF Shaped
<1> QED  BY <1>6, <1>10 DEF CountedAt

LEMMA ShareInvInit ==
  Init => ShareInv
<1> SUFFICES ASSUME Init PROVE ShareInv
  OBVIOUS
<1>1. served = Unserved
  BY DEF Init
<1>2. Shaped(served)
  BY <1>1 DEF Shaped, Unserved
<1>3. ASSUME NEW g \in Gens, NEW i \in DOMAIN Routes
      PROVE  SharesOf(i, cursor[g][i], served[g][i])
  <2> DEFINE w == Routes[i].weights
             r == Reduced(w)
             L == Total(r)
  <2>1. PositiveWeights(r) /\ L \in Nat \ {0} /\ DOMAIN r = Live(w)
    BY SplitFacts, TotalPositive, ReducedFacts
  <2>2. cursor[g][i] = 0 /\ \A b \in DOMAIN w : served[g][i][b] = 0
    BY <1>1 DEF Init, Fresh, Unserved
  <2>3. Deficits(r)[0] = [b \in DOMAIN r |-> 0] /\ 0 % L = 0
    BY <2>1, DeficitsRecur
  <2>4. Live(w) \subseteq DOMAIN w
    BY DEF Live
  <2>5. \A b \in DOMAIN r : r[b] \in Int
    BY <2>1 DEF PositiveWeights
  <2>6. OnSchedule(r, cursor[g][i], served[g][i])
    <3> SUFFICES ASSUME NEW b \in DOMAIN r
                 PROVE  served[g][i][b] * L - cursor[g][i] * r[b] = -Deficits(r)[cursor[g][i] % L][b]
      BY DEF OnSchedule
    <3>1. served[g][i][b] = 0 /\ r[b] \in Int
      BY <2>1, <2>2, <2>4, <2>5
    <3>2. 0 * L - 0 * r[b] = 0
      BY <2>1, <3>1
    <3>3. Deficits(r)[0 % L][b] = 0
      BY <2>3
    <3> HIDE DEF r, L
    <3> QED  BY <2>2, <3>1, <3>2, <3>3
  <2> QED  BY <2>2, <2>6 DEF SharesOf
<1> QED  BY <1>2, <1>3 DEF ShareInv, AllShares

(* A pick moves one cursor and counts for the backend the cursor was at.   *)
PickedAt(cur, f, gn, rt, nxt, h) ==
  /\ nxt = [cur EXCEPT ![gn][rt] = @ + 1]
  /\ h = [f EXCEPT ![gn][rt][Split[rt][(cur[gn][rt] % Len(Split[rt])) + 1]] = @ + 1]

LEMMA CountedPick ==
  ASSUME NEW f, NEW cur, Shaped(f), AllShares(cur, f), cur \in [Gens -> [DOMAIN Routes -> Nat]],
         NEW gn \in Gens, NEW rt \in DOMAIN Routes, NEW nxt, NEW h,
         PickedAt(cur, f, gn, rt, nxt, h)
  PROVE  Shaped(h) /\ AllShares(nxt, h)
<1>0. PICK first : first = Split[rt][(cur[gn][rt] % Len(Split[rt])) + 1]
  OBVIOUS
<1> DEFINE c == cur[gn][rt]
           wt == Routes[rt].weights
           r == Reduced(wt)
           L == Total(r)
           k == c % L
<1>1. PositiveWeights(r) /\ DOMAIN r = Live(wt) /\ Live(wt) \subseteq DOMAIN wt
  BY SplitFacts, ReducedFacts DEF Live
<1>2. c \in Nat /\ L \in Nat \ {0}
  BY <1>1, TotalPositive
<1>3. first = Served(r, Deficits(r)[k]) /\ first \in Live(wt)
  <2>1. Len(Split[rt]) = L
    BY SplitFacts
  <2>2. k + 1 \in 1..L /\ (k + 1) - 1 = k
    <3> HIDE DEF c, L
    <3> QED  BY <1>2
  <2>3. /\ Split[rt][k + 1] = Served(r, Deficits(r)[(k + 1) - 1])
        /\ Split[rt][k + 1] \in Live(wt)
    BY <2>2, SplitFacts
  <2>4. first = Split[rt][k + 1]
    BY <1>0, <2>1
  <2> HIDE DEF k
  <2> QED  BY <2>2, <2>3, <2>4
<1>4. first \in DOMAIN wt
  BY <1>1, <1>3
<1>5. Shaped(h) /\ CountedAt(f, gn, rt, first, h)
  <2>1. h = [f EXCEPT ![gn][rt][first] = @ + 1]
    BY <1>0, Zenon DEF PickedAt
  <2> QED  BY <1>4, <2>1, CountUp, Zenon
<1>6. ASSUME NEW g \in Gens, NEW i \in DOMAIN Routes
      PROVE  SharesOf(i, nxt[g][i], h[g][i])
  <2>0. nxt = [cur EXCEPT ![gn][rt] = @ + 1]
    BY DEF PickedAt
  <2>1. SharesOf(i, cur[g][i], f[g][i])
    BY DEF AllShares
  <2>2. CASE ~(g = gn /\ i = rt)
    <3>1. h[g][i] = f[g][i]
      BY <1>5, <2>2, Zenon DEF CountedAt
    <3>2. nxt[g][i] = cur[g][i]
      BY <2>0, <2>2
    <3> QED  BY <2>1, <3>1, <3>2
  <2>3. CASE g = gn /\ i = rt
    <3> DEFINE s == f[gn][rt]
               z == h[gn][rt]
    <3>1. z = [s EXCEPT ![first] = @ + 1] /\ s = [b \in DOMAIN wt |-> s[b]]
      <4>1. z = [s EXCEPT ![first] = @ + 1]
        BY <1>5, Zenon DEF CountedAt
      <4>2. f[gn] = [j \in DOMAIN Routes |-> [b \in DOMAIN Routes[j].weights |-> f[gn][j][b]]]
        BY DEF Shaped
      <4>3. f[gn][rt] = [b \in DOMAIN Routes[rt].weights |-> f[gn][rt][b]]
        BY <4>2
      <4> QED  BY <4>1, <4>3, Zenon
    <3>2. nxt[gn][rt] = c + 1
      BY <2>0
    <3>3. SharesOf(rt, c, s)
      BY <2>1, <2>3
    <3>4. /\ \A b \in DOMAIN wt : s[b] \in Nat
          /\ OnSchedule(r, c, s)
          /\ \A b \in DOMAIN wt \ Live(wt) : s[b] = 0
      BY <3>3 DEF SharesOf
    <3> HIDE DEF s, z, wt, r, c, L
    <3>5. \A b \in DOMAIN wt : z[b] = IF b = first THEN s[b] + 1 ELSE s[b]
      BY <3>1
    <3>6. \A b \in DOMAIN r : s[b] \in Nat
      BY <1>1, <3>4
    <3>7. \A b \in DOMAIN r : z[b] = IF b = Served(r, Deficits(r)[c % Total(r)])
                                     THEN s[b] + 1 ELSE s[b]
      BY <1>1, <1>3, <3>5 DEF L
    <3>8. OnSchedule(r, c + 1, z)
      BY <1>1, <1>2, <3>4, <3>6, <3>7, ScheduleStep
    <3>9. \A b \in DOMAIN wt \ Live(wt) : z[b] = 0
      <4>1. first \in Live(wt)
        BY <1>3
      <4> QED  BY <3>4, <3>5, <4>1
    <3>10. \A b \in DOMAIN wt : z[b] \in Nat
      <4>1. ASSUME NEW b \in DOMAIN wt PROVE z[b] \in Nat
        <5>1. s[b] \in Nat /\ (z[b] = s[b] + 1 \/ z[b] = s[b])
          BY <3>4, <3>5
        <5> QED  BY <5>1
      <4> QED  BY <4>1
    <3>11. SharesOf(rt, c + 1, z)
      BY <3>8, <3>9, <3>10 DEF SharesOf, wt, r
    <3> QED  BY <2>3, <3>2, <3>11 DEF z
  <2> QED  BY <2>2, <2>3
<1> QED  BY <1>5, <1>6, Zenon DEF AllShares

LEMMA ClaimShares ==
  ASSUME ShareInv, CursorInv, RequestInv, NEW w \in Workers, Claim(w)
  PROVE  ShareInv'
<1> DEFINE g == req[w].gen
           i == req[w].route
           c == cursor[g][i]
           first == Split[i][(c % Len(Split[i])) + 1]
<1>1. req[w].stage = "claim" /\ flipped' = flipped
  BY Zenon DEF Claim
<1>2. g \in Gens /\ i \in DOMAIN Routes
  BY <1>1 DEF RequestInv, RequestOK, Claiming
<1>4. CASE /\ cursor' = [cursor EXCEPT ![g][i] = @ + 1]
           /\ flipped /\ served' = served
  BY <1>1, <1>4 DEF ShareInv
<1>5. CASE /\ cursor' = [cursor EXCEPT ![g][i] = @ + 1]
           /\ ~flipped /\ served' = [served EXCEPT ![g][i][first] = @ + 1]
  <2>1. PICK f, cur, gn, rt, nxt, h :
          /\ f = served /\ cur = cursor /\ gn = g /\ rt = i /\ nxt = cursor' /\ h = served'
    OBVIOUS
  <2>2. Shaped(f) /\ AllShares(cur, f)
    BY <1>5, <2>1, Zenon DEF ShareInv
  <2>3. cur \in [Gens -> [DOMAIN Routes -> Nat]] /\ gn \in Gens /\ rt \in DOMAIN Routes
    BY <1>2, <2>1, Zenon DEF CursorInv
  <2>4. PickedAt(cur, f, gn, rt, nxt, h)
    BY <1>5, <2>1, Zenon DEF PickedAt
  <2>5. Shaped(h) /\ AllShares(nxt, h)
    BY <2>2, <2>3, <2>4, CountedPick, Zenon
  <2>6. Shaped(served') /\ AllShares(cursor', served')
    BY <2>1, <2>5, Zenon
  <2> QED  BY <2>6, Zenon DEF ShareInv, AllShares, Shaped
<1> QED  BY <1>4, <1>5, Zenon DEF Claim

LEMMA ShareInvNext ==
  ShareInv /\ CursorInv /\ RequestInv /\ [Next]_vars => ShareInv'
<1> SUFFICES ASSUME ShareInv, CursorInv, RequestInv, [Next]_vars PROVE ShareInv'
  OBVIOUS
<1>1. CASE UNCHANGED <<cursor, served, flipped>>
  BY <1>1 DEF ShareInv, AllShares
<1>2. ASSUME NEW u \in Instances, Flip(u) PROVE ShareInv'
  BY <1>2 DEF Flip, ShareInv, Shaped, Unserved
<1>3. ASSUME NEW w \in Workers, Claim(w) PROVE ShareInv'
  BY <1>3, ClaimShares
<1>4. ASSUME NEW w \in Workers, CheckRateLimit(w) PROVE ShareInv'
  BY <1>1, <1>4, Zenon DEF CheckRateLimit
<1>5. ASSUME NEW w \in Workers, NEW q \in Requests, Arrive(w, q) PROVE ShareInv'
  BY <1>1, <1>5, Zenon DEF Arrive, history
<1>6. ASSUME NEW w \in Workers, Dispatch(w) \/ Pick(w) \/ Probe(w) \/ Scan(w) \/ Finish(w)
      PROVE  ShareInv'
  BY <1>1, <1>6, Zenon DEF Dispatch, Pick, Probe, Scan, Finish, history
<1>7. CASE Reload \/ ClockStep \/ UNCHANGED vars
  BY <1>1, <1>7, Zenon DEF Reload, ClockStep, history, vars
<1> QED  BY <1>2, <1>3, <1>4, <1>5, <1>6, <1>7 DEF Next

LEMMA ScaledShare ==
  ASSUME NEW d \in Nat \ {0}, NEW L \in Nat \ {0}, NEW s \in Nat, NEW c \in Nat, NEW x \in Int,
         NEW e \in Int, s * L - c * x = -e, e > -L
  PROVE  s * (d * L) - c * (d * x) < d * L /\ (e = 0 => s * (d * L) - c * (d * x) = 0)
<1>1. s * (d * L) = d * (s * L) /\ c * (d * x) = d * (c * x)
  OBVIOUS
<1> DEFINE a == s * L
           b == c * x
<1>2. a \in Int /\ b \in Int /\ a - b = -e
  OBVIOUS
<1>3. s * (d * L) - c * (d * x) = d * a - d * b
  BY <1>1
<1> HIDE DEF a, b
<1>4. d * a - d * b = d * (a - b)
  BY <1>2
<1>5. d * (-e) < d * L
  OBVIOUS
<1>6. d * (a - b) = d * (-e)
  BY <1>2
<1> QED  BY <1>2, <1>3, <1>4, <1>5, <1>6

LEMMA SharesFollow ==
  ShareInv /\ CursorInv => SharesKept
<1> SUFFICES ASSUME ShareInv, CursorInv, ~flipped, NEW g \in Gens, NEW i \in DOMAIN Routes,
                    NEW b \in DOMAIN Routes[i].weights
             PROVE  /\ Ahead(g, i, b) < Total(Routes[i].weights)
                    /\ cursor[g][i] % Len(Split[i]) = 0 => Ahead(g, i, b) = 0
  BY Zenon DEF SharesKept
<1> DEFINE w == Routes[i].weights
           r == Reduced(w)
           L == Total(r)
           d == Divisor(w)
           c == cursor[g][i]
           s == served[g][i]
<1>1. SplitWeights(w) /\ PositiveWeights(r) /\ DOMAIN r = Live(w) /\ Len(Split[i]) = L
  BY SplitFacts, ReducedFacts
<1>2. d \in Nat \ {0} /\ L \in Nat \ {0} /\ Total(w) = d * L
  BY <1>1, DivisorFacts, TotalPositive, TotalScales
<1>3. SharesOf(i, c, s) /\ c \in Nat
  BY DEF ShareInv, AllShares, CursorInv
<1>4. s[b] \in Nat /\ OnSchedule(r, c, s)
  BY <1>3 DEF SharesOf
<1>5. Ahead(g, i, b) = s[b] * (d * L) - c * w[b]
  BY <1>2 DEF Ahead
<1>6. CASE b \in Live(w)
  <2> DEFINE k == c % L
             e == Deficits(r)[k][b]
             x == r[b]
             y == s[b]
  <2>1. k \in 0..L
    <3> HIDE DEF L, c
    <3> QED  BY <1>2, <1>3
  <2>2. e \in Int /\ e > -L
    BY <1>1, <1>6, <2>1, DeficitsInOrder DEF InOrder
  <2>3. y * L - c * x = -e
    BY <1>1, <1>4, <1>6 DEF OnSchedule
  <2>4. x \in Int /\ w[b] = d * x
    BY <1>1, <1>6, ReducedFacts DEF PositiveWeights
  <2>5. k = 0 => e = 0
    <3>1. Deficits(r)[0] = [j \in DOMAIN r |-> 0]
      BY <1>1, DeficitsRecur
    <3> HIDE DEF k, r
    <3> QED  BY <1>1, <1>6, <3>1
  <2>6. y \in Nat /\ Ahead(g, i, b) = y * (d * L) - c * (d * x)
    BY <1>4, <1>5, <2>4
  <2> HIDE DEF e, x, y, d, L, c
  <2>7. /\ y * (d * L) - c * (d * x) < d * L
        /\ e = 0 => y * (d * L) - c * (d * x) = 0
    BY <1>2, <1>3, <2>2, <2>3, <2>4, <2>6, ScaledShare
  <2>8. Total(w) = d * L
    BY <1>2
  <2> QED  BY <1>1, <2>5, <2>6, <2>7, <2>8 DEF c
<1>7. CASE b \notin Live(w)
  <2>1. w[b] = 0 /\ s[b] = 0
    BY <1>1, <1>3, <1>7 DEF SharesOf, SplitWeights, Live
  <2> HIDE DEF d, L, c, s, w
  <2>2. d * L \in Nat /\ d * L > 0
    BY <1>2
  <2>3. 0 * (d * L) - c * 0 = 0
    BY <1>3, <2>2
  <2>4. Ahead(g, i, b) = 0
    BY <1>5, <2>1, <2>3
  <2> QED  BY <1>2, <2>2, <2>4 DEF w
<1> QED  BY <1>6, <1>7

LEMMA NoSpuriousFollows ==
  RequestInv => NoSpuriousUnavailable
BY DEF RequestInv, RequestOK, NoSpuriousUnavailable

(* The split keeps its shares, for any weights a manifest may give, any    *)
(* number of requests and reloads: no backend is ever a whole pick ahead,  *)
(* and every period of the table ends even.  And a request is refused only *)
(* when no upstream of its route stayed eligible while it looked           *)
(* (weighted.rs).                                                          *)
THEOREM SplitIsSound == Spec => []SplitSound
<1>1. Spec => [](RequestInv /\ CursorInv /\ ShareInv)
  BY RequestInvInit, RequestInvNext, CursorInvInit, CursorInvNext, ShareInvInit, ShareInvNext, PTL
     DEF Spec
<1>2. RequestInv /\ CursorInv /\ ShareInv => SplitSound
  BY SharesFollow, NoSpuriousFollows DEF SplitSound
<1> QED  BY <1>1, <1>2, PTL

-----------------------------------------------------------------------------
(* Paths.  What is routed holds no dot segment and nothing an origin would *)
(* decode, by resolution or because it was refused; and such a path is     *)
(* what any origin makes of it, segment by segment.                        *)

Text == STRING \cup {""}
Hard == {".", ".."} \cup DOMAIN Encoded
Stacks == {s \in Seq(Text) : \A i \in 1..Len(s) : s[i] \notin Hard}
Plain(p) == p \in Stacks /\ p # << >>

(* The first j positions, as a fold meets them.                            *)
LEMMA FirstPositions ==
  ASSUME NEW n \in Nat, NEW j \in 1..n
  PROVE  /\ 1..j \in SUBSET (1..n) /\ 1..j # {}
         /\ Max(1..j) = j /\ (1..j) \ {j} = 1..(j - 1) /\ j - 1 \in 0..n
<1>1. j \in Nat /\ 1 <= j /\ j <= n
  OBVIOUS
<1>2. j \in 1..j /\ \A i \in 1..j : i \in 1..n
  BY <1>1
<1>3. Max(1..j) = j /\ (1..j) \ {j} = 1..(j - 1)
  BY MaxOfInterval
<1>4. j - 1 \in 0..n
  BY <1>1
<1>5. 1..j \in SUBSET (1..n) /\ 1..j # {}
  BY <1>2
<1> QED  BY <1>3, <1>4, <1>5

(* A fold that only appends spells its sequence.                           *)
Appends(p, h) ==
  h = [t \in SUBSET DOMAIN p |-> IF t = {} THEN << >>
                                 ELSE Append(h[t \ {Max(t)}], p[Max(t)])]

LEMMA AppendsExists ==
  ASSUME NEW S, NEW p \in Seq(S)
  PROVE  \E h : Appends(p, h)
<1> DEFINE n == Len(p)
           D == Seq(S)
           o == [x \in D \X (1..n) |-> Append(x[1], p[x[2]])]
<1>1. n \in Nat /\ DOMAIN p = 1..n /\ \A i \in 1..n : p[i] \in S
  OBVIOUS
<1>2. << >> \in D /\ \A x \in D : \A i \in 1..n : Append(x, p[i]) \in D
  BY <1>1
<1> HIDE DEF n, D
<1>3. o \in [D \X (1..n) -> D] /\ \A x \in D : \A i \in 1..n : o[<<x, i>>] = Append(x, p[i])
  BY <1>2
<1> HIDE DEF o
<1>4. PICK k \in [SUBSET (1..n) -> D] : Folds(n, << >>, o, k)
  BY <1>1, <1>2, <1>3, FoldExists
<1>5. ASSUME NEW t \in SUBSET (1..n)
      PROVE  k[t] = IF t = {} THEN << >> ELSE Append(k[t \ {Max(t)}], p[Max(t)])
  <2>1. k[t] = IF t = {} THEN << >> ELSE o[<<k[t \ {Max(t)}], Max(t)>>]
    BY <1>4 DEF Folds
  <2>2. CASE t = {}
    BY <2>1, <2>2
  <2>3. CASE t # {}
    <3>1. Max(t) \in 1..n /\ t \ {Max(t)} \in SUBSET (1..n)
      BY <1>1, <2>3, MaxIsIn
    <3>2. k[t \ {Max(t)}] \in D
      BY <1>4, <3>1
    <3> QED  BY <1>3, <2>1, <2>3, <3>1, <3>2
  <2> QED  BY <2>2, <2>3
<1>6. k = [t \in SUBSET DOMAIN p |-> IF t = {} THEN << >>
                                    ELSE Append(k[t \ {Max(t)}], p[Max(t)])]
  BY <1>1, <1>4, <1>5
<1> QED  BY <1>6 DEF Appends

LEMMA AppendsSpell ==
  ASSUME NEW S, NEW p \in Seq(S), NEW h, Appends(p, h)
  PROVE  h[DOMAIN p] = p
<1> DEFINE n == Len(p)
           Spells(j) == /\ h[1..j] \in Seq(S) /\ Len(h[1..j]) = j
                        /\ \A i \in 1..j : h[1..j][i] = p[i]
           N == {j \in Nat : j <= n => Spells(j)}
<1>1. n \in Nat /\ DOMAIN p = 1..n /\ \A i \in 1..n : p[i] \in S
  OBVIOUS
<1> HIDE DEF n
<1>2. \A t \in SUBSET (1..n) :
        h[t] = IF t = {} THEN << >> ELSE Append(h[t \ {Max(t)}], p[Max(t)])
  BY <1>1 DEF Appends
<1>3. 0 \in N
  <2>1. 1..0 = {}
    OBVIOUS
  <2>2. h[1..0] = << >>
    BY <1>2, <2>1
  <2>3. << >> \in Seq(S) /\ Len(<< >>) = 0
    OBVIOUS
  <2> QED  BY <2>1, <2>2, <2>3
<1>4. ASSUME NEW j \in Nat, j \in N PROVE j + 1 \in N
  <2> SUFFICES ASSUME j + 1 <= n PROVE Spells(j + 1)
    OBVIOUS
  <2> DEFINE m == j + 1
  <2>1. m \in 1..n /\ m - 1 = j /\ j <= n
    BY <1>1
  <2>2. Spells(j)
    BY <1>4, <2>1
  <2> HIDE DEF m
  <2>3. h[1..m] = Append(h[1..j], p[m])
    <3>1. /\ 1..m \in SUBSET (1..n) /\ 1..m # {}
          /\ Max(1..m) = m /\ (1..m) \ {m} = 1..j
      BY <1>1, <2>1, FirstPositions
    <3>2. h[1..m] = Append(h[(1..m) \ {Max(1..m)}], p[Max(1..m)])
      BY <1>2, <3>1
    <3> QED  BY <3>1, <3>2
  <2> DEFINE s == h[1..j]
             e == p[m]
  <2>4. s \in Seq(S) /\ e \in S /\ Len(s) = j /\ \A i \in 1..j : s[i] = p[i]
    BY <1>1, <2>1, <2>2
  <2> HIDE DEF s, e, Spells
  <2>5. /\ Append(s, e) \in Seq(S) /\ Len(Append(s, e)) = j + 1
        /\ \A i \in 1..j : Append(s, e)[i] = s[i]
        /\ Append(s, e)[j + 1] = e
    <3>1. /\ Append(s, e) \in Seq(S) /\ Len(Append(s, e)) = Len(s) + 1
          /\ \A i \in 1..Len(s) : Append(s, e)[i] = s[i]
          /\ Append(s, e)[Len(s) + 1] = e
      BY <2>4, AppendProperties
    <3> QED  BY <2>4, <3>1
  <2>6. ASSUME NEW i \in 1..(j + 1) PROVE Append(s, e)[i] = p[i]
    <3>1. i \in 1..j \/ i = j + 1
      OBVIOUS
    <3> QED  BY <2>4, <2>5, <3>1 DEF e, m
  <2>7. h[1..(j + 1)] = Append(s, e)
    BY <2>3 DEF s, e, m
  <2> QED  BY <2>5, <2>6, <2>7 DEF Spells
<1>5. n \in N
  <2> HIDE DEF N
  <2> QED  BY <1>1, <1>3, <1>4, InductionSet
<1>6. Spells(n)
  BY <1>1, <1>5
<1> DEFINE s == h[1..n]
<1>7. s \in Seq(S) /\ Len(s) = Len(p) /\ \A i \in 1..Len(p) : s[i] = p[i]
  BY <1>6 DEF n
<1> HIDE DEF s
<1>8. s = p
  BY <1>7, SeqEqual
<1> QED  BY <1>1, <1>8 DEF s

(* A plain path is decoded to itself and no segment of it is removed.      *)
LEMMA PlainIsKept ==
  ASSUME NEW p, Plain(p)
  PROVE  OriginPath(p) = p
<1> DEFINE D(h) == h = [t \in SUBSET DOMAIN p |-> IF t = {} THEN << >>
                                     ELSE Decode(h[t \ {Max(t)}], p[Max(t)])]
           R(h) == h = [t \in SUBSET DOMAIN p |-> IF t = {} THEN << >>
                                     ELSE RemoveDots(h[t \ {Max(t)}], p[Max(t)])]
<1>1. p \in Seq(Text) /\ p # << >> /\ DOMAIN p = 1..Len(p) /\ Len(p) \in Nat
  BY DEF Plain, Stacks
<1>2. \A i \in DOMAIN p : p[i] # "." /\ p[i] # ".." /\ p[i] \notin DOMAIN Encoded
  BY <1>1 DEF Plain, Stacks, Hard
<1>3. \A y, i : i \in DOMAIN p => Decode(y, p[i]) = Append(y, p[i])
                                  /\ RemoveDots(y, p[i]) = Append(y, p[i])
  BY <1>2, Zenon DEF Decode, RemoveDots
<1>4. \A t \in SUBSET DOMAIN p : t # {} => Max(t) \in DOMAIN p
  BY <1>1, MaxIsIn
<1>5. ASSUME NEW h PROVE (D(h) <=> Appends(p, h)) /\ (R(h) <=> Appends(p, h))
  <2>1. \A t \in SUBSET DOMAIN p :
          /\ (IF t = {} THEN << >> ELSE Decode(h[t \ {Max(t)}], p[Max(t)]))
               = (IF t = {} THEN << >> ELSE Append(h[t \ {Max(t)}], p[Max(t)]))
          /\ (IF t = {} THEN << >> ELSE RemoveDots(h[t \ {Max(t)}], p[Max(t)]))
               = (IF t = {} THEN << >> ELSE Append(h[t \ {Max(t)}], p[Max(t)]))
    BY <1>3, <1>4
  <2> QED  BY <2>1 DEF Appends
<1>6. FoldLeft(Decode, << >>, p) = (CHOOSE h : D(h))[DOMAIN p]
  BY Zenon DEF FoldLeft, MapThenFoldSet
<1>7. FoldLeft(RemoveDots, << >>, p) = (CHOOSE h : R(h))[DOMAIN p]
  BY Zenon DEF FoldLeft, MapThenFoldSet
<1>8. D(CHOOSE h : D(h)) /\ R(CHOOSE h : R(h))
  <2> HIDE DEF D, R
  <2>1. (\E h : D(h)) /\ \E h : R(h)
    BY <1>1, <1>5, AppendsExists
  <2> QED  BY <2>1
<1> HIDE DEF D, R
<1>9. FoldLeft(Decode, << >>, p) = p /\ FoldLeft(RemoveDots, << >>, p) = p
  BY <1>1, <1>5, <1>6, <1>7, <1>8, AppendsSpell
<1> QED  BY <1>1, <1>9, Zenon DEF OriginPath

LEMMA StackFacts ==
  ASSUME NEW s \in Stacks
  PROVE  /\ s \in Seq(Text) /\ Len(s) \in Nat /\ DOMAIN s = 1..Len(s)
         /\ s # Escapes
         /\ \A e \in Text : e \notin Hard => Append(s, e) \in Stacks
         /\ \A a, b \in Int : 1 <= a /\ b <= Len(s) => SubSeq(s, a, b) \in Stacks
<1>1. s \in Seq(Text) /\ Len(s) \in Nat /\ DOMAIN s = 1..Len(s)
      /\ \A i \in 1..Len(s) : s[i] \in Text /\ s[i] \notin Hard
  BY DEF Stacks
<1>2. s # Escapes
  <2> SUFFICES ASSUME s = Escapes PROVE FALSE
    OBVIOUS
  <2>1. Len(s) = 1 /\ s[1] = ".."
    BY DEF Escapes
  <2> QED  BY <1>1, <2>1 DEF Hard
<1>3. ASSUME NEW e \in Text, e \notin Hard PROVE Append(s, e) \in Stacks
  <2>1. /\ Append(s, e) \in Seq(Text) /\ Len(Append(s, e)) = Len(s) + 1
        /\ \A i \in 1..Len(s) : Append(s, e)[i] = s[i]
        /\ Append(s, e)[Len(s) + 1] = e
    BY <1>1, AppendProperties
  <2>2. ASSUME NEW i \in 1..Len(Append(s, e)) PROVE Append(s, e)[i] \notin Hard
    <3>1. i \in 1..Len(s) \/ i = Len(s) + 1
      BY <1>1, <2>1
    <3> QED  BY <1>1, <1>3, <2>1, <3>1
  <2> QED  BY <2>1, <2>2 DEF Stacks
<1>4. ASSUME NEW a \in Int, NEW b \in Int, 1 <= a, b <= Len(s)
      PROVE  SubSeq(s, a, b) \in Stacks
  <2>1. \A i \in a..b : i \in 1..Len(s) /\ s[i] \in Text /\ s[i] \notin Hard
    BY <1>1, <1>4
  <2> DEFINE u == SubSeq(s, a, b)
  <2>2. /\ u \in Seq(Text) /\ Len(u) = IF a <= b THEN b - a + 1 ELSE 0
        /\ \A i \in 1..(b - a + 1) : u[i] = s[a + i - 1]
    BY <2>1, SubSeqProperties
  <2> HIDE DEF u
  <2>3. ASSUME NEW i \in 1..Len(u) PROVE u[i] \notin Hard
    <3>1. i \in 1..(b - a + 1) /\ a + i - 1 \in a..b
      BY <1>4, <2>2
    <3> QED  BY <2>1, <2>2, <3>1
  <2>4. u \in Stacks
    BY <2>2, <2>3 DEF Stacks
  <2> QED  BY <2>4 DEF u
<1> QED  BY <1>1, <1>2, <1>3, <1>4

LEMMA EmptyStack == << >> \in Stacks /\ Plain(Root)
<1>1. << >> \in Stacks
  BY DEF Stacks
<1>0. PICK e : e = ""
  BY Zenon
<1>2. e \notin Hard /\ e \in Text
  <2>1. "" # "." /\ "" # ".." /\ "" \notin DOMAIN Encoded
    BY PathAssumption, Zenon
  <2> QED  BY <1>0, <2>1, Zenon DEF Hard, Text
<1>3. Root = <<e>>
  BY <1>0, Zenon DEF Root
<1>4. Root \in Stacks
  <2>1. <<e>> \in Seq(Text) /\ Len(<<e>>) = 1 /\ <<e>>[1] = e
    BY <1>2
  <2> QED  BY <1>2, <1>3, <2>1 DEF Stacks
<1>5. Root # << >>
  BY DEF Root
<1> QED  BY <1>1, <1>4, <1>5 DEF Plain

Popped == Stacks \cup {Escapes}

LEMMA PopTypes ==
  ASSUME NEW x \in Popped, NEW e \in Text, e \notin DOMAIN Encoded
  PROVE  Pop(x, e) \in Popped
<1>1. CASE x = Escapes \/ (e = ".." /\ x = << >>)
  BY <1>1 DEF Pop, Popped
<1>2. CASE ~(x = Escapes \/ (e = ".." /\ x = << >>))
  <2>1. x \in Stacks
    BY <1>2 DEF Popped
  <2>2. CASE e = "."
    BY <1>2, <2>2 DEF Pop, Popped
  <2>3. CASE e = ".."
    <3>1. Pop(x, e) = SubSeq(x, 1, Len(x) - 1)
      BY <1>2, <2>3, Zenon DEF Pop, Front
    <3>2. Len(x) \in Nat /\ Len(x) - 1 \in Int /\ Len(x) - 1 <= Len(x)
      BY <2>1, StackFacts
    <3>3. SubSeq(x, 1, Len(x) - 1) \in Stacks
      BY <2>1, <3>2, StackFacts
    <3> QED  BY <3>1, <3>3 DEF Popped
  <2>4. CASE e # "." /\ e # ".."
    <3>1. Pop(x, e) = Append(x, e)
      BY <1>2, <2>4, Zenon DEF Pop
    <3>2. e \notin Hard
      BY <2>4 DEF Hard
    <3> QED  BY <2>1, <3>1, <3>2, StackFacts DEF Popped
  <2> QED  BY <2>2, <2>3, <2>4
<1> QED  BY <1>1, <1>2

(* Resolution leaves nothing to resolve, or nothing at all.                *)
LEMMA ResolveIsPlain ==
  ASSUME NEW p \in Seq(Text), \A i \in DOMAIN p : p[i] \notin DOMAIN Encoded
  PROVE  Resolve(p) = Escapes \/ Plain(Resolve(p))
<1> DEFINE n == Len(p)
           D == Popped
           o == [x \in D \X (1..n) |-> Pop(x[1], p[x[2]])]
           Solves(h) == h = [t \in SUBSET DOMAIN p |-> IF t = {} THEN << >>
                                     ELSE Pop(h[t \ {Max(t)}], p[Max(t)])]
<1>1. n \in Nat /\ DOMAIN p = 1..n
      /\ \A i \in 1..n : p[i] \in Text /\ p[i] \notin DOMAIN Encoded
  OBVIOUS
<1>2. << >> \in D /\ \A x \in D : \A i \in 1..n : Pop(x, p[i]) \in D
  BY <1>1, EmptyStack, PopTypes DEF Popped
<1>3. FoldLeft(Pop, << >>, p) = (CHOOSE h : Solves(h))[DOMAIN p]
  BY Zenon DEF FoldLeft, MapThenFoldSet
<1> HIDE DEF n, D
<1>4. o \in [D \X (1..n) -> D] /\ \A x \in D : \A i \in 1..n : o[<<x, i>>] = Pop(x, p[i])
  BY <1>2
<1> HIDE DEF o
<1>5. PICK k \in [SUBSET (1..n) -> D] : Folds(n, << >>, o, k)
  BY <1>1, <1>2, <1>4, FoldExists
<1>6. ASSUME NEW t \in SUBSET (1..n)
      PROVE  k[t] = IF t = {} THEN << >> ELSE Pop(k[t \ {Max(t)}], p[Max(t)])
  <2>1. k[t] = IF t = {} THEN << >> ELSE o[<<k[t \ {Max(t)}], Max(t)>>]
    BY <1>5 DEF Folds
  <2>2. CASE t = {}
    BY <2>1, <2>2
  <2>3. CASE t # {}
    <3>1. Max(t) \in 1..n /\ t \ {Max(t)} \in SUBSET (1..n)
      BY <1>1, <2>3, MaxIsIn
    <3>2. k[t \ {Max(t)}] \in D
      BY <1>5, <3>1
    <3> QED  BY <1>4, <2>1, <2>3, <3>1, <3>2
  <2> QED  BY <2>2, <2>3
<1>7. Solves(k)
  BY <1>1, <1>5, <1>6
<1> DEFINE h == CHOOSE x : Solves(x)
<1>8. Solves(h)
  BY <1>7
<1> HIDE DEF h
<1>9. \A t \in SUBSET (1..n) :
        h[t] = IF t = {} THEN << >> ELSE Pop(h[t \ {Max(t)}], p[Max(t)])
  BY <1>1, <1>8
<1> HIDE DEF Solves
<1> DEFINE N == {j \in Nat : j <= n => h[1..j] \in D}
<1>10. 0 \in N
  <2>1. 1..0 = {}
    OBVIOUS
  <2>2. h[1..0] = << >>
    BY <1>9, <2>1
  <2> QED  BY <1>2, <2>2
<1>11. ASSUME NEW j \in Nat, j \in N PROVE j + 1 \in N
  <2> SUFFICES ASSUME j + 1 <= n PROVE h[1..(j + 1)] \in D
    OBVIOUS
  <2> DEFINE m == j + 1
  <2>1. m \in 1..n /\ m - 1 = j /\ j <= n
    BY <1>1
  <2>2. h[1..j] \in D
    BY <1>11, <2>1
  <2> HIDE DEF m
  <2>3. /\ 1..m \in SUBSET (1..n) /\ 1..m # {}
        /\ Max(1..m) = m /\ (1..m) \ {m} = 1..j
    BY <1>1, <2>1, FirstPositions
  <2>4. h[1..m] = Pop(h[(1..m) \ {Max(1..m)}], p[Max(1..m)])
    BY <1>9, <2>3
  <2>5. h[1..m] = Pop(h[1..j], p[m])
    BY <2>3, <2>4
  <2>6. h[1..m] \in D
    <3> DEFINE y == h[1..j]
    <3>1. y \in D /\ h[1..m] = Pop(y, p[m])
      BY <2>2, <2>5
    <3> HIDE DEF y
    <3> QED  BY <1>2, <2>1, <3>1
  <2> QED  BY <2>6 DEF m
<1>12. n \in N
  <2> HIDE DEF N
  <2> QED  BY <1>1, <1>10, <1>11, InductionSet
<1> DEFINE out == FoldLeft(Pop, << >>, p)
<1>13. out \in D
  <2>1. h[1..n] \in D
    BY <1>1, <1>12
  <2> QED  BY <1>1, <1>3, <2>1 DEF h
<1>14. Resolve(p) = IF out = << >> THEN Root ELSE out
  BY Zenon DEF Resolve
<1> HIDE DEF out
<1> QED  BY <1>13, <1>14, EmptyStack DEF D, Popped, Plain

Fields(q) ==
  q = [authority |-> q.authority, form |-> q.form, path |-> q.path, method |-> q.method,
       headers |-> q.headers, query |-> q.query, peer |-> q.peer]

(* What normalize_path lets through is plain, where it is an origin form.  *)
LEMMA NormalIsPlain ==
  ASSUME NEW q \in Requests, NormalizePath(q) # NoRoute
  PROVE  LET clean == NormalizePath(q)
         IN  Fields(clean) /\ (clean.form = "origin" => Plain(clean.path))
<1> DEFINE p == q.path
           segs == {p[i] : i \in DOMAIN p}
           path == IF segs \cap {".", ".."} = {} THEN p ELSE Resolve(p)
<1>1. Fields(q) /\ p \in Seq(Text) /\ p # << >> /\ DOMAIN p = 1..Len(p) /\ Len(p) \in Nat
  <2>1. Fields(q) /\ p \in Seq(STRING) /\ p # << >>
    BY PathAssumption, Zenon DEF Fields
  <2>2. STRING \subseteq Text
    BY Zenon DEF Text
  <2>3. p \in Seq(Text)
    BY <2>1, <2>2, SeqMonotonic
  <2> QED  BY <2>1, <2>3
<1>2. NormalizePath(q) = IF q.form # "origin" THEN q
        ELSE IF segs \cap (Unclean \cup DOMAIN Encoded) # {} \/ path = Escapes THEN NoRoute
        ELSE [q EXCEPT !.path = path]
  BY Zenon DEF NormalizePath
<1>3. CASE q.form # "origin"
  BY <1>1, <1>2, <1>3
<1>4. CASE q.form = "origin"
  <2>1. segs \cap (Unclean \cup DOMAIN Encoded) = {} /\ path # Escapes
    BY <1>2, <1>4
  <2>2. \A i \in DOMAIN p : p[i] \notin DOMAIN Encoded
    BY <2>1
  <2>3. Plain(path)
    <3>1. CASE segs \cap {".", ".."} = {}
      <4>1. \A i \in 1..Len(p) : p[i] # "." /\ p[i] # ".." /\ p[i] \notin DOMAIN Encoded
        BY <1>1, <2>2, <3>1
      <4>2. \A i \in 1..Len(p) : p[i] \notin Hard
        BY <4>1 DEF Hard
      <4> QED  BY <1>1, <3>1, <4>2 DEF Plain, Stacks
    <3>2. CASE segs \cap {".", ".."} # {}
      BY <1>1, <2>1, <2>2, <3>2, ResolveIsPlain
    <3> QED  BY <3>1, <3>2
  <2>4. NormalizePath(q) = [q EXCEPT !.path = path]
    BY <1>2, <1>4, <2>1
  <2> HIDE DEF path
  <2>5. PICK c : c = [q EXCEPT !.path = path]
    BY Zenon
  <2>6. Fields(c) /\ c.path = path
    BY <1>1, <2>5 DEF Fields
  <2> QED  BY <2>3, <2>4, <2>5, <2>6
<1> QED  BY <1>3, <1>4

(* Stripping a prefix leaves a plain path plain, and never empty.          *)
LEMMA RewriteIsPlain ==
  ASSUME NEW p, Plain(p), NEW query, NEW strip,
         strip = Wild \/ strip \in Seq(STRING) \ {<< >>}
  PROVE  Plain(RewritePath(p, query, strip))
<1> DEFINE kept == IF Last(strip) = "" THEN Front(strip) ELSE strip
           rest == SubSeq(p, Len(kept) + 1, Len(p))
<1>1. RewritePath(p, query, strip) =
        IF strip = Wild \/ ~PathUnderPrefix(strip, p) THEN p
        ELSE IF rest = << >> THEN (IF query = << >> THEN Root ELSE p)
        ELSE IF Last(strip) = "" /\ Len(rest) > 1 /\ rest[1] = "" THEN Tail(rest)
        ELSE rest
  BY Zenon DEF RewritePath
<1>2. CASE strip = Wild
  BY <1>1, <1>2
<1>3. CASE strip # Wild
  <2>1. strip \in Seq(STRING) /\ strip # << >> /\ Len(strip) \in Nat \ {0}
    BY <1>3
  <2>2. Len(kept) \in Nat
    <3>1. Front(strip) = SubSeq(strip, 1, Len(strip) - 1)
      BY Zenon DEF Front
    <3>2. Len(Front(strip)) \in Nat
      BY <2>1, <3>1
    <3> QED  BY <2>1, <3>2, Zenon
  <2> HIDE DEF kept
  <2>3. p \in Stacks /\ Len(p) \in Nat
    BY StackFacts DEF Plain
  <2>4. rest \in Stacks
    <3>1. Len(kept) + 1 \in Int /\ 1 <= Len(kept) + 1 /\ Len(p) <= Len(p) /\ Len(p) \in Int
      BY <2>2, <2>3
    <3> QED  BY <2>3, <3>1, StackFacts
  <2> HIDE DEF rest
  <2>5. CASE rest # << >> /\ Len(rest) > 1
    <3>1. rest \in Seq(Text) /\ Len(rest) \in Nat
      BY <2>4, StackFacts
    <3>2. Tail(rest) = SubSeq(rest, 2, Len(rest)) /\ Len(Tail(rest)) = Len(rest) - 1
      BY <2>5, <3>1, TailIsSubSeq, HeadTailProperties
    <3>3. SubSeq(rest, 2, Len(rest)) \in Stacks
      BY <2>4, <3>1, StackFacts
    <3>4. Tail(rest) # << >>
      <4> DEFINE l == Len(rest)
                 t == Tail(rest)
      <4>1. l \in Nat /\ l > 1 /\ Len(t) = l - 1
        BY <2>5, <3>1, <3>2
      <4> HIDE DEF l, t
      <4>2. Len(t) # 0
        BY <4>1
      <4>3. Len(<< >>) = 0
        OBVIOUS
      <4>4. t # << >>
        BY <4>2, <4>3, Zenon
      <4> QED  BY <4>4 DEF t
    <3>5. Plain(Tail(rest)) /\ Plain(rest)
      BY <2>4, <2>5, <3>2, <3>3, <3>4 DEF Plain
    <3> QED  BY <1>1, <2>5, <3>5, Zenon
  <2>6. CASE rest # << >> /\ ~(Len(rest) > 1)
    <3>1. Plain(rest)
      BY <2>4, <2>6 DEF Plain
    <3> QED  BY <1>1, <2>6, <3>1, Zenon
  <2>7. CASE rest = << >>
    BY <1>1, <2>7, EmptyStack, Zenon
  <2> QED  BY <2>5, <2>6, <2>7
<1> QED  BY <1>2, <1>3

(* A routed request keeps the target it was routed by.                     *)
RoutedOK(r) ==
  r.stage = "routed" =>
    /\ Fields(r.asked) /\ Plain(r.asked.path)
    /\ r.route \in DOMAIN Routes /\ r.route = Select(Routes, r.asked)

RoutedInv ==
  /\ req = [w \in Workers |-> req[w]]
  /\ \A w \in Workers : RoutedOK(req[w])

LEMMA OneRouted ==
  ASSUME RoutedInv, NEW w, NEW r, req' = [req EXCEPT ![w] = r], RoutedOK(r)
  PROVE  RoutedInv'
<1>1. ASSUME NEW v \in Workers PROVE RoutedOK(req'[v])
  <2>1. req'[v] = r \/ req'[v] = req[v]
    BY DEF RoutedInv
  <2> QED  BY <2>1 DEF RoutedInv
<1>2. req' = [v \in Workers |-> req'[v]]
  BY DEF RoutedInv
<1> QED  BY <1>1, <1>2 DEF RoutedInv

LEMMA RoutedInvNext ==
  RoutedInv /\ [Next]_vars => RoutedInv'
<1> SUFFICES ASSUME RoutedInv, [Next]_vars PROVE RoutedInv'
  OBVIOUS
<1>1. ASSUME NEW w \in Workers, NEW q \in Requests, Arrive(w, q) PROVE RoutedInv'
  <2> DEFINE clean == NormalizePath(q)
             route == IF clean = NoRoute THEN NoRoute ELSE Select(Routes, clean)
             new == IF route = NoRoute THEN Idle
                    ELSE [stage |-> "routed", gen |-> gen, route |-> route, asked |-> clean]
  <2>1. req' = [req EXCEPT ![w] = new]
    BY <1>1 DEF Arrive
  <2>2. route # NoRoute =>
          /\ clean # NoRoute /\ route = Select(Routes, clean)
          /\ route \in DOMAIN Routes /\ RouteMatches(Routes[route], clean)
    BY SelectFits
  <2>3. route # NoRoute => Fields(clean) /\ Plain(clean.path)
    <3> SUFFICES ASSUME route # NoRoute PROVE Fields(clean) /\ Plain(clean.path)
      OBVIOUS
    <3>1. clean.form = "origin"
      BY <2>2, Zenon DEF RouteMatches
    <3> QED  BY <2>2, <3>1, NormalIsPlain
  <2> HIDE DEF clean, route
  <2>4. PICK r : r = new
    OBVIOUS
  <2>5. RoutedOK(r)
    <3>1. CASE route = NoRoute
      BY <2>4, <3>1 DEF RoutedOK, Idle
    <3>2. CASE route # NoRoute
      <4>1. r.stage = "routed" /\ r.route = route /\ r.asked = clean
        BY <2>4, <3>2
      <4> QED  BY <2>2, <2>3, <3>2, <4>1 DEF RoutedOK
    <3> QED  BY <3>1, <3>2
  <2> QED  BY <2>1, <2>4, <2>5, OneRouted
<1>2. ASSUME NEW w \in Workers, NEW r, r.stage # "routed", req' = [req EXCEPT ![w] = r]
      PROVE  RoutedInv'
  BY <1>2, OneRouted DEF RoutedOK
<1>3. Idle.stage # "routed"
  BY DEF Idle
<1>4. ASSUME NEW w \in Workers, Answer(w) PROVE RoutedInv'
  BY <1>2, <1>3, <1>4 DEF Answer
<1>5. ASSUME NEW w \in Workers, NEW s, s # "routed", Enter(w, s) PROVE RoutedInv'
  <2>1. PICK r : r = [stage |-> s, gen |-> req[w].gen, route |-> req[w].route]
    BY Zenon
  <2>2. r.stage # "routed"
    BY <1>5, <2>1
  <2> QED  BY <1>2, <1>5, <2>1, <2>2 DEF Enter
<1>13. ASSUME NEW w \in Workers, PassOver(w), req[w].stage # "routed" PROVE RoutedInv'
  <2>1. PICK r : r = [req[w] EXCEPT !.todo = @ \ {AtHand(w)}]
    BY Zenon
  <2>2. r.stage # "routed"
    BY <1>13, <2>1
  <2> QED  BY <1>2, <1>13, <2>1, <2>2 DEF PassOver
<1>14. ASSUME NEW w \in Workers, Unavailable(w) PROVE RoutedInv'
  <2>1. PICK r : r = [stage |-> "unavailable", route |-> req[w].route, steady |-> req[w].steady]
    BY Zenon
  <2> QED  BY <1>2, <1>14, <2>1 DEF Unavailable
<1>6. ASSUME NEW w \in Workers, CheckRateLimit(w) PROVE RoutedInv'
  <2> DEFINE next == IF Routes[req[w].route].filters THEN "chain" ELSE "pick"
  <2>1. Enter(w, next) \/ Answer(w)
    BY <1>6, Zenon DEF CheckRateLimit
  <2>2. next # "routed"
    OBVIOUS
  <2> HIDE DEF next
  <2> QED  BY <1>4, <1>5, <2>1, <2>2
<1>7. ASSUME NEW w \in Workers, Dispatch(w) PROVE RoutedInv'
  BY <1>4, <1>5, <1>7 DEF Dispatch
<1>8. ASSUME NEW w \in Workers, Pick(w) \/ Probe(w) \/ Claim(w) PROVE RoutedInv'
  <2>1. ASSUME PassOver(w), req[w].stage = "probe" PROVE RoutedInv'
    BY <1>13, <2>1
  <2>2. ASSUME Unavailable(w) PROVE RoutedInv'
    BY <1>14, <2>2
  <2>3. CASE Pick(w)
    <3>1. PICK r : r = [stage |-> "probe", gen |-> req[w].gen, route |-> req[w].route,
                        todo |-> InstancesIn(LiveUpstreams[req[w].route]), steady |-> eligible]
      BY Zenon
    <3>2. req' = [req EXCEPT ![w] = r] /\ r.stage # "routed"
      BY <2>3, <3>1 DEF Pick
    <3> QED  BY <1>2, <3>2
  <2>4. ASSUME NEW r, r = [stage |-> "claim", gen |-> req[w].gen, route |-> req[w].route,
                           steady |-> req[w].steady],
               req' = [req EXCEPT ![w] = r]
        PROVE  RoutedInv'
    BY <1>2, <2>4
  <2>5. CASE Claim(w)
    <3> DEFINE start == cursor[req[w].gen][req[w].route] % Len(Split[req[w].route])
    <3>1. PICK r : r = [stage |-> "scan", gen |-> req[w].gen, route |-> req[w].route, off |-> 0,
                        start |-> start, todo |-> InstancesOf[Entry(req[w].route, start)],
                        steady |-> req[w].steady]
      BY Zenon
    <3>2. req' = [req EXCEPT ![w] = r]
      BY <2>5, <3>1, Zenon DEF Claim
    <3>3. r.stage # "routed"
      <4> HIDE DEF start
      <4> QED  BY <3>1
    <3> QED  BY <1>2, <3>2, <3>3
  <2> QED  BY <1>8, <2>1, <2>2, <2>3, <2>4, <2>5, Zenon DEF Probe
<1>9. ASSUME NEW w \in Workers, Scan(w) PROVE RoutedInv'
  <2>1. req[w].stage = "scan"
    BY <1>9 DEF Scan
  <2>2. CASE Advance(w)
    <3>1. PICK r : r = [req[w] EXCEPT !.off = @ + 1,
                   !.todo = InstancesOf[Entry(req[w].route, req[w].start + req[w].off + 1)]]
      BY Zenon
    <3>2. r.stage # "routed"
      BY <2>1, <3>1
    <3> QED  BY <1>2, <2>2, <3>1, <3>2 DEF Advance
  <2> QED  BY <1>4, <1>9, <1>13, <1>14, <2>1, <2>2, Zenon DEF Scan
<1>10. ASSUME NEW w \in Workers, Finish(w) PROVE RoutedInv'
  BY <1>4, <1>10 DEF Finish
<1>11. ASSUME NEW u \in Instances, Flip(u) PROVE RoutedInv'
  <2>1. req' = [w \in Workers |-> IF req[w].stage \in Looking
                               THEN [req[w] EXCEPT !.steady = @ \ {u}] ELSE req[w]]
    BY <1>11, Zenon DEF Flip
  <2>2. ASSUME NEW v \in Workers PROVE RoutedOK(req'[v])
    <3>1. CASE req[v].stage \in Looking
      <4>1. req'[v] = [req[v] EXCEPT !.steady = @ \ {u}]
        BY <2>1, <3>1
      <4>2. req'[v].stage # "routed"
        BY <3>1, <4>1 DEF Looking
      <4> QED  BY <4>2 DEF RoutedOK
    <3>2. CASE req[v].stage \notin Looking
      BY <2>1, <3>2 DEF RoutedInv
    <3> QED  BY <3>1, <3>2
  <2>3. req' = [w \in Workers |-> req'[w]]
    BY <2>1
  <2> QED  BY <2>2, <2>3 DEF RoutedInv
<1>12. CASE UNCHANGED req
  BY <1>12 DEF RoutedInv
<1> QED
  BY <1>1, <1>6, <1>7, <1>8, <1>9, <1>10, <1>11, <1>12 DEF Next, vars, Reload, ClockStep

(* Whatever the routes, the targets and the encodings: what an origin      *)
(* makes of a routed request's path selects the route it was given, and    *)
(* what strip_prefix forwards of it is what the origin resolves (route.rs, *)
(* normalize_path and rewrite_path).                                       *)
THEOREM OriginsAgree == Spec => []OriginAgrees
<1>1. Init => RoutedInv
  BY DEF Init, RoutedInv, RoutedOK, Idle
<1>2. RoutedInv => OriginAgrees
  <2> SUFFICES ASSUME RoutedInv, NEW w \in Workers, req[w].stage = "routed"
               PROVE  /\ Select(Routes, [req[w].asked EXCEPT !.path =
                                          OriginPath(req[w].asked.path)]) = req[w].route
                      /\ OriginPath(RewritePath(req[w].asked.path, req[w].asked.query,
                                                Routes[req[w].route].strip))
                           = RewritePath(req[w].asked.path, req[w].asked.query,
                                         Routes[req[w].route].strip)
    BY Zenon DEF OriginAgrees
  <2> DEFINE q == req[w].asked
  <2>1. /\ Fields(q) /\ Plain(q.path)
        /\ req[w].route \in DOMAIN Routes /\ req[w].route = Select(Routes, q)
    BY DEF RoutedInv, RoutedOK
  <2>2. OriginPath(q.path) = q.path
    BY <2>1, PlainIsKept
  <2> HIDE DEF q
  <2>3. [q EXCEPT !.path = q.path] = q
    BY <2>1 DEF Fields
  <2>4. Plain(RewritePath(q.path, q.query, Routes[req[w].route].strip))
    <3>1. Routes[req[w].route].strip = Wild
          \/ Routes[req[w].route].strip \in Seq(STRING) \ {<< >>}
      BY <2>1, PathAssumption, Zenon
    <3> QED  BY <2>1, <3>1, RewriteIsPlain
  <2>5. OriginPath(RewritePath(q.path, q.query, Routes[req[w].route].strip))
          = RewritePath(q.path, q.query, Routes[req[w].route].strip)
    BY <2>4, PlainIsKept
  <2> QED  BY <2>1, <2>2, <2>3, <2>5 DEF q
<1> QED  BY <1>1, <1>2, RoutedInvNext, PTL DEF Spec

=============================================================================
