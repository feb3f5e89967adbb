------------------------------ MODULE Routing -------------------------------
(***************************************************************************)
(* A request from its target to the upstream group that will serve it: the *)
(* configuration pinned for it (control/src/snapshot.rs), the route chosen *)
(* (route.rs), the native rate limit consulted before the chain            *)
(* (ratelimit.rs) and the weighted split (weighted.rs).  A reload installs *)
(* fresh buckets and cursors; requests in flight keep the ones they        *)
(* pinned.  The wall clock may step in either direction.                   *)
(***************************************************************************)
EXTENDS RouteMatch, TokenBucket, Tables

CONSTANTS Workers,     \* requests in flight at a time
          Requests,    \* [authority, form, path, method, headers, query, peer]
          Routes,      \* the compiled routes, in manifest order
          InstancesOf, \* the instances of each upstream's group
          SlotOf,      \* the slot an address key hashes to
          Interval,    \* refill_interval_ms
          MinClock, MaxClock, MaxGens, MaxRequests

ASSUME ConfigAssumption ==
  /\ \A i \in DOMAIN Routes :
       /\ Routes[i].weights \in Seq(Nat) /\ ValidSplit(Routes[i].weights)
       /\ Len(Routes[i].prefix) \in Nat
       /\ IsFiniteSet(Routes[i].headers) /\ IsFiniteSet(Routes[i].query)
       /\ DOMAIN Routes[i].weights = DOMAIN Routes[i].upstreams
       /\ Routes[i].limit = Wild \/
            (Routes[i].limit.rate \in 1..MaxU64 /\ Routes[i].limit.burst \in 1..MaxU64)
  (* A zero cell reads as a full bucket: the clock is far from its epoch.  *)
  /\ \A i \in DOMAIN Routes : Routes[i].limit = Wild \/
       (MinClock \div Interval) * Routes[i].limit.rate >= Routes[i].limit.burst
  /\ Routes \in Seq(Range(Routes)) /\ MaxBackendWeight \in Nat
(* A target has a path of at least one segment, the empty one included,    *)
(* and the empty segment has nothing to decode.                            *)
ASSUME PathAssumption ==
  /\ "" \notin DOMAIN Encoded
  /\ \A q \in Requests :
       /\ q = [authority |-> q.authority, form |-> q.form, path |-> q.path,
               method |-> q.method, headers |-> q.headers, query |-> q.query,
               peer |-> q.peer]
       /\ q.path \in Seq(STRING) \ {<< >>}
  /\ \A i \in DOMAIN Routes :
       Routes[i].strip = Wild \/ Routes[i].strip \in Seq(STRING) \ {<< >>}
ASSUME ClockAssumption ==
  /\ Interval \in Nat \ {0} /\ MaxU64 \in Nat /\ MaxGens \in Nat \ {0}
  /\ MinClock \in Nat /\ MaxClock \in Nat /\ MinClock <= MaxClock /\ MaxClock <= MaxU64
  /\ Wild \notin Nat /\ Unseen \notin Nat \X Nat

VARIABLES gen,       \* the active configuration
          cells,     \* limiter state by generation, route and slot
          cursor,    \* the split's cursor by generation and route
          eligible,  \* the instances that are healthy and not ejected
          clock,     \* wall-clock milliseconds
          req,       \* each worker's request
          asked,     \* requests so far, up to MaxRequests
          grants,    \* history: grants of a bucket, and the clocks it saw
          served,    \* history: first choices of each split until a flip
          flipped    \* history: some instance's eligibility changed

vars == <<gen, cells, cursor, eligible, clock, req, asked, grants, served, flipped>>
history == <<grants, served, flipped>>

Gens == 1..MaxGens
(* The key a peer is limited by: a mapped IPv4 address is its IPv4 form,   *)
(* an IPv6 address its /64.  With `key = "route"` there is one bucket.     *)
Slot(limit, peer) ==
  LET family == IF peer.family = "mapped" THEN "v4" ELSE peer.family
  IN  IF limit.key = "route" THEN 0 ELSE SlotOf[<<family, peer.net>>]

Slots == {0} \cup {SlotOf[k] : k \in DOMAIN SlotOf}

BucketSpec(limit) == [capacity |-> limit.burst, refill |-> limit.rate, interval |-> Interval]
Limited == {i \in DOMAIN Routes : Routes[i].limit # Wild}

(* Each route's table, and the upstreams in it.                            *)
Split == [i \in DOMAIN Routes |-> Table(Routes[i].weights)]
LiveUpstreams == [i \in DOMAIN Routes |->
                    {Routes[i].upstreams[Split[i][k]] : k \in DOMAIN Split[i]}]
Entry(i, n) == Routes[i].upstreams[Split[i][(n % Len(Split[i])) + 1]]
InstancesIn(us) == UNION {InstancesOf[u] : u \in us}
Instances == InstancesIn(DOMAIN InstancesOf)

Unserved == [g \in Gens |-> [i \in DOMAIN Routes |-> [b \in DOMAIN Routes[i].weights |-> 0]]]
Idle == [stage |-> "idle"]
Looking == {"probe", "claim", "scan"}
Fresh(n) == [i \in DOMAIN Routes |-> n]

Init ==
  /\ gen = 1 /\ clock = MinClock /\ asked = 0
  /\ cells = [g \in Gens |-> [i \in Limited |-> [s \in Slots |-> <<0, 0>>]]]
  /\ cursor = [g \in Gens |-> Fresh(0)]
  /\ eligible = Instances
  /\ req = [w \in Workers |-> Idle]
  /\ grants = [g \in Gens |-> [i \in Limited |-> [s \in Slots |->
                 [count |-> 0, lo |-> Wild, hi |-> 0]]]]
  /\ served = Unserved
  /\ flipped = FALSE

(* What a request keeps once its bucket was asked: the path it will be     *)
(* forwarded with is a function of what was routed.                        *)
Enter(w, stage) ==
  req' = [req EXCEPT ![w] = [stage |-> stage, gen |-> req[w].gen, route |-> req[w].route]]
Answer(w) == req' = [req EXCEPT ![w] = Idle]

(* The snapshot is pinned, the target normalized, the route found.  A bad  *)
(* path is answered 400, no route 404.                                     *)
Arrive(w, q) ==
  LET clean == NormalizePath(q)
      route == IF clean = NoRoute THEN NoRoute ELSE Select(Routes, clean)
  IN  /\ req[w].stage = "idle" /\ asked < MaxRequests
      /\ asked' = asked + 1
      /\ req' = [req EXCEPT ![w] =
           IF route = NoRoute THEN Idle
           ELSE [stage |-> "routed", gen |-> gen, route |-> route, asked |-> clean]]
      /\ UNCHANGED <<gen, cells, cursor, eligible, clock, history>>

(* check_rate_limit, before the chain; the bucket's mutex makes the        *)
(* read-modify-write one step.  An empty bucket answers 429.               *)
CheckRateLimit(w) ==
  LET r == req[w]
      limit == Routes[r.route].limit
      s == Slot(limit, r.asked.peer)
      answer == ApplyBucket(cells[r.gen][r.route][s], 1, BucketSpec(limit), clock)
      seen == grants[r.gen][r.route][s]
      next == IF Routes[r.route].filters THEN "chain" ELSE "pick"
  IN  /\ r.stage = "routed"
      /\ IF limit = Wild
         THEN Enter(w, next) /\ UNCHANGED <<cells, grants>>
         ELSE /\ cells' = [cells EXCEPT ![r.gen][r.route][s] = answer.cell]
              /\ IF answer.allowed THEN Enter(w, next) ELSE Answer(w)
              /\ grants' = [grants EXCEPT ![r.gen][r.route][s] =
                   [count |-> seen.count + (IF answer.allowed THEN 1 ELSE 0),
                    lo |-> IF seen.lo = Wild THEN clock ELSE seen.lo,
                    hi |-> IF clock > seen.hi THEN clock ELSE seen.hi]]
      /\ UNCHANGED <<gen, cursor, eligible, clock, asked, served, flipped>>

(* The route's chain passes the request on, or answers it itself.          *)
Dispatch(w) ==
  /\ req[w].stage = "chain"
  /\ \/ Enter(w, "pick")
     \/ Answer(w)
  /\ UNCHANGED <<gen, cells, cursor, eligible, clock, asked, history>>

(* WeightedBackends::pick.  `steady` keeps the instances that stay         *)
(* eligible from here on; `todo` are the ones has_eligible has yet to      *)
(* look at, one after the other in a fixed order.                          *)
Pick(w) ==
  /\ req[w].stage = "pick"
  /\ req' = [req EXCEPT ![w] =
       [stage |-> "probe", gen |-> req[w].gen, route |-> req[w].route,
        todo |-> InstancesIn(LiveUpstreams[req[w].route]), steady |-> eligible]]
  /\ UNCHANGED <<gen, cells, cursor, eligible, clock, asked, history>>

Unavailable(w) ==
  req' = [req EXCEPT ![w] = [stage |-> "unavailable", route |-> req[w].route,
                             steady |-> req[w].steady]]
AtHand(w) == CHOOSE i \in req[w].todo : TRUE
Found(w) == req[w].todo # {} /\ AtHand(w) \in eligible
PassOver(w) ==
  /\ req[w].todo # {} /\ AtHand(w) \notin eligible
  /\ req' = [req EXCEPT ![w] = [req[w] EXCEPT !.todo = @ \ {AtHand(w)}]]

(* The way out of a full outage: every group of the split is asked first.  *)
Probe(w) ==
  /\ req[w].stage = "probe"
  /\ \/ /\ Found(w)
        /\ req' = [req EXCEPT ![w] = [stage |-> "claim", gen |-> req[w].gen,
                                      route |-> req[w].route, steady |-> req[w].steady]]
     \/ PassOver(w)
     \/ req[w].todo = {} /\ Unavailable(w)
  /\ UNCHANGED <<gen, cells, cursor, eligible, clock, asked, history>>

(* One fetch_add chooses where the table is entered.                       *)
Claim(w) ==
  LET r == req[w]
      start == cursor[r.gen][r.route] % Len(Split[r.route])
      first == Split[r.route][(cursor[r.gen][r.route] % Len(Split[r.route])) + 1]
  IN  /\ r.stage = "claim"
      /\ req' = [req EXCEPT ![w] =
           [stage |-> "scan", gen |-> r.gen, route |-> r.route, off |-> 0, start |-> start,
            todo |-> InstancesOf[Entry(r.route, start)], steady |-> r.steady]]
      /\ cursor' = [cursor EXCEPT ![r.gen][r.route] = @ + 1]
      /\ served' = IF flipped THEN served
                   ELSE [served EXCEPT ![r.gen][r.route][first] = @ + 1]
      /\ UNCHANGED <<gen, cells, eligible, clock, asked, grants, flipped>>

(* From there on each entry's group is asked, until one has an eligible    *)
(* instance and the request leaves for it.                                 *)
Advance(w) ==
  req' = [req EXCEPT ![w] =
    [req[w] EXCEPT !.off = @ + 1,
                   !.todo = InstancesOf[Entry(req[w].route, req[w].start + req[w].off + 1)]]]

(* A bound one entry short of the table.                                   *)
ScanShort(w) ==
  /\ req[w].stage = "scan"
  /\ \/ Found(w) /\ Answer(w)
     \/ PassOver(w)
     \/ /\ req[w].todo = {}
        /\ IF req[w].off + 2 < Len(Split[req[w].route]) THEN Advance(w) ELSE Unavailable(w)
  /\ UNCHANGED <<gen, cells, cursor, eligible, clock, asked, history>>

Scan(w) ==
  /\ req[w].stage = "scan"
  /\ \/ Found(w) /\ Answer(w)
     \/ PassOver(w)
     \/ /\ req[w].todo = {}
        /\ IF req[w].off + 1 < Len(Split[req[w].route]) THEN Advance(w) ELSE Unavailable(w)
  /\ UNCHANGED <<gen, cells, cursor, eligible, clock, asked, history>>

(* The 503 is written.                                                     *)
Finish(w) ==
  /\ req[w].stage = "unavailable" /\ Answer(w)
  /\ UNCHANGED <<gen, cells, cursor, eligible, clock, asked, history>>

(* A reload compiles new routes: new buckets, new cursors.                 *)
Reload ==
  /\ gen < MaxGens /\ gen' = gen + 1
  /\ UNCHANGED <<cells, cursor, eligible, clock, req, asked, history>>

(* Probes and ejections change which instances are eligible.               *)
Flip(i) ==
  /\ eligible' = IF i \in eligible THEN eligible \ {i} ELSE eligible \cup {i}
  /\ flipped' = TRUE /\ served' = Unserved
  /\ req' = [w \in Workers |-> IF req[w].stage \in Looking
                               THEN [req[w] EXCEPT !.steady = @ \ {i}] ELSE req[w]]
  /\ UNCHANGED <<gen, cells, cursor, clock, asked, grants>>

(* The wall clock moves on, or NTP steps it anywhere.                      *)
ClockStep ==
  /\ clock' \in MinClock..MaxClock /\ clock' # clock
  /\ UNCHANGED <<gen, cells, cursor, eligible, req, asked, history>>

Next ==
  \/ \E w \in Workers :
       \/ \E q \in Requests : Arrive(w, q)
       \/ CheckRateLimit(w) \/ Dispatch(w)
       \/ Pick(w) \/ Probe(w) \/ Claim(w) \/ Scan(w) \/ Finish(w)
  \/ Reload \/ (\E i \in Instances : Flip(i)) \/ ClockStep

Spec == Init /\ [][Next]_vars
-----------------------------------------------------------------------------
TypeOK ==
  /\ gen \in Gens /\ clock \in MinClock..MaxClock /\ asked \in 0..MaxRequests
  /\ eligible \subseteq Instances /\ flipped \in BOOLEAN
  /\ \A w \in Workers : req[w].stage \in
       {"idle", "routed", "chain", "pick", "unavailable"} \cup Looking

(* Route selection is access control (route.rs, normalize_path): the path  *)
(* a request is forwarded with resolves, at an origin that decodes and     *)
(* removes dot segments, to a path that selects the same route; and what   *)
(* strip_prefix leaves of it still holds nothing for the origin to resolve. *)
OriginAgrees ==
  \A w \in Workers : req[w].stage = "routed" =>
    LET q == req[w].asked
        sent == RewritePath(q.path, q.query, Routes[req[w].route].strip)
    IN  /\ Select(Routes, [q EXCEPT !.path = OriginPath(q.path)]) = req[w].route
        /\ OriginPath(sent) = sent

(* A bucket never grants more than its burst and the refills between the   *)
(* first and the latest clock it saw, whatever steps the clock takes in    *)
(* between and however many requests consult it at once (ratelimit.rs,     *)
(* now_millis: a backward step never mints tokens).                        *)
GrantsBounded ==
  \A g \in Gens, i \in Limited, s \in Slots :
    LET b == grants[g][i][s]
        spec == BucketSpec(Routes[i].limit)
    IN  b.lo # Wild =>
          b.count <= spec.capacity
                     + spec.refill * ((b.hi \div Interval) - (b.lo \div Interval))

(* Retry-After never invites a retry that is too early (backend.rs,        *)
(* apply_bucket): while the clock has not gone back behind the bucket, the *)
(* tokens asked for are there once the hint has passed.  A native limiter  *)
(* asks for one; the claim is for every cost whose wait fits 64 bits.      *)
RetryIsLateEnough ==
  \A g \in Gens, i \in Limited, s \in Slots :
    LET spec == BucketSpec(Routes[i].limit)
        cell == cells[g][i][s]
    IN  \A cost \in 1..spec.capacity :
          LET now == ApplyBucket(cell, cost, spec, clock)
          IN  clock >= cell[2] /\ cost * Interval <= MaxU64 /\ ~now.allowed =>
                ApplyBucket(now.cell, cost, spec, clock + now.retry).allowed

(* How far a backend's picks are from its weight's share of them, in units *)
(* of the total weight.                                                    *)
Ahead(g, i, b) ==
  served[g][i][b] * Total(Routes[i].weights) - cursor[g][i] * Routes[i].weights[b]

(* While every upstream stays eligible, no backend is a whole pick ahead   *)
(* of its share, and a period of the table gives every backend exactly its *)
(* share (weighted.rs, the module comment).                                *)
SharesKept ==
  ~flipped =>
    \A g \in Gens, i \in DOMAIN Routes : \A b \in DOMAIN Routes[i].weights :
      /\ Ahead(g, i, b) < Total(Routes[i].weights)
      /\ cursor[g][i] % Len(Split[i]) = 0 => Ahead(g, i, b) = 0

(* The comment says more: nor is one ever a whole pick behind.  Refuted    *)
(* from five backends on; weights 1, 1, 1, 6, 6 are the smallest such.     *)
WithinOneOfShare ==
  ~flipped =>
    \A g \in Gens, i \in DOMAIN Routes : \A b \in DOMAIN Routes[i].weights :
      -Ahead(g, i, b) < Total(Routes[i].weights)

(* A request is refused for want of an upstream only if no instance of a   *)
(* live backend of its route stayed eligible while it looked (weighted.rs, *)
(* pick; lb.rs, has_eligible).                                             *)
NoSpuriousUnavailable ==
  \A w \in Workers : req[w].stage = "unavailable" =>
    req[w].steady \cap InstancesIn(LiveUpstreams[req[w].route]) = {}

(* What clients are told of a bucket is true, in tokens and in waits.      *)
BucketHonest == GrantsBounded /\ RetryIsLateEnough

(* The split keeps its shares and misses no eligible upstream.             *)
SplitSound == SharesKept /\ NoSpuriousUnavailable
=============================================================================
