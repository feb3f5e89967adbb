# Plecto Proxy: a TLA+ verification project

This directory holds TLA+ models of Plecto Proxy (`plecto/crates`), the TLC
configurations that check them on small instances, and TLAPS proofs of the
central invariants. `PROJECT.json` maps every definition to the lines it models
and lists the hazards the properties are for.

Plecto is a reverse proxy whose policy runs in WebAssembly filters. A listener
accepts connections, a request path runs the route's filter chain, forwards to an
upstream group and runs the chain on the response; a control plane loads a
manifest and swaps the active configuration on reload; supervisors probe the
upstreams and resolve their names. Almost everything is shared between tokio
tasks and blocking threads through atomics, mutexes, semaphores and `ArcSwap`s,
and most of what can go wrong is an order of those steps that no test drives.
The rest is interpretation: of a target, a header, a manifest, a signature, an
address, where two parts of the program must read the same bytes the same way.

## 1. Inventory

| Component | Source | State | Hard behaviour | Module |
|---|---|---|---|---|
| Trusted instance pool | host/pool.rs, filter.rs | idle stack, `live`, condvar, trap breaker | blocking threads, lost wake-ups, unwinding, one deadline | InstancePool |
| Host state store | host/state.rs, quota.rs, backend.rs | rows, quota tallies, redb, combining queue | election races, failed commits, crashes, stripes | StateStore |
| Guest calls and their telemetry | host/state.rs, stdio.rs, pool.rs, filter.rs, observe.rs | buffered lines, budgets, spans | output that outlives the call on a reused instance | HostCalls |
| Guest outbound HTTP and TCP | host/outbound.rs, outbound_tcp.rs, outbound_http.rs | socket quotas, pins, permits, drivers | two ceilings, leases shared by halves, deadlines nobody polls, rebinding | Outbound |
| Artifacts and provenance | control/oci.rs, host/trust.rs, host.rs | none | which bytes were verified and which are run | Artifact |
| Manifest and validation | control/manifest, route.rs | none | what passes `validate` and still fails to load | Manifest |
| Configuration lifecycle | control/lib.rs, control_reload.rs, upstream/registry.rs | disk, running process | failures half way, settings a reload cannot change | Configure |
| Hot reload | control/lib.rs, control_reload.rs, manifest/content_hash.rs | active configuration, recorded version | files that change while they are read | Reload |
| Session ticket keys | control/stek.rs, tls.rs | current and previous keys, file clock | rotation while reading, results out of order | Tickets |
| Maglev tables | control/maglev.rs | none | coverage of small and zero weights | Tables |
| Route matching | control/route.rs, snapshot.rs | none | two spellings of one path | RouteMatch, Routing |
| Native rate limit | control/ratelimit.rs, host/backend.rs | bucket table | clock steps, saturation | TokenBucket, Routing |
| Weighted split | control/weighted.rs | cursor | apportioning, eligibility that flips | Tables, Routing |
| Listener, drain and shutdown | server/listener.rs, tunnel.rs, admin.rs, h3/endpoint.rs | permits, drain flag, tasks | detached tunnels, windows, select order | Serve |
| PROXY protocol | server/proxy_protocol.rs | bytes read so far | fragmentation | ProxyHeader |
| DNS endpoint refresh | server/dns.rs, control/upstream/mod.rs, registry.rs | last-known-good names, endpoint sets | a refresh of a replaced group | Dns |
| Request metrics, span export | server/metrics.rs, host/otlp.rs, server/otlp.rs | counters, queue, pump | registration side by side, loss paths, flush deadline | Export |
| Upstream client cache | server/upstream_client.rs | clients by address of their configuration | address reuse | UpstreamClients |
| HTTP/3 request streams | server/h3 | bytes still declared | truncated bodies and responses | H3Stream |
| Per-IP connection limit | server/conn_limit.rs | one atomic per slot | CAS races, hash collisions | ConnLimit, Admission |
| Circuit breaker | control/upstream/circuit_breaker.rs | `in_flight` per group value | add then undo, permits that outlive a reload | CircuitBreaker |
| Outlier detection | control/upstream/outlier.rs | streaks, ejection deadlines, two mutexes | simultaneous crossings, nested locks, reload | Outlier |
| Load balancing | control/upstream/lb.rs | cursor, per-instance load | eligibility that changes during a scan | LbPick |
| Health checking | control/upstream/instance.rs, server/health.rs | healthy bit, streaks, probe clock | late probes, stale instances | HealthCheck |
| Forwarding and retries | server/forward.rs, retry.rs | attempts, timers, body | timeouts racing answers, non-idempotent retries | Forward |
| Request path and its limits | server/proxy.rs, body.rs, respond.rs | admission permits, byte budget, breaker slots | cancellation at any await, work left behind | Transaction |
| Filter chain, filter contract | control/chain.rs, host/contract.rs, runtime.rs, server/dispatch.rs | none between requests | short circuits, faults, four contract versions | Contract, Exchange |
| Headers and authority | server/headers.rs | none | one client, one authority, hop-by-hop | HttpHeaders, Exchange |
| Compression, inspection, framing | server/compression.rs, respond.rs, body.rs | none | bytes that no longer match their headers | HttpHeaders, Exchange |
| TLS material | control/tls.rs, upstream/tls.rs | certificates, ticketers | see Reload, Configure, Tickets | in part |
| Access log, control observability, engines, body streaming, tools, examples | see PROJECT.json | | | not modelled |

How they interact. A connection passes `ProxyHeader`, holds a `ConnLimit` guard
and a permit of `Serve`; each of its requests takes an admission permit and runs
`Transaction`. `Routing` pins a configuration and picks a route and a group;
`Exchange` says what becomes of the message on the way. Its chains check
instances out of `InstancePool`; guests call `StateStore` and `Outbound`,
and what they say becomes spans (`HostCalls`, `Export`). The route
pins a *group value*, an `Arc` that a reload replaces; on it the request takes a
`CircuitBreaker` permit, picks with `LbPick` and loops in `Forward`, through a
client of `UpstreamClients`, and reports to `Outlier` and to the instance's
health. `Configure` and `Reload` build the next configuration from `Manifest` and
`Artifact` and reconcile the registry, which keeps instances (so `HealthCheck`,
`LbPick` loads and outlier deadlines survive) and replaces group values (so
breaker counters and decision mutexes do not); `Dns` swaps endpoint sets on them.

## 2. Plan

Done: models of every component above, first the pool, the upstream components,
forwarding, reload and the request path, then the state store, outbound calls,
guest output, routing, the configuration lifecycle, tickets, the server's loops
and telemetry, and the content of an exchange; and the proofs of section 6, which
cover every safety invariant and action property that a passing run checks. What is
left, most valuable first:

1. **Refinement.** `Admission` as the promise of the breaker and of the outbound
   permits too; so far only the connection limit is shown to implement it.
2. **TLS material**: SNI selection and client-certificate verification are the
   TLS library's; which certificate a name selects is not modelled yet.
3. **Access log**: a bounded queue with a drop counter, the shape of `Export`.

Modules meant for proofs use no `RECURSIVE` operator; bounds that exist for TLC
only (`Gens`, `MaxFlips`, `MaxProbes`, `MaxPicks`, `MaxChanges`, `MaxReloads`,
`MaxEdits`, `MaxSaid`, `MaxFaults`, `Horizon`, ...) are constants with that name.

## 3. The modules and the code

**InstancePool.** Threads run `run_pooled`; `pc` is the place in `checkout` and
`execute_pooled` between two acquisitions of the pool mutex. `idle` holds, for
each idle instance, the requests it has served; `live` is the field of that name.
A parked thread is in the condvar; `NotifyOne` wakes any one of them. The guest
call returns, traps or unwinds; `Failures` says which failures a run considers.
The two releases of a failed instance (memory, slot) are separate steps because
the code runs them in an order that matters.

**StateStore.** A capability call takes its key's stripe, reads, charges the tally
and writes, to the map or through `submit`: enqueue, look for a reply, run for
combiner, drain up to `MaxBatch` jobs, commit, answer, unlock, or park with a
timeout. A row is its length. Reads and commits may fail, a combiner may die, and
`Crash` goes back to the last durable commit and recounts the tally from what it
finds, also above the caps when an older version left it so. A write that shrinks
gives its bytes back to the tally before the row changes, so another's growth may be
admitted while the old row is still there: the caps are claimed of the rows when no
such release is under way. A queued job carries
its owner, or none once the caller unwound as combiner with the job still queued.

**HostCalls.** One call at a time on a pooled or fresh instance: reset, guest
writes to the log or to stdout and stderr, the two drains, the span. A byte is the
number of the call that wrote it, so that a line of an earlier call is seen.

**Outbound.** The policy and the two capabilities. An address is its range and its
wrapping. Sockets are reserved per Store and then host-wide in two steps; a lookup
is a task that outlives an abort; streams share their socket's lease. An HTTP call
owns a permit and a driver until its body ends or the watchdog fires. When its
lifetime is dropped the permit is free at once (`Drop`), while the abort travels from
the watchdog to the worker and the driver and takes effect later (`AbortEnds`): a call
in phase `closing` still has a connection and no permit.

**RouteMatch, TokenBucket, Tables, Routing.** The first three are pure
operators over segments, cells and weights (`Tables` also has the Maglev fill). A
path is its segments; `Encoded` says what a segment with an encoded dot or slash
would decode to at the origin, and the proxy refuses it. `RewritePath` strips the
target with its query, as the code does.
`Routing` runs workers through them over shared cells and cursors, with a clock
that steps both ways, instances that lose eligibility, and reloads that install
fresh state. Whether an upstream has an eligible instance is found out one instance
at a time (`Probe`, `Scan`), so an instance may flip between two looks.

**Manifest, Artifact, Configure.** The checks of a manifest and the path from a
digest to a filter that may run, as operators, with the fill of `Tables`;
`Configure` has the commands (`validate`, `validate --resolve`, start, reload) over
a disk that an operator edits. A component may decode and still not compile: it is
checked with every Wasm feature on and compiled without some of them (`uses`,
`EngineOff`). A reload of what is running already, by the digest of the manifest and
of the files it names, is `Unchanged` and builds nothing.

**Reload.** Files are in three classes by when `build_active` reads them: before
the digest (certificates, keys, STEK, config files), once for both use and digest
(client-auth CA), and in reconcile (upstream TLS). Every read is its own step, so
a rotation can fall between any two; two callers are serialised where the code
holds `reload_lock`.

**Tickets.** A handshake pins a build, may win the compare-and-swap that allows one
thread to look at the file, reads it, and stores what it found, each in a step of
its own; ages are ticks.

**Serve.** The TCP and QUIC accept loops, connections with their tunnels, and the
stages of `serve` from the signal to its return. A permit is shared by the task
and the tunnel of a connection; `told`, `expired`, `late` and `stale` record what
a property asks about. The admin loop may sit at its permit while its connections,
which are detached, keep all of them; only at its accept does it see the drain.

**ProxyHeader.** A stream of tokens arrives in any pieces; trusted peers are read
by whole reads, others only peeked at.

**Dns.** One name whose group values are numbered; the supervisor's cache, the
spawned refreshes and their `try_lock`, the reload that replaces the group and carries
its endpoints over only if everything that decides them is as before.

**Export.** The bounded span queue, the pump with its retries, the final flush
under a deadline; and the request counters: registration by compare-and-swap of
the map, relaxed increments in any order, and a scrape that reads series one by
one.

**UpstreamClients.** A small heap of addresses, so that a configuration can be
allocated where an older one was.

**H3Stream.** Bytes counted on both halves of one stream.

**ConnLimit / Admission.** The load, the compare-exchange with its retry and the
guard's decrement are separate steps. `Admission` is the promise: a bounded set
of holders, admit, refuse when full, release. `ConnLimit` implements it slot by
slot (`ImplementsAdmission`).

**CircuitBreaker.** `try_acquire` adds, looks, and undoes; a permit decrements
the counter of the group value it came from. Reloads change `max_requests`.

**Outlier.** `record_outcome` cut at its two locks: streak, decision, store. The
ejection window's length is abstracted into `Expire`.

**LbPick.** One step per instance inspected, so that eligibility can change in the
middle of a scan; round robin with its second look, power of two choices with
its count and capture passes and its fallback, and the Maglev walk. A pick also
keeps, as history, the instances eligible all through it and at some point of it.

**HealthCheck.** Instances are objects named by the group value that made them;
probes and forwards keep the one they started with. `Tick` is one pass of the
supervisor, `recent` its probe clock, keyed by address as in the code. A reload brings
a section with its policy, its addresses and their weights, and keeps an instance only
if policy, address and weight are unchanged. The group resolves no names; `Dns` has
those that do.

**Forward.** One request with a clock in ticks; time passes only at the awaits of
`send` and `sleep`. The log records each attempt's instance, whether the upstream
had the request, whether the body was whole and what was reported.

**Transaction.** A request is a set of live activities (the future, a blocking
job, bytes in the transport, a drain, a tunnel, the response body) and the set of
those that own a clone of the admission permit; likewise for buffered bytes and
the byte reservation. The code between two awaits is one step; `Cancel` drops the
future at any await. Bodies count as one cap each, as `acquire_many_owned` does.

**Contract, HttpHeaders, Exchange.** What a hook may say in each contract
version; strip, attribution and authority; negotiation and the header changes of
a coded response. `Exchange` runs one exchange through ingress, the request chain,
the upstream, the response chain and inspection, and coding, keeping what each
party saw. A scenario is what the program can be given (`ScenarioAssumption`):
headers and bodies the HTTP library lets through, routes as
`validate_response_headers` leaves them, words a guest can say in its contract
version. A connection that switched protocols is told apart from a guest that
answers 101 itself. Authorities are compared under the scheme the target names, else
that of the wire. A request without a body is not one whose body is empty: the latter
is read and shown to the hooks. An answer to HEAD, a 204 and a 304 may state the length
of a body that was not sent. The 503s come where the code gives them: no upstream
before the body is looked at, the breaker and the pick after its hooks.

**Composition.** Where modules share no state they are instances of one MC module
and a variable (`part`, or `side`) fixed by the initial state says which of them a
behaviour is about; the others stay in one first or resting state, in which none
of their fair actions is enabled (or their fairness is guarded by `part`). Such a
run is the sum of its parts and its properties are stated for all of them, so a
property's name may join the invariants of two parts (`CeilingsCover`,
`ClientReadRight`). Modules that share state are composed for real: `Routing`
over its three operator modules, `Configure` over `Manifest`, `Artifact` and
`Tables`, `Exchange` over `Contract` and `HttpHeaders`, the two outbound
capabilities over one policy.

## 4. What the runs show

Each run takes a few minutes at most with two workers.

| Run | Question and answer | Bounds |
|---|---|---|
| `host` | Pool: slots are neither lost nor doubled across traps, failed inits, panics and recycles (`SlotAccounting`), a notify per check-in suffices (`IdleNeverStranded`), every checkout returns. Store: the tally is exact until something fails and growth stays within the caps whenever no release is half done (`QuotaHolds`), a crash takes back fewer than `FlushEvery` hot operations and no answered set or delete (`CrashLosesLittle`), every queued write is answered. Calls: a span holds its own call's output, whole (`OwnOutput`) | 3 threads, cap 2, recycle after 2, breaker after 2; 2 callers, 3 keys of 2 filters, both backends, 1 fault, any crashes; 2 calls with budgets of 2 and 3 |
| `pool_stranded_slot` | **Violated**: `ParkedHasWaker`, see section 7 | 4 threads, cap 1: two waiters and a trap |
| `outbound` | Every reachable descriptor is counted once against both ceilings, and every connection of a live call has a permit, so that beyond the ceiling there are only those whose abort is under way (`CeilingsCover`); peers are vetted however DNS wrote them (`PeersVetted`); connections end although the guest never polls (`ConnectionsEnd`) | 2 Stores of 2 sockets, host cap 2, 1 lookup, 1 pin; 2 HTTP calls on 1 permit |
| `upstream` | Ejections stay within the percentage plus one per reload (`EjectionCap`); the breaker's counter is permits plus undecided callers (`InFlightAccounted`); no 503 beside an instance eligible throughout, no retry on the failed one, exact loads (`PicksSound`); even rotation; the CAS loop implements `Admission` | 2 requests, 4 instances, 50 %, 1 reload; 4 holders, 3 group values with caps 2, 1, none; 4 connections on 2 slots, limit 2; 2 pickers, 3 uneven instances, 1 flip, 1 retry, 3 picks, all three algorithms |
| `request` | The three limits cover the work, the bytes and the upstream's requests whatever is cancelled or left behind (`LimitsCover`), and permits return; at most one execution of a non-idempotent request, whole bodies, retries elsewhere, deadlines with the slack of one backoff (`AttemptsSound`), and forwards end; backends enter and leave rotation for good; an instance serves with its group's policy and weight and only once a probe of its own was answered, whatever was reused or replaced (`ServesAsDeclared`) | 3 requests, 2 admissions, 2 bodies of budget, 1 breaker slot; 2 retries, 2 instances, per-try 2 ticks, overall none or 5; 1 address, sections that differ in policy or weight, 1 reload, 2 overlapping probes, 1 change of the backend, 1 forward |
| `reload` | All-or-nothing: routes and probed groups agree; the version describes the CA in use (`ReloadSound`) | 2 callers, 3 manifests, 4 files, 2 changes, 3 reloads |
| `reload_rotation`, `reload_upstream_tls` | **Violated**: `RotationLoads`, `UpstreamTlsCurrent`, see section 7 | 1 caller |
| `routing` | The origin resolves the forwarded path to one that selects the same route (`OriginAgrees`); a bucket never grants more than burst and refills, and its hint is not early (`BucketHonest`); no upstream is ever a whole pick ahead of its share, every period gives each its exact share, and no refusal beside an instance that stayed eligible (`SplitSound`) | 2 workers, 3 requests, clock 4 to 6 both ways, saturation at 9, 2 generations; 14 requests against 4 routes; instances flip only while the clock and the generation stand (`FlipsAlone`), since no step reads both |
| `configure` | What `validate --resolve` accepts starts and reloads, up to what only a load can see, compilation included (`PassedCheckLoads`); what runs is whole, verified, bounded and can serve, its Maglev tables full (`ActiveSound`); tickets resume only in their context, expired keys are dead, and the file's key is taken up in the end | any 2 edits of a disk that loads, with a variant for every check of the code; 2 threads, 2 keys, 2 builds, 1 write |
| `serve` | Live connections and tunnels are within `MAX_CONNECTIONS` and a drain breaks no request inside its window (`DrainSound`); `serve` returns and leaves no client's connection or tunnel, whatever the admin listener's clients do (`ShutdownEnds`); fragmented PROXY headers and HTTP/3 bodies are read right (`ClientReadRight`); every span and request is accounted for (`TelemetryAccounted`); a request uses its own group's client (`ClientMatchesGroup`); endpoints end up as DNS says (`EndpointsSettle`) | 2 TCP and 1 QUIC connection on 2 permits; 2 hosts, 2 groups; queue 3, batch 2, 3 attempts, 6 spans; 2 routes, 2 tasks, 2 requests, 1 scrape; 2 heap addresses, 3 configurations, cache of 1; 3 bytes |
| `exchange` | Every filter runs in its turn and sees the bytes that go on (`ChainSound`); messages say of their bytes what is true (`MessageSound`); one client, one authority, nothing of the hop before (`HeadersSound`) | six families of scenarios: authorities, forwarded lists, connection headers, chains of two filters over the contract versions, inspection, coding |

Why the bounds are enough: each contended resource has one actor more than it can
serve, and each streak, cap or threshold can be reached and passed. The modules
with only pure operators are checked over sets of inputs that hold one member for
every branch of the code. `configure`, `reload`, the two reload violations,
`routing` and `serve` have counters, edits or shutdowns that end, so they check no
deadlock; all others do.

Each property has a mutant: a definition that changes the model as a plausible
bug would (a dropped notify, a slot released twice, a per-wait instead of an
absolute deadline, a check outside the lock, a retry of a POST, a job nobody runs
for, a decoded path that is not decoded, an address that is not unwrapped, a
counter registered over another). TLC finds the property violated with the mutant.

## 5. Fairness

- InstancePool: threads that can run do run, the deadline passes, the cooldown
  elapses; guest calls end because every call runs under an epoch deadline.
  A parked thread is not assumed to be signalled.
- StateStore: every caller's thread takes its steps; in particular
  `recv_timeout` expires. Nothing is assumed of crashes or faults.
- Outbound: deadlines pass, the timeout around a send and the watchdog fire, the
  runtime drops what was aborted.
  The guest may hold its body for ever without reading it.
- HealthCheck: the supervisor loops, a probe has a timeout, intervals elapse, a
  connect either succeeds or fails. Nothing is assumed of reloads or backends.
- Forward: the task is polled and time passes. Nothing makes an upstream answer:
  `ForwardEnds` rests on the per-try timeout alone.
- Transaction: weak fairness of the server's own steps (jobs end by the epoch
  deadline, reads and attempts by their timeouts), and of the peers letting go.
  The last is an assumption about the environment: the drain in `respond.rs` and
  an idle tunnel have no timer of their own.
- Serve: weak fairness of the server's own steps and timers; nothing of clients,
  upstreams or the admin listener, whose permits its clients may keep. The QUIC loop's drain branch has strong fairness, since `select!`
  polls its branches in random order and the loop keeps coming back to it.
- Dns: ticks come by the clock, spawned tasks run, lookups end in an answer or a
  failure. DNS changes and reloads may happen or not.
- Tickets: time passes and clients keep connecting: handshakes are the only ones
  that look at the key file.

## 6. What is proved

With TLAPS, for every value of the constants that satisfies the named `ASSUME`s.
A theorem is stated about the specification a run checks, or about the component's
own where the run's module only puts components side by side. Every safety invariant
and action property of a passing run is such a theorem. The proof modules extend the
modules of the runs, so that the theorems are about the same definitions TLC
evaluates.

**FoldLemmas** holds what the others share: sums, counts and folds over finite sets
and sequences, unfolded one element at a time, and induction stated of a set (a set
that holds 0 and is closed under successor holds `Nat`, likewise for sequences and
finite sets), each from a least counterexample. Where a definition is recursive or a
fold, its proof defines the set of inputs for which the claim holds and cites these.

**Upstream_proofs.**
- *Connection limit* (`LimitHolds`, `AdmissionRefined`): the counter of a slot is
  its guards. A connection between its load and its compare-exchange holds a value
  that may be stale; the exchange succeeds only if it is not, which is the whole
  argument, and the refinement of `Admission` maps a connection to its guard.
- *Circuit breaker* (`CountersExact`, `PermitsBounded`): the counter is the permits
  and the callers that have added and not decided, per group value; hence permits
  stay within the limit, although the counter may pass it.
- *Outlier detection* (`OutlierTypes`, `EjectionsBounded`): the cap is
  not inductive, since an instance past the check is not ejected yet. The invariant
  counts held decision mutexes as ejections to come: ejected plus deciding, less
  one per reload, is within the percentage. A request reads its count while holding
  its own mutex, so at most the other published group values decide meanwhile.
- *Load balancing* (`PicksAreSound`): no pass sees a consistent set of eligible
  instances. What is kept is about the rest of the pass: as long as it has counted
  or met nothing, every instance that was eligible all along is still ahead of it,
  and a remembered index is one of an instance that was eligible at some point. A
  load is the guards held on the instance and the previous attempt's, counted.
- *Rotation* (`RotationIsEven`): as long as no instance changed and none was excluded,
  what an instance of a given rank was served, with the tickets drawn and not served
  yet that will reach it, is the share of the cursor dealt to that rank (`EvenInv`);
  the shares of a cursor differ by at most one between ranks.

**Host_proofs.**
- *Pool* (`TypeCorrect`, `SlotsAccounted`, `IdleReachesWaiters`, `PhysicalBound`):
  moving one thread changes a count of threads by at most one. The accounting is
  inductive with the types; `IdleNeverStranded` needs the fact that whoever puts an
  instance back owes a signal, and that a woken thread looks at the pool before it
  sleeps again. `PhysicalBound` holds if no guest call panics (see section 7).
- *State store* (`CrashIsCheap`): one caller at a time commits and its batch is not
  empty (`CombineInv`); what is at risk is at most the run since the last durable
  commit, the run is below `FlushEvery`, and a batch with a set or a delete makes
  everything durable (`CadenceInv`). A combiner that dies and a crash keep both.

- *Quotas* (`QuotaIsKept`): until a fault, the tally is the rows plus what the
  charged writes under way will make of them (`TallyInv`). That needs one caller per
  stripe, so that the length a caller read is still the row's when its write lands,
  and a queued or answered job that belongs to the one who waits for it
  (`WritesInv`); a crash recounts. The tally never grows past a cap, and without a
  release under way the rows are no more than the tally.
- *Guest output* (`OutputIsOwn`): every line an instance holds during a call, in the
  log buffer, the bridge or the call's own hand, is of that call or of the `init`
  before it, within the budgets, and every span in the ring tells of its own call
  (`OutputInv`). Reset and drains are what keep it over a reuse.
- *Outbound* (`OutboundTypes`, `OutboundCeilings`, `OutboundPeers`): a Store that is
  half way between its own ceiling and the host's owes nothing and wants one socket
  only (`HalfWay`), and handles and stream halves exist only of live sockets
  (`HoldersLive`); with these the two counters are exact through every refusal and
  discard. A permit is given back only by a call that goes to its end, so a connection
  without one is a closing call's. An address that passes the policy is in no forbidden range whichever way
  it is wrapped, and pins are only added while a Store lives, so a peer once vouched
  for stays so.

**Serve_proofs** (about the composed `MCSpec`).
- `DrainIsSound`: live connections, the permit in each accept loop's hand and the
  free permits add up to `MAX_CONNECTIONS` (`PermitsExact`); a connection's guards
  are its task and its tunnel (`GuardsExact`), and nothing is broken before a window
  expired.
- `ClientIsReadRight`: what was read of a PROXY header is a prefix that decided
  nothing yet; the bytes passed and those remaining are the declared length.
- `TelemetryIsAccounted`: a pushed span is in exactly one place; once a name has a
  cell the registry keeps it, so the cell a task adds to and a scrape reads is the
  registry's; and requests ended, observations and the gauge differ by the tasks
  that still have an addition to make, whatever order they make them in.
- `ClientsMatchGroups`: a cache entry keeps the configuration at its key alive, and
  two live configurations never share an address, so that a hit by address is a hit
  by identity.

**Request_proofs** (about the composed `RequestSpec`).
- `RequestLimitsCover`: whatever works for a request owns a clone of its permit, and
  buffered bytes own their reservation, so the three counts are taken over owners;
  a step that starts work does so for a request that is admitted already (`Steady`).
- `RequestAttemptsSound`: between two attempts the body is whole, nothing but an
  idempotent request has reached an upstream, the pick differs from the last, and
  the backoff ends less than a cap past the deadline.
- `RequestServesAsDeclared`: an instance of any group value, published or not, was made
  with that group's policy and weight, since reconcile reuses it only then; and a probe
  under way, a streak and the healthy bit are of the instance that was asked, not of its
  address, so none of them says more than its own answers. For any addresses, sections
  and reloads; the two policies and their thresholds are those of `MCRequest`.

**Configure_proofs.**
- `CheckedLoads`: the checks that passed are those of the disk as it stands, and a
  command ended as it ends on this disk (`CheckInv`), or its reload found nothing new;
  the theorem is then that no first error of the build is one that both checks ruled
  out. What is checked says nothing of compilation, which stays among the errors left.
- `ActiveIsSound`: the registry matches the routes, every loaded filter was read from
  its pin and passed the trust gate, its bounds hold, every route has a group and its
  chain; a failed build leaves the process as it was. And the table of every Maglev
  group is full and holds every instance. The step of an instance's walk is positive and smaller
  than a prime size, so the walk meets every slot (two equal places would make the
  prime divide a smaller number) and an instance that wants a slot finds a free one.
  The fill counts exactly the slots taken, every instance has one after the first
  round, and the heaviest takes one in each round, so after `size`
  rounds at most the table is full (`FillInv`). Reconcile builds or keeps such a
  table (`ServedOK`).
- `TicketsStayInContext`, `ExpiredKeysStayDead`: a ticket's key is one that its
  context derives, and two contexts derive one key only if they agree; a copy of a
  key, in a build, in a handshake's hand or about to be read, never looks younger
  than the last write of its file (`AgesInv`).
- `ReloadTypes`, `ReloadIsSound` (about `Reload`): whoever is under way holds the gate;
  between reconcile and store the registry is ahead of the routes and matches the
  build; and what a build knows of the disk stays true while the disk does.

**Routing_proofs.**
- `BucketsAreHonest`: a bucket's time is a multiple of the interval, from the first
  clock it saw to no later than the latest, and what it has granted and still holds is
  covered by its burst and the refills up to its own time (`Covered`); so a clock that
  steps back mints nothing. A refused caller's wait is the missing tokens in whole
  intervals, rounded up, and by then they are there.
- `SplitIsSound`: while the schedule is made, the deficits sum to zero and none falls
  to minus the total, so that none is a whole pick ahead and the last entry leaves all
  at zero. As long as no upstream changed, what was served follows the schedule at the
  cursor (`ShareInv`); and a walk that starts anywhere covers the table, which has an
  entry for every positive weight.
- `OriginsAgree`: a normalised path has no segment left to decode and none to resolve,
  and such paths are closed under the strip and add of a prefix that a route does; so
  the origin reads it as it is (`RoutedInv`).

**Exchange_proofs** (for any scenario, and any chain).
- `ChainIsSound`: what each stage holds has its shape (`Shape`), ingress leaves the
  client's words alone (`IngressInv`), the hooks that have run are a prefix of the
  chain there and of its reverse back (`OrderInv`), and the readers that have run are the
  last of the chain, and what they were first shown is the whole body or, over the cap
  and where the route says so, its head (`InspectInv`).
- `MessageIsSound`: a declared length is that of the bytes, on the way there and back,
  through every replacement and rebuild, or it is the upstream's word on a body that was
  not sent (`FramingInv`); clients that get different bytes of one response get `Vary`
  and share no strong validator, short of a second `ETag` line behind a weak one.
- `HeadersAreSound`: one authority, the same for the route, the filters and the
  upstream unless a filter sets `host` (`AuthorityInv`); the attributed client is the
  peer or what trusted front proxies say, and no other is named unless a filter does
  (`HopInv`); nothing bound to one connection crosses to the next but a granted upgrade
  (`ThereClean`, `BackClean`).

What the assumptions say beyond types, positive limits and finite sets:
`FilesAssumption` (the three classes of files of a reload are disjoint, as
`build_active` reads them), `StreamsAssumption` (a stream past the prefix has a
family and a length there), `ContextsAssumption` (`build_server_configs` refuses a
shared key file beside client authentication), `DiskAssumption` (manifests are ones
the parser returns: entries in order, knobs and hashes that are numbers),
`GenuineAssumption` (nobody forges: cryptography is ideal), `ConfigAssumption` and
`ClockAssumption` (a split's weights pass its validation; rates, bursts and clocks fit
64 bits, the clock is far enough from its epoch that a zero cell reads as full),
`PathAssumption` (a target has a segment, and the empty segment has nothing to
decode), `OutputAssumption` (log budgets and the ring hold something) and
`ScenarioAssumption` (see Exchange in section 3). TLC evaluates all of them on the
runs.

Only model-checked are the liveness properties, since fairness and `ENABLED` are
outside the prover's reach: `EveryCheckoutReturns`, `EveryWriteAnswered`,
`ConnectionsEnd`, `PermitsReturn`, `ForwardEnds`, `HealthSettles`, `KeyFileSettles`,
`ShutdownEnds` and `EndpointsSettle`.

What the proofs changed in the models: the caps of the store are claimed when no
release is under way; a share is bounded ahead and not behind (section 7); a guest's
own 101 is not a switched connection; and the marker of a path that escapes the root is
one that no resolved path can equal.

## 7. Disagreements between the code and its documentation

Shown by a run:

- `pool_stranded_slot`: the trap that opens the breaker signals one waiter, which
  fails closed without passing the signal on; another waiter sleeps to its
  deadline although no instance is checked out (`pool.rs:193`).
- `reload_rotation`: certificates, keys, the STEK and config files are read for
  use and read again for the digest; a rotation in between is recorded as loaded
  and every later reload is `Unchanged` (`control/src/lib.rs:708`).
- `reload_upstream_tls`: reconcile reuses the TLS client while the section's text
  is unchanged, so an in-place rotation of its files is never picked up
  (`registry.rs:74`).

Stated in the modules, refuted by TLC when put into a cfg, and recorded here
without a run of their own:

- `PhysicalWithinCap` (InstancePool, `Failures` with `"panic"`): on an unwind the
  slot guard, a local, drops before the parameter `pooled` (`pool.rs:308`), so a
  new instance can be built while the old one is still in memory.
- `RefusedOnlyWhenFull` (CircuitBreaker): the transient `fetch_add` of a refused
  caller refuses another one below `max_requests` (`circuit_breaker.rs:28`).
- The bare percentage in Outlier: with a reload it is exceeded by one, which is
  why `EjectionCap` has the term for reloads (`outlier.rs:55`).
- `LoadIsForwards` (LbPick): the fallback of least-request hands out an unmetered
  pick (`lb.rs:240`).
- `ColdStartProbed` (HealthCheck): "an instance not yet in the map is probed now
  (cold start)" (`server/src/health.rs:36`), but the map is keyed by address, so a
  replaced instance waits out its predecessor's interval.
- `AnsweredByDeadline` (Forward): the backoff sleep is not cut by the overall
  deadline (`forward.rs:283`), which the documentation says bounds "every attempt
  PLUS the backoff"; `DeadlineWithSlack` is what holds.
- `BreakerEndsAtHeaders` (Transaction): the permit also covers the response
  chain and inspection (`proxy.rs:415`).
- `NewConnectionsNewTls` (Serve): the QUIC endpoint takes up a reload's TLS
  configuration at its next turn of the loop; a connection may come in between.
- `FlushedAtReturn` (Export): the flush deadline loses the batch in flight without
  counting it, although `host/src/otlp.rs:183` says one counter covers every loss
  path; spans left in the queue are counted and stay there.
- `ValidateCoversStartup` (Configure): `validate` accepts filter ids that
  `Host::load_inner` refuses (`host.rs:212`), which needs no artifact to be seen.
- `WithinOneOfShare` (Routing): `weighted.rs:17` says that the schedule stays within
  `< 1` of every backend's ideal count at all times. With weights 1,1,1,6,6 one of them
  is a whole pick behind at the tenth; `SharesKept` is what holds.
- `ConnectionsWithinPermits` (Outbound): `RequestLifetime` drops its permit before its
  watchdog (`outbound_http.rs:224`), so a new call may connect while the old connection
  is still being aborted, and there are more of them than `max_concurrent`.
- `TrailersPassThrough` (Exchange): a body buffered for inspection is rebuilt from
  its bytes, without the trailers that `body.rs` says "pass through untouched".

Met while reading, where the model follows the code:

- A 304 or 204 keeps the `Content-Length` its upstream stated; where a filter puts
  another status on it, `stream_response` still advertises that length with an empty
  body (`respond.rs:133`). `FramingTrue` says so.
- Of repeated `ETag`s only the first is weakened, and only if it is strong
  (`compression.rs:315`): a strong one behind a weak one stays on a coded response.
- A component that passes `validate --resolve` may still fail to compile, as
  `contract_target.rs:9` says itself.
- A target that is exactly the stripped prefix and a query is forwarded unstripped
  (`route.rs:1033`).
- `pick` of a split may return `None` although some backend was eligible at every
  moment, when eligibility moves during its walk.
- A retry hint is too early after a backward step of the clock, and when the wait
  saturates at 64 bits (a guest's cost; a native limiter asks for one token).
- "A ticket never claims to outlive the key that sealed it" (`stek.rs:107`) does
  not hold: every ticket is advertised for the whole `max_age_hours`, however old
  the key's file is.
- A failed write is not taken back from the quota tally (`quota.rs:294`); the next
  start recounts. A trusted `init` of a reload that fails later may have written
  to the store.
- A reload does not look again at `[listen]` and `[observability]`; a key file of
  `[trust]` that is edited in place makes `validate` and a reload disagree; an
  empty `allow` of outbound HTTP is accepted although its documentation asks for
  one entry.
- Collecting the collector's answer body has no timeout (`server/src/otlp.rs`).
- `/healthz` "stays 200 the whole time" (`admin.rs:127`), but the admin listener
  closes when the drain starts, unless it waits for a permit, a wait that does not
  watch the drain flag; its connections are detached and `serve` abandons it after a
  second.
- A partial stdout line is cleared at each reuse of an instance, where `stdio.rs`
  says that a later hook call may complete it; the output of `init` counts
  toward a fresh instance's first call.
- `on_response_body`'s replacement is reported as a short circuit although there
  is an outcome for it. Durations above 0.1 s fall into no bucket of the inline
  histogram.
- A forwarding header that the client's `Connection` names is dropped from what
  filters and the upstream see.
- An equal weight with identity compresses, where `negotiate` says "strictly
  greater"; a response inspected whole has no `Content-Length`, so the minimum
  length does not apply to it.
- A discarded instance's host socket slots stay taken until its aborted lookup is
  gone. `accept` reserves no socket; it cannot be reached because `listen` is
  always refused.
- A hostname that a reload removed and another re-added gets its old expansion back
  unless a refresh ran in between, which `dns.rs:119` says must not happen.

## 8. Not modelled

- **Access log, control observability**: formatting and sinks of events; what they
  count is in `Export` and `HostCalls`.
- **Wasm engines and the epoch ticker**: the library's state; a guest call is
  anything that returns, traps, unwinds or runs to its deadline.
- **Request body streaming in the host**: behind an experimental feature.
- **Developer tools, examples, fixtures, benchmarks**: no part of the proxy.
- **In part**: request metrics and span export without the text and protobuf
  encodings; the request path without the wording of its error answers and without an
  encoder that fails in the middle of a body; TLS
  material without the TLS and X.509 libraries' own state machines.

Lock poisoning and allocation failure are left out. Atomics are sequentially
consistent in all modules but `Export`, where relaxed increments become visible in
any order (so no property compares a histogram's count with its buckets during a
scrape); for the relaxed cursor of round robin the difference is only the order in
which increments are seen. Cryptography is ideal: a signature verifies under the
key that made it, a digest names one content.
