------------------------------ MODULE Manifest ------------------------------
(***************************************************************************)
(* What a manifest may say: crates/control/src/manifest and the route      *)
(* checks of crates/control/src/route.rs.  A manifest is a record with one *)
(* field per section.  An optional value is Absent when it is not given;   *)
(* "" is an empty or blank string; a knob that is only compared with zero  *)
(* is a member of the `zeros` of its section when it is zero, and where a  *)
(* knob's value matters, `limits` holds the ones the section gives.        *)
(***************************************************************************)
EXTENDS Integers, FiniteSets, Sequences, SequencesExt, Tables

CONSTANTS Absent, BadCidr,
          Features,          \* what this build was compiled with
          MaxInstanceWeight, MaxHashTableSize

Each(seq) == {seq[i] : i \in DOMAIN seq}
Distinct(seq, key(_)) ==
  \A i, j \in DOMAIN seq : key(seq[i]) = key(seq[j]) => i = j

(* [state]: redb needs a path, memory takes none.                          *)
StateValid(state) ==
  IF state.backend = "redb" THEN state.path \notin {Absent, ""} ELSE state.path = Absent

(* [listen]: a declared list of CIDRs is not empty, and each one parses.   *)
CidrsValid(cidrs) == cidrs = Absent \/ (cidrs # {} /\ BadCidr \notin cidrs)
ListenValid(listen) == CidrsValid(listen.proxy_protocol) /\ CidrsValid(listen.trusted_proxy)

(* [observability]: the exporter speaks plaintext HTTP to a base URL.      *)
ObservabilityValid(obs) == obs.otlp_endpoint \in {Absent, "http"}

(* [resumption]: one hour to seven days.                                   *)
ResumptionValid(r) == r.max_age_hours \in 1..168

(* [[filter]]: metering, isolation, rate limit and the lent capabilities.  *)
PoolKnobs == {"pool_size", "checkout_timeout_ms", "max_requests_per_instance"}
NonZeroKnobs == {"init_deadline_ms", "request_deadline_ms", "max_memory_bytes",
                 "pool_size", "max_requests_per_instance"}

RateLimitValid(rl) ==
  rl = Absent \/ (rl.capacity > 0 /\ (rl.refill > 0 => rl.interval > 0))

DestinationsValid(ob) ==
  /\ \A d \in ob.allow : d.host # "" /\ d.port # 0
  /\ BadCidr \notin ob.allow_private
  /\ \A k \in DOMAIN ob.limits : ob.limits[k] # 0
OutboundHttpValid(ob) ==
  ob = Absent \/ ("outbound-http" \in Features /\ DestinationsValid(ob))
OutboundTcpValid(ob) ==
  ob = Absent \/ ("outbound-tcp" \in Features /\ ob.allow # {} /\ DestinationsValid(ob))

FilterValid(f) ==
  /\ \A k \in DOMAIN f.limits \cap NonZeroKnobs : f.limits[k] # 0
  /\ f.isolation = "untrusted" => DOMAIN f.limits \cap PoolKnobs = {} /\ f.dispatch # "blocking"
  /\ RateLimitValid(f.ratelimit)
  /\ OutboundHttpValid(f.outbound_http) /\ OutboundTcpValid(f.outbound_tcp)
  /\ f.wasi = "minimal" => "fat-guest" \in Features

(* The global chain is not run by any serving path and must be empty.      *)
FiltersValid(m) ==
  /\ m.chain = << >>
  /\ Distinct(m.filters, LAMBDA f : f.id)
  /\ \A f \in Each(m.filters) : FilterValid(f)

(* The inline values with those of the files; `files` maps a file to its   *)
(* text, and a file that is missing, too large or not UTF-8 has none.      *)
ResolvedConfig(f, files) ==
  IF \E k \in DOMAIN f.config_files : k \in DOMAIN f.config \/ f.config_files[k] \notin DOMAIN files
  THEN Absent
  ELSE [k \in DOMAIN f.config \cup DOMAIN f.config_files |->
          IF k \in DOMAIN f.config THEN f.config[k] ELSE files[f.config_files[k]]]

(* [[upstream]]: probing, weights, and a Maglev table its hash block fits. *)
IsPrime(n) == n >= 2 /\ \A d \in 2..(n - 1) : n % d # 0

U16Max == 2^16 - 1   \* u16::MAX, the entries of a Maglev table

(* A table smaller than the group is let through.                          *)
HashValidAnySize(u) ==
  \/ u.hash = Absent /\ u.lb # "maglev"
  \/ /\ u.hash # Absent /\ u.lb = "maglev"
     /\ u.hash.key = "header" => u.hash.header \notin {Absent, ""}
     /\ u.hash.table_size <= MaxHashTableSize
     /\ IsPrime(u.hash.table_size)

HashValid(u) ==
  \/ u.hash = Absent /\ u.lb # "maglev"
  \/ /\ u.hash # Absent /\ u.lb = "maglev"
     /\ u.hash.key = "header" => u.hash.header \notin {Absent, ""}
     /\ u.hash.table_size <= MaxHashTableSize
     /\ IsPrime(u.hash.table_size)
     /\ Len(u.addresses) <= u.hash.table_size
     /\ Len(u.addresses) <= U16Max

LbValid(u) ==
  /\ u.zeros \cap {"interval_ms", "timeout_ms"} = {}
  /\ \A a \in Each(u.addresses) : a.weight \in 1..MaxInstanceWeight
  /\ HashValid(u)

UpstreamsValid(m) ==
  /\ \A u \in Each(m.upstreams) : u.addresses # << >>
  /\ Distinct(m.upstreams, LAMBDA u : u.name)
  /\ \A u \in Each(m.upstreams) : LbValid(u)

(* [[route]]: the names metrics use, the targets, and each declared block. *)
ResolvedName(r) ==
  IF r.name # Absent THEN r.name
  ELSE IF r.host # Absent THEN r.host \o r.prefix ELSE r.prefix
Unmatched == "unmatched"

Targets(r) ==
  IF (r.upstream = Absent) = (r.backends = << >>) THEN Absent
  ELSE IF r.upstream # Absent THEN << <<r.upstream, 1>> >> ELSE r.backends

UpgradeValid(u) ==
  u = Absent \/ (u # {} /\ u \cap {"", "h2c"} = {})
EssencesValid(types) == types # {} /\ "malformed" \notin types
CompressionValid(c) ==
  c = Absent \/ (c.algorithms # << >> /\ Distinct(c.algorithms, LAMBDA a : a)
                 /\ EssencesValid(c.content_types))

(* Hop-by-hop and framing headers are the host's; "bad" is not a name.     *)
Reserved == {"connection", "transfer-encoding", "content-length"}
HeadersValid(h) ==
  \/ h = Absent
  \/ /\ h.set # << >> \/ h.remove # {}
     /\ Distinct(h.set, LAMBDA p : p[1])
     /\ \A p \in Each(h.set) : p[2] # "bad"
     /\ ({p[1] : p \in Each(h.set)} \cup h.remove) \cap (Reserved \cup {"bad"}) = {}
ResponseBodyValid(b) ==
  b = Absent \/ (b.max_bytes \in {"some", "ceiling"} /\ EssencesValid(b.content_types))

RouteValid(r, ids, names) ==
  /\ r.name # "" /\ ResolvedName(r) # Unmatched
  /\ Targets(r) # Absent
  /\ \A t \in Each(Targets(r)) : t[1] \in names
  /\ ValidSplit([i \in DOMAIN Targets(r) |-> Targets(r)[i][2]])
  /\ Each(r.filters) \subseteq ids
  /\ r.limit = Absent \/ (r.limit.rate > 0 /\ r.limit.burst > 0)
  /\ UpgradeValid(r.upgrade) /\ CompressionValid(r.compression)
  /\ HeadersValid(r.headers) /\ ResponseBodyValid(r.body)

RoutesValid(m) ==
  /\ Distinct(m.routes, ResolvedName)
  /\ \A r \in Each(m.routes) :
       RouteValid(r, {f.id : f \in Each(m.filters)}, {u.name : u \in Each(m.upstreams)})
=============================================================================
