------------------------------ MODULE Outbound ------------------------------
(***************************************************************************)
(* What a filter may reach outside.  First the policy of                   *)
(* crates/host/src/outbound.rs: which destinations an operator lets a      *)
(* filter reach, and which resolved addresses the host dials at all.  An   *)
(* address is the range it lies in and how it is written: an IPv4 address  *)
(* may come wrapped in an IPv6 one, IPv4-mapped or IPv4-compatible.  Then  *)
(* the two capabilities under it, which share no state: TCP sockets and HTTP *)
(* calls.                                                                  *)
(***************************************************************************)
EXTENDS Integers, FiniteSets

CONSTANTS Addrs,         \* addresses DNS may answer with
          Names,         \* host names
          Allow,         \* allowlist: [host, port] (the scheme is part of the port)
          AllowPrivate,  \* private ranges the operator opted into
          Nobody         \* no peer, no lookup

V4Reserved == {"loopback", "link_local", "broadcast", "multicast", "documentation",
               "this_network", "cgnat", "ietf", "benchmarking", "class_e"}
V6Reserved == {"loopback6", "unspecified6", "multicast6", "link_local6", "site_local6",
               "documentation6", "teredo", "nat64", "discard6"}
Private == {"rfc1918", "ula"}
Ranges == V4Reserved \cup V6Reserved \cup Private \cup {"global"}
Wraps == {"none", "mapped", "compat"}

ASSUME PolicyAssumption ==
  /\ Addrs \subseteq [range : Ranges, wrap : Wraps]
  /\ AllowPrivate \subseteq Private
  /\ IsFiniteSet(Allow)

CanonicalizeMapped(a) == IF a.wrap = "mapped" THEN [a EXCEPT !.wrap = "none"] ELSE a

(* canonicalize: a wrapped IPv4 address is judged as the IPv4 address      *)
Canonicalize(a) == [a EXCEPT !.wrap = "none"]

(* std's to_canonical, which knows the mapped form only                    *)
ToCanonical(a) == IF a.wrap = "mapped" THEN [a EXCEPT !.wrap = "none"] ELSE a

(* What the octet predicates see: a wrapped address matches no IPv4 range, *)
(* and none of the IPv6 ones.                                              *)
AlwaysBlocked(a) == a.wrap = "none" /\ a.range \in V4Reserved \cup V6Reserved
IsPrivate(a) == a.wrap = "none" /\ a.range \in Private

Classify(a) ==
  LET c == Canonicalize(a)
  IN  CASE AlwaysBlocked(c) -> "BlockedReserved"
        [] ~ AlwaysBlocked(c) /\ IsPrivate(c) /\ c.range \notin AllowPrivate
             -> "BlockedPrivate"
        [] OTHER -> "Allowed"

(* OutboundPolicy::allows and OutboundTcpPolicy::allows_name               *)
Allows(host, port) == \E e \in Allow : e.host = host /\ e.port = port
AllowsName(host) == \E e \in Allow : e.host = host

(* What no peer may be, however it is written.                             *)
Forbidden(a) ==
  \/ a.range \in V4Reserved \cup V6Reserved
  \/ a.range \in Private \ AllowPrivate

-----------------------------------------------------------------------------
(* crates/host/src/outbound_tcp.rs: the TCP sockets the host lends to      *)
(* filter instances (Stores).  A socket is reserved against the Store and  *)
(* then against the whole host; names are resolved by the host, vetted and *)
(* pinned; a connect must go to a pinned or literally listed address and   *)
(* within the request's budget; the reservation ends with the socket and   *)
(* the stream halves that share its descriptor.  A Store runs one guest    *)
(* call at a time, Stores run side by side.                                *)

CONSTANTS Stores, Socks,       \* instances, and the handles of one, given out from 1
          StoreCap, HostCap,   \* MAX_LIVE_TCP_SOCKETS_PER_STORE, _PER_HOST
          MaxConnections,      \* the request's connect budget
          MaxPinned,           \* MAX_PINNED_IPS
          MaxLookups           \* bound on the lookups under way

ASSUME SocketsAssumption ==
  /\ IsFiniteSet(Stores) /\ IsFiniteSet(Socks) /\ Socks \subseteq Nat
  /\ StoreCap \in Nat /\ HostCap \in Nat /\ MaxConnections \in Nat

VARIABLES used,      \* TcpSocketQuota::used
          live_sockets,      \* GuardInner::live_sockets, by Store
          owed,      \* host slots a Store is about to give back
          sock,      \* the sockets of a Store
          pinned,    \* GuardInner::pinned: <<address, name>>
          connects,  \* GuardInner::connects
          looking    \* the name a lookup of the Store is about, or "aborted" with its Store

tcpVars == <<used, live_sockets, owed, sock, pinned, connects, looking>>

Free == [st |-> "free", p3 |-> FALSE, handle |-> FALSE, halves |-> 0, peer |-> Nobody]
Sockets == [st : {"free", "wanted", "live"}, p3 : BOOLEAN, handle : BOOLEAN,
            halves : 0..2, peer : (Addrs \X {e.port : e \in Allow}) \cup {Nobody}]

TcpTypeOK ==
  /\ used \in Nat /\ live_sockets \in [Stores -> Nat] /\ owed \in [Stores -> Nat]
  /\ sock \in [Stores -> [Socks -> Sockets]]
  /\ pinned \in [Stores -> SUBSET (({ToCanonical(a) : a \in Addrs}) \X Names)]
  /\ connects \in [Stores -> 0..MaxConnections]
  /\ looking \in [Stores -> Names \cup {Nobody, "aborted"}]

TcpInit ==
  /\ used = 0
  /\ live_sockets = [s \in Stores |-> 0] /\ owed = [s \in Stores |-> 0]
  /\ sock = [s \in Stores |-> [k \in Socks |-> Free]]
  /\ pinned = [s \in Stores |-> {}]
  /\ connects = [s \in Stores |-> 0] /\ looking = [s \in Stores |-> Nobody]

(* No host call of the Store is half way.                                  *)
AtRest(s) ==
  /\ owed[s] = 0 /\ looking[s] # "aborted"
  /\ \A k \in Socks : sock[s][k].st \in {"free", "live"}

Set(s, k, r) == sock' = [sock EXCEPT ![s][k] = r]

(* create_tcp_socket (0.2) or create (0.3): the Store's slot first         *)
ReserveStore(s, k, p3) ==
  /\ sock[s][k].st = "free" /\ \A j \in Socks : j < k => sock[s][j].st # "free"
  /\ live_sockets[s] < StoreCap
  /\ live_sockets' = [live_sockets EXCEPT ![s] = @ + 1]
  /\ Set(s, k, [Free EXCEPT !.st = "wanted", !.p3 = p3])
  /\ UNCHANGED <<used, owed, pinned, connects, looking>>

(* then the host's                                                         *)
ReserveHost(s, k) == sock[s][k].st = "wanted" /\ used < HostCap /\ used' = used + 1

RefuseForgetful(s, k) ==
  /\ sock[s][k].st = "wanted" /\ used >= HostCap
  /\ Set(s, k, Free)
  /\ UNCHANGED <<used, live_sockets, owed, pinned, connects, looking>>

(* refused by the host: the Store's slot goes back                         *)
Refuse(s, k) ==
  /\ sock[s][k].st = "wanted" /\ used >= HostCap
  /\ live_sockets' = [live_sockets EXCEPT ![s] = @ - 1]
  /\ Set(s, k, Free)
  /\ UNCHANGED <<used, owed, pinned, connects, looking>>

(* The socket is made; nobody else can tell that from its reservation.     *)
Created(s, k) ==
  /\ ReserveHost(s, k)
  /\ Set(s, k, [sock[s][k] EXCEPT !.st = "live", !.handle = TRUE])
  /\ UNCHANGED <<live_sockets, owed, pinned, connects, looking>>

(* release_live_socket: the Store's slot, then the host's                  *)
Release(s) ==
  IF live_sockets[s] > 0
  THEN live_sockets' = [live_sockets EXCEPT ![s] = @ - 1] /\ owed' = [owed EXCEPT ![s] = 1]
  ELSE UNCHANGED <<live_sockets, owed>>

(* the operating system or the table has no socket to give                 *)
CreateFails(s, k) ==
  /\ ReserveHost(s, k)
  /\ Set(s, k, Free)
  /\ Release(s)
  /\ UNCHANGED <<pinned, connects, looking>>

(* TcpSocketQuota::release, which never goes below zero.  A lookup shares  *)
(* the guard of its Store: until the aborted task is gone, Drop has not    *)
(* run and the slots of a discarded instance stay taken.                   *)
ReleaseHost(s) ==
  /\ owed[s] > 0 /\ looking[s] # "aborted"
  /\ used' = IF used >= owed[s] THEN used - owed[s] ELSE used
  /\ owed' = [owed EXCEPT ![s] = 0]
  /\ UNCHANGED <<live_sockets, sock, pinned, connects, looking>>

(* resolve_addresses: an allowlisted name is looked up by a task of its    *)
(* own (0.2) or beside the guest's other tasks (0.3), which ends while the *)
(* Store does anything else, in a later request too.                       *)
ResolveAddresses(s, name) ==
  /\ Cardinality({t \in Stores : looking[t] # Nobody}) < MaxLookups
  /\ looking[s] = Nobody
  /\ AllowsName(name)
  /\ looking' = [looking EXCEPT ![s] = name]
  /\ UNCHANGED <<used, live_sockets, owed, sock, pinned, connects>>

(* resolve_vetted: every address of the answer allowed, and room in the    *)
(* pin table (addresses before the full one stay pinned).                  *)
Vetted(answer) == answer # {} /\ \A a \in answer : Classify(ToCanonical(a)) = "Allowed"
ResolveVetted(s, answer) ==
  /\ looking[s] \in Names /\ Vetted(answer)
  /\ looking' = [looking EXCEPT ![s] = Nobody]
  /\ LET all == {ToCanonical(a) : a \in answer}
         now == {p[1] : p \in pinned[s]}
     IN  \E kept \in SUBSET all :
           /\ Cardinality(now \cup kept) <= MaxPinned
           /\ \/ kept = all
              \/ Cardinality(now \cup kept) = MaxPinned /\ ~ all \subseteq now \cup kept
           /\ pinned' = [pinned EXCEPT ![s] = @ \cup {<<a, looking[s]>> : a \in kept}]
  /\ UNCHANGED <<used, live_sockets, owed, sock, connects>>

(* No answer, an empty one, or one with an address that is not allowed.    *)
ResolveFails(s) ==
  /\ looking[s] \in Names
  /\ looking' = [looking EXCEPT ![s] = Nobody]
  /\ UNCHANGED <<used, live_sockets, owed, sock, pinned, connects>>

(* The guest drops the stream of a lookup that is under way: the task is   *)
(* aborted.                                                                *)
DropResolveStream(s) ==
  /\ looking[s] \in Names
  /\ looking' = [looking EXCEPT ![s] = Nobody]
  /\ UNCHANGED <<used, live_sockets, owed, sock, pinned, connects>>

(* TcpGuard::permits for a TCP connect; the wildcard bind passes, every    *)
(* other use of an address is refused.                                     *)
Permits(s, a, port) ==
  LET ip == ToCanonical(a)
  IN  /\ Classify(ip) = "Allowed"
      /\ \E e \in Allow : /\ e.port = port
                          /\ e.host = ip \/ <<ip, e.host>> \in pinned[s]
      /\ connects[s] < MaxConnections

(* start_connect .. finish_connect: 0.2 sockets get both streams at once   *)
Connect(s, k, a, port) ==
  /\ sock[s][k].handle /\ sock[s][k].peer = Nobody
  /\ Permits(s, a, port)
  /\ connects' = [connects EXCEPT ![s] = @ + 1]
  /\ Set(s, k, [sock[s][k] EXCEPT !.peer = <<a, port>>,
                                  !.halves = IF sock[s][k].p3 THEN 0 ELSE 2])
  /\ UNCHANGED <<used, live_sockets, owed, pinned, looking>>

(* 0.3 send and receive: a half that shares the socket's lease             *)
OpenHalf(s, k) ==
  /\ sock[s][k].p3 /\ sock[s][k].handle /\ sock[s][k].peer # Nobody
  /\ sock[s][k].halves < 2
  /\ Set(s, k, [sock[s][k] EXCEPT !.halves = @ + 1])
  /\ UNCHANGED <<used, live_sockets, owed, pinned, connects, looking>>

(* The last of the lease's holders gives the reservation back.             *)
Let(s, k, r) ==
  IF ~ r.handle /\ r.halves = 0
  THEN Set(s, k, Free) /\ Release(s)
  ELSE Set(s, k, r) /\ UNCHANGED <<live_sockets, owed>>

DropHalf(s, k) ==
  /\ sock[s][k].halves > 0
  /\ Let(s, k, [sock[s][k] EXCEPT !.halves = @ - 1])
  /\ UNCHANGED <<used, pinned, connects, looking>>

(* a 0.2 socket with live streams cannot be dropped: HasChildren           *)
DropHandle(s, k) ==
  /\ sock[s][k].handle
  /\ ~ sock[s][k].p3 => sock[s][k].halves = 0
  /\ Let(s, k, [sock[s][k] EXCEPT !.handle = FALSE])
  /\ UNCHANGED <<used, pinned, connects, looking>>

(* TcpGuard::begin_request                                                 *)
BeginRequest(s) ==
  /\ connects[s] > 0
  /\ connects' = [connects EXCEPT ![s] = 0]
  /\ UNCHANGED <<used, live_sockets, owed, sock, pinned, looking>>

(* The instance is discarded: its table closes every descriptor, then the  *)
(* guard's Drop returns what is still counted.  A new guard starts empty.  *)
Discard(s) ==
  /\ sock' = [sock EXCEPT ![s] = [k \in Socks |-> Free]]
  /\ owed' = [owed EXCEPT ![s] = live_sockets[s]]
  /\ live_sockets' = [live_sockets EXCEPT ![s] = 0]
  /\ pinned' = [pinned EXCEPT ![s] = {}]
  /\ connects' = [connects EXCEPT ![s] = 0]
  /\ looking' = [looking EXCEPT ![s] = IF @ = Nobody THEN @ ELSE "aborted"]
  /\ UNCHANGED used
AbortedTaskEnds(s) ==
  /\ looking[s] = "aborted" /\ looking' = [looking EXCEPT ![s] = Nobody]
  /\ UNCHANGED <<used, live_sockets, owed, sock, pinned, connects>>

(* A guest call, the next request or the end of the instance: a Store does *)
(* one of them at a time.                                                  *)
SocketStep(s) ==
  \/ \E k \in Socks : \/ \E p3 \in BOOLEAN : ReserveStore(s, k, p3)
                      \/ \E a \in Addrs, e \in Allow : Connect(s, k, a, e.port)
                      \/ OpenHalf(s, k) \/ DropHalf(s, k) \/ DropHandle(s, k)
  \/ \E n \in Names : ResolveAddresses(s, n)
  \/ DropResolveStream(s) \/ BeginRequest(s) \/ Discard(s)

TcpNext ==
  \E s \in Stores :
    \/ AtRest(s) /\ SocketStep(s)
    \/ \E k \in Socks : Refuse(s, k) \/ Created(s, k) \/ CreateFails(s, k)
    \/ \E answer \in SUBSET Addrs : ResolveVetted(s, answer)
    \/ ResolveFails(s) \/ AbortedTaskEnds(s) \/ ReleaseHost(s)

(* The descriptors a filter can reach, and the host slots whose release is *)
(* under way.                                                              *)
Descriptors == {d \in Stores \X Socks : sock[d[1]][d[2]].st = "live"}
Unsettled == UNION {{s} \X (1..owed[s]) : s \in Stores}
Taken(s) == {k \in Socks : sock[s][k].st # "free"}

(* Every descriptor a filter can reach is counted against its Store and    *)
(* against the host, once, and nothing else is: neither a refusal half way *)
(* nor streams that outlive their socket nor a discarded instance shifts   *)
(* the counters, so the host never holds more sockets than its ceiling.    *)
SocketsAccounted ==
  /\ \A s \in Stores : live_sockets[s] = Cardinality(Taken(s))
  /\ used = Cardinality(Descriptors) + Cardinality(Unsettled)
  /\ used <= HostCap

(* Every TCP peer of a filter is an address that no wrapping hides, listed *)
(* for its port by itself or by a name the host resolved to it.            *)
TcpPeersVetted ==
  \A s \in Stores, k \in Socks :
    LET peer == sock[s][k].peer
    IN  peer # Nobody =>
          /\ ~ Forbidden(peer[1])
          /\ \E e \in Allow : /\ e.port = peer[2]
                              /\ e.host = ToCanonical(peer[1])
                                 \/ <<ToCanonical(peer[1]), e.host>> \in pinned[s]

-----------------------------------------------------------------------------
(* crates/host/src/outbound_http.rs: the HTTP calls of one filter.  A call *)
(* takes a permit, resolves and vets its host, dials the address it        *)
(* vetted, spawns the connection's driver and hands the guest a body that  *)
(* owns permit and driver until it ends, fails, is dropped or is polled    *)
(* after the call's one absolute deadline; a watchdog ends the driver at   *)
(* that deadline whether or not the guest polls.  The permit goes first    *)
(* and the driver is only told to stop: until the runtime has dropped the  *)
(* watchdog and then the driver, the connection is there without a permit. *)

CONSTANTS Calls,           \* calls the guest instances of the filter make
          MaxConcurrent    \* OutboundPolicy::max_concurrent

ASSUME CallsAssumption == IsFiniteSet(Calls) /\ MaxConcurrent \in Nat

VARIABLES phase,    \* "idle", "resolve", "connect", "send", "body", "closing"
          permit,   \* the calls that hold a permit of the semaphore
          driver,   \* the calls whose connection driver runs
          overdue,  \* the calls whose deadline has passed
          dialed    \* the address a call dialed

httpVars == <<phase, permit, driver, overdue, dialed>>

HttpTypeOK ==
  /\ phase \in [Calls -> {"idle", "resolve", "connect", "send", "body", "closing"}]
  /\ permit \subseteq Calls /\ driver \subseteq Calls /\ overdue \subseteq Calls
  /\ dialed \in [Calls -> Addrs \cup {Nobody}]

HttpInit ==
  /\ phase = [c \in Calls |-> "idle"]
  /\ permit = {} /\ driver = {} /\ overdue = {}
  /\ dialed = [c \in Calls |-> Nobody]

(* The future or the body is gone: the permit is back, and the abort of    *)
(* the driver is asked for.                                                *)
Drop(c) ==
  /\ permit' = permit \ {c} /\ overdue' = overdue \ {c}
  /\ IF c \in driver
     THEN phase' = [phase EXCEPT ![c] = "closing"] /\ UNCHANGED dialed
     ELSE phase' = [phase EXCEPT ![c] = "idle"] /\ dialed' = [dialed EXCEPT ![c] = Nobody]
  /\ UNCHANGED driver

(* The aborts of watchdog and driver have taken effect, or the driver      *)
(* ended by itself before they did.                                        *)
AbortEnds(c) ==
  /\ phase[c] = "closing"
  /\ phase' = [phase EXCEPT ![c] = "idle"]
  /\ driver' = driver \ {c}
  /\ dialed' = [dialed EXCEPT ![c] = Nobody]
  /\ UNCHANGED <<permit, overdue>>

(* dispatch: deadline, scheme, authority, allowlist, permit.  A call that  *)
(* fails one of them is answered with its error and nothing changes.       *)
Dispatch(c, host, port) ==
  /\ phase[c] = "idle"
  /\ Allows(host, port)
  /\ Cardinality(permit) < MaxConcurrent
  /\ permit' = permit \cup {c}
  /\ phase' = [phase EXCEPT ![c] = "resolve"]
  /\ UNCHANGED <<driver, overdue, dialed>>

(* resolve_and_connect: all addresses vetted, the first of them dialed     *)
Resolve(c, answer) ==
  /\ phase[c] = "resolve" /\ c \notin overdue
  /\ \A a \in answer : Classify(a) = "Allowed"
  /\ \E a \in answer : dialed' = [dialed EXCEPT ![c] = a]
  /\ phase' = [phase EXCEPT ![c] = "connect"]
  /\ UNCHANGED <<permit, driver, overdue>>

(* connect, TLS and handshake: the driver is spawned                       *)
Connected(c) ==
  /\ phase[c] = "connect" /\ c \notin overdue
  /\ phase' = [phase EXCEPT ![c] = "send"]
  /\ driver' = driver \cup {c}
  /\ UNCHANGED <<permit, overdue, dialed>>

(* A DNS error, an empty or a prohibited answer, a refused or slow         *)
(* connect, a failed handshake or send; the guest cancels; or the deadline *)
(* fires around all of it.                                                 *)
SendEnds(c) ==
  /\ phase[c] \in {"resolve", "connect", "send"}
  /\ Drop(c)

(* the response head arrives: the guest holds the body                     *)
Headers(c) ==
  /\ phase[c] = "send" /\ c \notin overdue
  /\ phase' = [phase EXCEPT ![c] = "body"]
  /\ UNCHANGED <<permit, driver, overdue, dialed>>

Deadline(c) ==
  /\ phase[c] \notin {"idle", "closing"} /\ c \notin overdue
  /\ overdue' = overdue \cup {c}
  /\ UNCHANGED <<phase, permit, driver, dialed>>

(* timeout_at: the send is dropped at the deadline                         *)
SendTimesOut(c) == c \in overdue /\ SendEnds(c)

WatchdogWhenPolled(c) == FALSE

(* The driver's task ends: the peer closed, or its work is done.           *)
DriverEnds(c) ==
  /\ phase[c] \in {"send", "body"} /\ c \in driver
  /\ driver' = driver \ {c}
  /\ UNCHANGED <<phase, permit, overdue, dialed>>

(* watch_driver_until_deadline: the deadline ends the driver of a body     *)
(* that nobody polls.                                                      *)
Watchdog(c) == c \in overdue /\ phase[c] = "body" /\ DriverEnds(c)

(* The body ends, fails (its size cap, a late frame, the peer, a poll past *)
(* the deadline) or is dropped by the guest.                               *)
BodyEnds(c) ==
  /\ phase[c] = "body"
  /\ Drop(c)

HttpNext ==
  \E c \in Calls :
    \/ \E e \in Allow : Dispatch(c, e.host, e.port)
    \/ \E answer \in SUBSET Addrs : Resolve(c, answer)
    \/ Connected(c) \/ SendEnds(c) \/ Headers(c) \/ Deadline(c)
    \/ SendTimesOut(c) \/ DriverEnds(c) \/ Watchdog(c) \/ BodyEnds(c) \/ AbortEnds(c)

(* The timers fire and the runtime drops what was aborted; the guest may   *)
(* never poll or drop its body.                                            *)
HttpFairness ==
  \A c \in Calls : /\ WF_httpVars(Deadline(c))
                   /\ WF_httpVars(SendTimesOut(c))
                   /\ WF_httpVars(Watchdog(c))
                   /\ WF_httpVars(AbortEnds(c))

(* A call that is alive has a connection only with a permit, even one      *)
(* whose response the guest keeps without reading: beyond max_concurrent   *)
(* there are only connections whose abort is under way.                    *)
ConnectionsCovered ==
  /\ {c \in driver : phase[c] # "closing"} \subseteq permit
  /\ Cardinality(permit) <= MaxConcurrent

(* RequestLifetime drops its permit before its watchdog, whose abort takes *)
(* effect later, so the bound is not one on connections.  Refuted: a call  *)
(* that starts meanwhile connects beside the one that is closing.          *)
ConnectionsWithinPermits == Cardinality(driver) <= MaxConcurrent

HttpPeersVetted == \A c \in Calls : dialed[c] # Nobody => ~ Forbidden(dialed[c])

(* A connection does not outlive its call's deadline by more than the      *)
(* timer takes, whatever the guest does with the body.                     *)
ConnectionsEnd == \A c \in Calls : c \in driver ~> c \notin driver
=============================================================================
