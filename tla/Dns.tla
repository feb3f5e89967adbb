-------------------------------- MODULE Dns ---------------------------------
(***************************************************************************)
(* Periodic re-resolution of an upstream's hostnames                       *)
(* (crates/server/src/dns.rs, update_endpoints of                          *)
(* crates/control/src/upstream/mod.rs) beside the reloads that replace the *)
(* group it resolves for (crates/control/src/upstream/registry.rs).  One   *)
(* upstream name; its group values are numbered, and a cache belongs to    *)
(* the supervisor's entry for the name, not to a group value.              *)
(***************************************************************************)
EXTENDS Integers, FiniteSets

CONSTANTS Hosts,        \* hostnames an upstream may declare
          Answers,      \* what DNS may answer: non-empty sets of addresses
          MaxGroups,    \* bound on the group values reloads build
          MaxChanges    \* bound on changes of DNS

Failed == {}
NoGroup == 0
Groups == 1..MaxGroups
Caches == 1..MaxGroups

VARIABLES dns,         \* per host, what a lookup answers now
          changes,
          current,     \* the registry's group value for the name
          built,       \* group values built so far
          configured,  \* per group, the hosts it declares
          endpoints,   \* per group, its endpoint set: addresses and unresolved hosts
          cacheOf,     \* last_good's entry for the name, 0 for none
          lastGood,    \* per cache and host, the last expansion
          spawned,     \* refresh tasks that have not reached their try_lock
          refresh      \* per cache, the refresh that holds it

dnsVars == <<dns, changes, current, built, configured, endpoints, cacheOf, lastGood, spawned, refresh>>

Idle == [group |-> NoGroup, todo |-> {}, found |-> {}]

DnsInit ==
  /\ dns \in [Hosts -> Answers \cup {Failed}] /\ changes = 0
  /\ current = NoGroup /\ built = 0
  /\ configured = [g \in Groups |-> {}] /\ endpoints = [g \in Groups |-> {}]
  /\ cacheOf = 0 /\ lastGood = [k \in Caches |-> [h \in Hosts |-> Failed]]
  /\ spawned = {} /\ refresh = [k \in Caches |-> Idle]

DnsChanges ==
  /\ changes < MaxChanges /\ changes' = changes + 1
  /\ \E h \in Hosts, a \in Answers \cup {Failed} : dns[h] # a /\ dns' = [dns EXCEPT ![h] = a]
  /\ UNCHANGED <<current, built, configured, endpoints, cacheOf, lastGood, spawned, refresh>>

(* reconcile builds a new group value.  The endpoint set is carried over   *)
(* when the declared addresses are the same and the reload left the rest   *)
(* that decides it alone (`asBefore`: weights, health policy, TLS, the     *)
(* algorithm and its table size); else it is the hosts themselves.  The    *)
(* groups here resolve: an upstream whose interval becomes 0 is gone for   *)
(* the supervisor, and one whose interval was 0 has nothing to carry.      *)
Carry(hosts, asBefore) ==
  current # NoGroup /\ asBefore /\ configured[current] = hosts
Reconcile(hosts, asBefore) ==
  /\ built < MaxGroups /\ built' = built + 1 /\ current' = built'
  /\ configured' = [configured EXCEPT ![built'] = hosts]
  /\ endpoints' = [endpoints EXCEPT ![built'] =
                     IF Carry(hosts, asBefore) THEN endpoints[current] ELSE hosts]
  /\ UNCHANGED <<dns, changes, cacheOf, lastGood, spawned, refresh>>
Remove ==
  /\ current # NoGroup /\ built < MaxGroups /\ current' = NoGroup
  /\ UNCHANGED <<dns, changes, built, configured, endpoints, cacheOf, lastGood, spawned, refresh>>

(* refresh_tick for a due group: a cache of the name's own and a task that *)
(* has the group value of this moment.  A name that is gone loses its      *)
(* cache; a refresh that still holds it keeps it alive for itself.         *)
CacheFor == IF cacheOf # 0 THEN cacheOf ELSE current
Tick ==
  /\ current # NoGroup
  /\ cacheOf' = CacheFor /\ spawned' = spawned \cup {<<current, CacheFor>>}
  /\ UNCHANGED <<dns, changes, current, built, configured, endpoints, lastGood, refresh>>
TickGone ==
  /\ current = NoGroup /\ cacheOf # 0 /\ cacheOf' = 0
  /\ UNCHANGED <<dns, changes, current, built, configured, endpoints, lastGood, spawned, refresh>>

(* The spawned task: try_lock, and refresh_group's retain.                 *)
Start(t) ==
  /\ t \in spawned /\ spawned' = spawned \ {t} /\ refresh[t[2]] = Idle
  /\ lastGood' = [lastGood EXCEPT ![t[2]] =
                    [h \in Hosts |-> IF h \in configured[t[1]] THEN @[h] ELSE Failed]]
  /\ refresh' = [refresh EXCEPT ![t[2]] =
                   [group |-> t[1], todo |-> configured[t[1]], found |-> {}]]
  /\ UNCHANGED <<dns, changes, current, built, configured, endpoints, cacheOf>>
Skip(t) ==
  /\ t \in spawned /\ spawned' = spawned \ {t} /\ refresh[t[2]] # Idle
  /\ UNCHANGED <<dns, changes, current, built, configured, endpoints, cacheOf, lastGood, refresh>>

(* One lookup: a failed or empty one keeps the last good expansion, or the *)
(* hostname when there is none.                                            *)
Expansion(k, h, answer) ==
  IF answer # Failed THEN answer
  ELSE IF lastGood[k][h] # Failed THEN lastGood[k][h] ELSE {h}
Lookup(k, h) ==
  /\ h \in refresh[k].todo
  /\ refresh' = [refresh EXCEPT ![k].todo = @ \ {h},
                                ![k].found = @ \cup Expansion(k, h, dns[h])]
  /\ lastGood' = [lastGood EXCEPT ![k][h] = IF dns[h] # Failed THEN dns[h] ELSE @]
  /\ UNCHANGED <<dns, changes, current, built, configured, endpoints, cacheOf, spawned>>

(* update_endpoints, on the group value the refresh began with.            *)
UnchangedByLength(old, new) == Cardinality(old) = Cardinality(new)

UnchangedSet(old, new) == old = new

Swap(k) ==
  /\ refresh[k] # Idle /\ refresh[k].todo = {}
  /\ LET g == refresh[k].group
     IN endpoints' = IF UnchangedSet(endpoints[g], refresh[k].found) THEN endpoints
                     ELSE [endpoints EXCEPT ![g] = refresh[k].found]
  /\ refresh' = [refresh EXCEPT ![k] = Idle]
  /\ UNCHANGED <<dns, changes, current, built, configured, cacheOf, lastGood, spawned>>

Supervisor == Tick \/ TickGone
BeginRefresh == \E t \in Groups \X Caches : Start(t) \/ Skip(t)
RefreshStep == \E k \in Caches : Swap(k) \/ \E h \in Hosts : Lookup(k, h)
DnsNext == DnsChanges \/ Remove
           \/ (\E hs \in (SUBSET Hosts) \ {{}}, asBefore \in BOOLEAN : Reconcile(hs, asBefore))
           \/ Supervisor \/ BeginRefresh \/ RefreshStep

(* Ticks come by the clock, spawned tasks get to run, and a lookup ends,   *)
(* with an answer or a failure.                                            *)
DnsFairness == WF_dnsVars(Supervisor) /\ WF_dnsVars(BeginRefresh) /\ WF_dnsVars(RefreshStep)

(* Whatever refreshes and reloads cross, the group in force ends up with   *)
(* what DNS says of its hosts: no swap on a replaced group value, no       *)
(* skipped tick and no shared cache leaves it behind for good.             *)
Settled ==
  current # NoGroup =>
    \A h \in configured[current] : dns[h] # Failed => dns[h] \subseteq endpoints[current]
EndpointsSettle == <>[]Settled
=============================================================================
