-------------------------- MODULE UpstreamClients ---------------------------
(***************************************************************************)
(* The cache of pooled TLS clients (crates/server/src/upstream_client.rs), *)
(* keyed by the address of a configuration's Arc.  An address is free      *)
(* again once nothing refers to the configuration there: not the section    *)
(* registry, not a request that still has its group, not the cache.        *)
(***************************************************************************)
EXTENDS Integers, FiniteSets

CONSTANTS Requests, Addresses,
          MaxClients,    \* MAX_TLS_CLIENTS
          MaxConfigs     \* bound on the [upstream.tls] sections reloads bring

ASSUME ClientsAssumption == MaxClients \in Nat \ {0} /\ MaxConfigs \in Nat

NoConfig == 0
Configs == 1..MaxConfigs

VARIABLES at,        \* per configuration, its address while it is allocated
          section,    \* the configuration in force, NoConfig for plain http
          newest,
          held,      \* per request, the configuration of its group
          step,      \* per request: "start", "missed", "sending"
          cache,     \* the map's keys
          retained, made,  \* per key, the configuration stored with it and the one its client has
          client     \* per request, the configuration of the client it got

clientVars == <<at, section, newest, held, step, cache, retained, made, client>>

ClientsInit ==
  /\ at = [c \in Configs |-> 0] /\ section = NoConfig /\ newest = 0
  /\ held = [r \in Requests |-> NoConfig] /\ step = [r \in Requests |-> "idle"]
  /\ cache = {} /\ retained = [a \in Addresses |-> NoConfig] /\ made = [a \in Addresses |-> NoConfig]
  /\ client = [r \in Requests |-> NoConfig]

(* Who keeps a configuration's allocation alive.                           *)
RetainedByNone == {}

RetainedByCache == {retained[a] : a \in cache}

Alive == {section} \cup {held[r] : r \in Requests} \cup RetainedByCache
Taken == {at[c] : c \in Alive \cap Configs}

(* A reload that changes the section allocates a configuration wherever    *)
(* the heap has room; an unchanged section keeps its Arc.                  *)
ReloadTls ==
  /\ newest < MaxConfigs /\ newest' = newest + 1 /\ section' = newest'
  /\ \E a \in Addresses \ Taken : at' = [at EXCEPT ![newest'] = a]
  /\ UNCHANGED <<held, step, cache, retained, made, client>>
ReloadPlain ==
  /\ section # NoConfig /\ section' = NoConfig
  /\ UNCHANGED <<at, newest, held, step, cache, retained, made, client>>

TakeGroup(r) ==
  /\ step[r] = "idle"
  /\ held' = [held EXCEPT ![r] = section] /\ step' = [step EXCEPT ![r] = "start"]
  /\ UNCHANGED <<at, section, newest, cache, retained, made, client>>

(* for_group: the plain client, a hit under the read lock, or a client     *)
(* built outside any lock and entered under the write lock, which clears a *)
(* full map and keeps an entry somebody else made first.                   *)
Key(r) == at[held[r]]
Plain(r) ==
  /\ step[r] = "start" /\ held[r] = NoConfig
  /\ step' = [step EXCEPT ![r] = "sending"] /\ client' = [client EXCEPT ![r] = NoConfig]
  /\ UNCHANGED <<at, section, newest, held, cache, retained, made>>
Hit(r) ==
  /\ step[r] = "start" /\ held[r] # NoConfig /\ Key(r) \in cache
  /\ step' = [step EXCEPT ![r] = "sending"] /\ client' = [client EXCEPT ![r] = made[Key(r)]]
  /\ UNCHANGED <<at, section, newest, held, cache, retained, made>>
Miss(r) ==
  /\ step[r] = "start" /\ held[r] # NoConfig /\ Key(r) \notin cache
  /\ step' = [step EXCEPT ![r] = "missed"]
  /\ UNCHANGED <<at, section, newest, held, cache, retained, made, client>>
Insert(r) ==
  /\ step[r] = "missed" /\ step' = [step EXCEPT ![r] = "sending"]
  /\ LET kept == IF Cardinality(cache) >= MaxClients THEN {} ELSE cache
         new == Key(r) \notin kept
     IN /\ cache' = kept \cup {Key(r)}
        /\ retained' = IF new THEN [retained EXCEPT ![Key(r)] = held[r]] ELSE retained
        /\ made' = IF new THEN [made EXCEPT ![Key(r)] = held[r]] ELSE made
  /\ client' = [client EXCEPT ![r] = made'[Key(r)]]
  /\ UNCHANGED <<at, section, newest, held>>
Done(r) ==
  /\ step[r] = "sending"
  /\ step' = [step EXCEPT ![r] = "idle"] /\ held' = [held EXCEPT ![r] = NoConfig]
  /\ UNCHANGED <<at, section, newest, cache, retained, made, client>>

ClientsNext ==
  \/ ReloadTls \/ ReloadPlain
  \/ \E r \in Requests : TakeGroup(r) \/ Plain(r) \/ Hit(r) \/ Miss(r) \/ Insert(r) \/ Done(r)

(* A request is sent with its own group's roots, names and certificates:   *)
(* never with a client built for a configuration that once lived at the    *)
(* same address.                                                           *)
ClientMatchesGroup == \A r \in Requests : step[r] = "sending" => client[r] = held[r]
=============================================================================
