------------------------------- MODULE Outlier -------------------------------
(***************************************************************************)
(* Outlier detection of crates/control/src/upstream/outlier.rs: concurrent *)
(* forwards report their outcomes; a streak of gateway failures ejects an  *)
(* instance unless that would eject too much of the pool.  The streak      *)
(* lives under the instance's `counters` mutex, the decision under the     *)
(* group's `outlier_decision` mutex, and the first is held while the       *)
(* second is taken.  A reload builds a new group value, with a new         *)
(* decision mutex, around the same instances.  The ejection window's       *)
(* length is abstracted: an ejection expires at some later time.           *)
(***************************************************************************)
EXTENDS Integers, FiniteSets

CONSTANTS Requests,    \* concurrent forwards
          Instances,   \* the endpoint set, the same objects in every group
          Gens,        \* a bound on reloads: group values are 1..Gens
          Threshold,   \* outlier_consecutive, enabled
          Percent,     \* outlier_max_ejection_percent
          None         \* no request: a free mutex

ASSUME InstancesAssumption == IsFiniteSet(Instances)
ASSUME GensAssumption == Gens \in Nat \ {0}
ASSUME ThresholdAssumption == Threshold \in Nat \ {0}
ASSUME PercentAssumption == Percent \in 0..100
ASSUME NoneAssumption == None \notin Requests

VARIABLES current,    \* the group value new requests are routed to
          ejected,    \* instances whose ejection deadline is in the future
          gwFail,     \* consecutive_gw_fail of each instance
          counters,   \* who holds each instance's counters mutex
          decision,   \* who holds each group value's outlier_decision
          pc,         \* "idle", "flight", "tripped" or "eject"
          group,      \* the group value a request is pinned to
          inst        \* the instance a request was forwarded to

vars == <<current, ejected, gwFail, counters, decision, pc, group, inst>>

Holder == Requests \cup {None}

TypeOK ==
  /\ current \in 1..Gens
  /\ ejected \in SUBSET Instances
  /\ gwFail \in [Instances -> 0..Threshold]
  /\ counters \in [Instances -> Holder]
  /\ decision \in [1..Gens -> Holder]
  /\ pc \in [Requests -> {"idle", "flight", "tripped", "eject"}]
  /\ group \in [Requests -> 1..Gens]
  /\ inst \in [Requests -> Instances]

Init ==
  /\ current = 1
  /\ ejected = {}
  /\ gwFail = [i \in Instances |-> 0]
  /\ counters = [i \in Instances |-> None]
  /\ decision = [g \in 1..Gens |-> None]
  /\ pc = [r \in Requests |-> "idle"]
  /\ group = [r \in Requests |-> 1]
  /\ inst \in [Requests -> Instances]

(* pick on the current group: any instance that is not ejected.            *)
Pick(r) ==
  /\ pc[r] = "idle"
  /\ \E i \in Instances \ ejected : inst' = [inst EXCEPT ![r] = i]
  /\ group' = [group EXCEPT ![r] = current]
  /\ pc' = [pc EXCEPT ![r] = "flight"]
  /\ UNCHANGED <<current, ejected, gwFail, counters, decision>>

OutcomeGoodDecays(r) ==
  /\ pc[r] = "flight"
  /\ counters[inst[r]] = None
  /\ gwFail' = [gwFail EXCEPT ![inst[r]] = @ - 1]
  /\ pc' = [pc EXCEPT ![r] = "idle"]
  /\ UNCHANGED <<current, ejected, counters, decision, group, inst>>

(* record_outcome(instance, false): the streak ends.                       *)
OutcomeGood(r) ==
  /\ pc[r] = "flight"
  /\ counters[inst[r]] = None
  /\ gwFail' = [gwFail EXCEPT ![inst[r]] = 0]
  /\ pc' = [pc EXCEPT ![r] = "idle"]
  /\ UNCHANGED <<current, ejected, counters, decision, group, inst>>

(* record_outcome(instance, true), below the threshold.                    *)
OutcomeBad(r) ==
  /\ pc[r] = "flight"
  /\ counters[inst[r]] = None
  /\ gwFail[inst[r]] + 1 < Threshold
  /\ gwFail' = [gwFail EXCEPT ![inst[r]] = @ + 1]
  /\ pc' = [pc EXCEPT ![r] = "idle"]
  /\ UNCHANGED <<current, ejected, counters, decision, group, inst>>

(* record_outcome(instance, true) reaches the threshold: the counters      *)
(* mutex stays held while the decision mutex is awaited.                   *)
OutcomeTrips(r) ==
  /\ pc[r] = "flight"
  /\ counters[inst[r]] = None
  /\ gwFail[inst[r]] + 1 >= Threshold
  /\ gwFail' = [gwFail EXCEPT ![inst[r]] = Threshold]
  /\ counters' = [counters EXCEPT ![inst[r]] = r]
  /\ pc' = [pc EXCEPT ![r] = "tripped"]
  /\ UNCHANGED <<current, ejected, decision, group, inst>>

(* (already_ejected + 1) * 100 > max_ejection_percent * len                *)
CapReached ==
  (Cardinality(ejected) + 1) * 100 > Percent * Cardinality(Instances)

(* The decision mutex is free and the pool has no room for an ejection:    *)
(* the instance stays, with a fresh streak.                                *)
DecideKeep(r) ==
  /\ pc[r] = "tripped"
  /\ decision[group[r]] = None
  /\ CapReached
  /\ gwFail' = [gwFail EXCEPT ![inst[r]] = 0]
  /\ counters' = [counters EXCEPT ![inst[r]] = None]
  /\ pc' = [pc EXCEPT ![r] = "idle"]
  /\ UNCHANGED <<current, ejected, decision, group, inst>>

DecideUnserialized(r) ==
  /\ pc[r] = "tripped"
  /\ ~CapReached
  /\ pc' = [pc EXCEPT ![r] = "eject"]
  /\ UNCHANGED <<current, ejected, gwFail, counters, decision, group, inst>>

(* There is room: the decision mutex stays held until the ejection lands.  *)
DecideEject(r) ==
  /\ pc[r] = "tripped"
  /\ decision[group[r]] = None
  /\ ~CapReached
  /\ decision' = [decision EXCEPT ![group[r]] = r]
  /\ pc' = [pc EXCEPT ![r] = "eject"]
  /\ UNCHANGED <<current, ejected, gwFail, counters, group, inst>>

(* The store of outlier_ejected_until_ms, the reset, and both unlocks.     *)
Eject(r) ==
  /\ pc[r] = "eject"
  /\ ejected' = ejected \cup {inst[r]}
  /\ gwFail' = [gwFail EXCEPT ![inst[r]] = 0]
  /\ counters' = [counters EXCEPT ![inst[r]] = None]
  /\ decision' = [decision EXCEPT ![group[r]] = None]
  /\ pc' = [pc EXCEPT ![r] = "idle"]
  /\ UNCHANGED <<current, group, inst>>

(* The wall clock passes an ejection deadline.                             *)
Expire(i) ==
  /\ i \in ejected
  /\ ejected' = ejected \ {i}
  /\ UNCHANGED <<current, gwFail, counters, decision, pc, group, inst>>

(* UpstreamRegistry::reconcile with the endpoints unchanged: a new group   *)
(* value takes over the instances; requests in flight keep the old one.    *)
Reload ==
  /\ current < Gens
  /\ current' = current + 1
  /\ UNCHANGED <<ejected, gwFail, counters, decision, pc, group, inst>>

Next ==
  \/ Reload
  \/ \E i \in Instances : Expire(i)
  \/ \E r \in Requests :
       \/ Pick(r) \/ OutcomeGood(r) \/ OutcomeBad(r) \/ OutcomeTrips(r)
       \/ DecideKeep(r) \/ DecideEject(r) \/ Eject(r)

Spec == Init /\ [][Next]_vars

-----------------------------------------------------------------------------
(* At most max_ejection_percent of the pool is ejected at once, however    *)
(* many instances cross their threshold together, plus one instance for    *)
(* each reload: every group value has its own decision mutex, so a request *)
(* pinned to an older value counts without seeing the newer one's pending  *)
(* ejection.  Without a reload this is the cap itself.                     *)
EjectionCap ==
  (Cardinality(ejected) - (current - 1)) * 100 <= Percent * Cardinality(Instances)
=============================================================================
