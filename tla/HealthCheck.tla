----------------------------- MODULE HealthCheck -----------------------------
(***************************************************************************)
(* Active and passive health of one upstream: the per-instance state       *)
(* machine of crates/control/src/upstream/instance.rs, the supervisor of   *)
(* crates/server/src/health.rs that probes on its own clock, the forwards  *)
(* that report connect failures, and reloads, which rebuild the group and  *)
(* keep or replace its instances (registry.rs).  An instance is an object: *)
(* probes and forwards keep the one they started with.  The group resolves *)
(* no names (resolve_interval is zero); Dns has the groups that do.        *)
(***************************************************************************)
EXTENDS Integers, FiniteSets

CONSTANTS Addrs,      \* addresses a manifest may declare
          Policies,   \* health policy and [upstream.tls] of a manifest
          Good,       \* healthy_threshold of each policy
          Bad,        \* unhealthy_threshold of each policy
          Sections,   \* [[upstream]] sections a manifest may have, [policy, weight]
          Requests,   \* concurrent forwards
          Gens,       \* a bound on reloads: group values are 1..Gens
          MaxProbes,  \* a bound on probes of one instance under way
          MaxFlips    \* a bound on changes of the backends

(* Weight 0 is an address that a section does not list.                    *)
Listed(d) == {a \in Addrs : d.weight[a] > 0}

BoundsOK == /\ Gens \in Nat \ {0}
            /\ Sections \subseteq [policy : Policies, weight : [Addrs -> Nat]]
            /\ \A d \in Sections : Listed(d) # {}
            /\ Good \in [Policies -> Nat \ {0}] /\ Bad \in [Policies -> Nat \ {0}]

(* An instance is named by the group value that created it and its address *)
Insts == (1..Gens) \X Addrs

VARIABLES gen,       \* the registry's group value
          active,    \* the group value of the published configuration
          group,     \* policy and weights each group value was declared with
          eps,       \* instances of each group value
          made,      \* the policy and weight each instance was created with
          healthy,   \* the instance's atomic flag
          streak,    \* its HealthCounters: ok, fail, ever
          recent,    \* addresses whose last probe is younger than interval
          probes,    \* probes under way: sent, answered 2xx, or failed
          answered,  \* history: instances whose own probe was answered 2xx
          up,        \* external: whether the backend answers
          flips,     \* changes of `up` so far
          fwd,       \* "idle", "picked" or "failed" for each request
          at         \* the instance a request was sent to

vars == <<gen, active, group, eps, made, healthy, streak, recent,
          probes, answered, up, flips, fwd, at>>

registry == <<gen, group, eps, made>>
state == <<healthy, streak>>
forwards == <<fwd, at>>

Fresh == [ok |-> 0, fail |-> 0, ever |-> FALSE]
NoProbe == [sent |-> 0, ok |-> 0, bad |-> 0]
Total(p) == p.sent + p.ok + p.bad

TypeOK ==
  /\ gen \in 1..Gens /\ active \in 1..gen
  /\ group \in [1..Gens -> Sections]
  /\ eps \in [1..Gens -> SUBSET Insts]
  /\ made \in [Insts -> [policy : Policies, weight : Nat]]
  /\ healthy \in [Insts -> BOOLEAN]
  /\ \A i \in Insts : /\ streak[i].ok \in 0..(Good[made[i].policy] - 1)
                      /\ streak[i].ever \in BOOLEAN
                      /\ healthy[i] => streak[i].fail < Bad[made[i].policy]
                      /\ healthy[i] => streak[i].ever
  /\ recent \in SUBSET Addrs
  /\ up \in [Addrs -> BOOLEAN]
  /\ fwd \in [Requests -> {"idle", "picked", "failed"}]
  /\ at \in [Requests -> Insts]

(* The first manifest: fresh instances, pessimistic.                       *)
Init ==
  /\ gen = 1 /\ active = 1
  /\ group \in {[g \in 1..Gens |-> d] : d \in Sections}
  /\ eps = [g \in 1..Gens |-> IF g = 1 THEN {1} \X Listed(group[1]) ELSE {}]
  /\ made = [i \in Insts |-> [policy |-> group[1].policy, weight |-> group[1].weight[i[2]]]]
  /\ healthy = [i \in Insts |-> FALSE]
  /\ streak = [i \in Insts |-> Fresh]
  /\ answered = {}
  /\ recent = {}
  /\ probes = [i \in Insts |-> NoProbe]
  /\ up \in [Addrs -> BOOLEAN]
  /\ flips = 0
  /\ fwd = [r \in Requests |-> "idle"]
  /\ at \in {[r \in Requests |-> i] : i \in {<<1, CHOOSE a \in Addrs : TRUE>>}}

-----------------------------------------------------------------------------
(* Only an unchanged policy, address and weight let an instance be reused. *)
Reusable(d) ==
  {i \in eps[gen] : group[gen].policy = d.policy /\ made[i].weight = d.weight[i[2]]}

(* UpstreamRegistry::reconcile: the registry moves to a new group value    *)
(* whose instances are reused or created; the routing table follows in     *)
(* Publish.                                                                *)
Reload(d) ==
  /\ gen < Gens
  /\ active = gen
  /\ gen' = gen + 1
  /\ group' = [group EXCEPT ![gen + 1] = d]
  /\ LET kept == {i \in Reusable(d) : i[2] \in Listed(d)}
         new  == {gen + 1} \X (Listed(d) \ {i[2] : i \in kept})
     IN /\ eps' = [eps EXCEPT ![gen + 1] = kept \cup new]
        /\ made' = [i \in Insts |-> IF i \in new THEN [policy |-> d.policy, weight |-> d.weight[i[2]]]
                                    ELSE made[i]]
  /\ UNCHANGED <<active, state, recent, probes, answered, up, flips, forwards>>

Publish ==
  /\ active < gen
  /\ active' = gen
  /\ UNCHANGED <<registry, state, recent, probes, answered, up, flips, forwards>>

(* One pass of serve_health_checks: every due instance of the registry's   *)
(* group is probed, and the clock of every address in it is kept; clocks   *)
(* are per address, not per instance.                                      *)
Due == {i \in eps[gen] : i[2] \notin recent}

TickInRotation ==
  LET due == {i \in Due : healthy[i] \/ streak[i] = Fresh} IN
  /\ \A i \in due : Total(probes[i]) < MaxProbes
  /\ probes' = [i \in Insts |-> IF i \in due
                                THEN [probes[i] EXCEPT !.sent = @ + 1]
                                ELSE probes[i]]
  /\ recent' = {i[2] : i \in eps[gen]}
  /\ UNCHANGED <<registry, active, state, answered, up, flips, forwards>>

Tick ==
  /\ \A i \in Due : Total(probes[i]) < MaxProbes
  /\ probes' = [i \in Insts |-> IF i \in Due
                                THEN [probes[i] EXCEPT !.sent = @ + 1]
                                ELSE probes[i]]
  /\ recent' = {i[2] : i \in eps[gen]}
  /\ UNCHANGED <<registry, active, state, answered, up, flips, forwards>>

(* `interval_ms` passes for one address.                                   *)
IntervalElapses(a) ==
  /\ a \in recent
  /\ recent' = recent \ {a}
  /\ UNCHANGED <<registry, active, state, probes, answered, up, flips, forwards>>

(* The backend answers a probe, or the probe fails or times out.           *)
Answer(i) ==
  /\ probes[i].sent > 0
  /\ probes' = IF up[i[2]] THEN [probes EXCEPT ![i].sent = @ - 1, ![i].ok = @ + 1]
                           ELSE [probes EXCEPT ![i].sent = @ - 1, ![i].bad = @ + 1]
  /\ answered' = IF up[i[2]] THEN answered \cup {i} ELSE answered
  /\ UNCHANGED <<registry, active, state, recent, up, flips, forwards>>

-----------------------------------------------------------------------------
Need(i) == IF streak[i].ever THEN Good[made[i].policy] ELSE 1

(* record_probe_success, under the counters mutex.                         *)
RecordProbeSuccess(i) ==
  IF healthy[i]
  THEN /\ streak' = [streak EXCEPT ![i].fail = 0]
       /\ UNCHANGED healthy
  ELSE LET promoted == streak[i].ok + 1 >= Need(i) IN
       /\ healthy' = [healthy EXCEPT ![i] = promoted]
       /\ streak' = [streak EXCEPT
            ![i].fail = 0,
            ![i].ok = IF promoted THEN 0 ELSE @ + 1,
            ![i].ever = @ \/ promoted]

(* record_failure, of a probe or of a forward; the counter of failures is  *)
(* capped at the threshold, where the code lets it saturate at u32::MAX:   *)
(* nothing reads it above the threshold.                                   *)
RecordFailure(i) ==
  LET fails   == IF streak[i].fail < Bad[made[i].policy] THEN streak[i].fail + 1
                                                  ELSE streak[i].fail
      demoted == healthy[i] /\ fails >= Bad[made[i].policy]
  IN /\ healthy' = [healthy EXCEPT ![i] = @ /\ ~demoted]
     /\ streak' = [streak EXCEPT ![i].ok = 0,
                                 ![i].fail = IF demoted THEN 0 ELSE fails]

ProbeOkByAddress(i) ==
  /\ probes[i].ok > 0
  /\ probes' = [probes EXCEPT ![i].ok = @ - 1]
  /\ LET there == {j \in eps[gen] : j[2] = i[2]}
     IN  IF there = {} THEN UNCHANGED state ELSE \E j \in there : RecordProbeSuccess(j)
  /\ UNCHANGED <<registry, active, recent, answered, up, flips, forwards>>

(* The end of probe_once, on the instance the probe was started for.       *)
ProbeOk(i) ==
  /\ probes[i].ok > 0
  /\ probes' = [probes EXCEPT ![i].ok = @ - 1]
  /\ RecordProbeSuccess(i)
  /\ UNCHANGED <<registry, active, recent, answered, up, flips, forwards>>

ProbeBad(i) ==
  /\ probes[i].bad > 0
  /\ probes' = [probes EXCEPT ![i].bad = @ - 1]
  /\ RecordFailure(i)
  /\ UNCHANGED <<registry, active, recent, answered, up, flips, forwards>>

-----------------------------------------------------------------------------
(* A forward picks a healthy instance of the published group.              *)
Pick(r, i) ==
  /\ fwd[r] = "idle"
  /\ i \in eps[active] /\ healthy[i]
  /\ fwd' = [fwd EXCEPT ![r] = "picked"]
  /\ at' = [at EXCEPT ![r] = i]
  /\ UNCHANGED <<registry, active, state, recent, probes, answered, up, flips>>

Connect(r) ==
  /\ fwd[r] = "picked"
  /\ fwd' = [fwd EXCEPT ![r] = IF up[at[r][2]] THEN "idle" ELSE "failed"]
  /\ UNCHANGED <<registry, active, state, recent, probes, answered, up, flips, at>>

(* record_passive_failure, perhaps long after the instance was replaced.   *)
RecordPassive(r) ==
  /\ fwd[r] = "failed"
  /\ fwd' = [fwd EXCEPT ![r] = "idle"]
  /\ RecordFailure(at[r])
  /\ UNCHANGED <<registry, active, recent, probes, answered, up, flips, at>>

(* External: a backend stops or starts answering.                          *)
Flip(a) ==
  /\ flips < MaxFlips
  /\ flips' = flips + 1
  /\ up' = [up EXCEPT ![a] = ~@]
  /\ UNCHANGED <<registry, active, state, recent, probes, answered, forwards>>

Next ==
  \/ \E d \in Sections : Reload(d)
  \/ Publish \/ Tick
  \/ \E a \in Addrs : IntervalElapses(a) \/ Flip(a)
  \/ \E i \in Insts : Answer(i) \/ ProbeOk(i) \/ ProbeBad(i)
  \/ \E r \in Requests :
       \/ \E i \in Insts : Pick(r, i)
       \/ Connect(r) \/ RecordPassive(r)

Spec == Init /\ [][Next]_vars

(* The supervisor loops, its clock runs, and tasks that were spawned       *)
(* finish; nothing makes requests arrive, backends flip or reloads happen. *)
Fairness ==
  /\ WF_vars(Tick) /\ WF_vars(Publish)
  /\ \A a \in Addrs : WF_vars(IntervalElapses(a))
  /\ \A i \in Insts :
       WF_vars(Answer(i)) /\ WF_vars(ProbeOk(i)) /\ WF_vars(ProbeBad(i))
  /\ \A r \in Requests : WF_vars(Connect(r)) /\ WF_vars(RecordPassive(r))

FairSpec == Spec /\ Fairness

-----------------------------------------------------------------------------
(* An instance serves as its group declares it and on a merit of its own:  *)
(* whatever was reused over whatever reloads, and wherever late probes of  *)
(* replaced instances report, its policy (and TLS) and its weight are its  *)
(* group's, and it is in rotation only if the backend answered a probe     *)
(* that was sent for this instance (registry.rs, reconcile; health.rs,     *)
(* probe_once).                                                            *)
ServesAsDeclared ==
  \A g \in 1..gen : \A i \in eps[g] :
    /\ made[i].policy = group[g].policy /\ made[i].weight = group[g].weight[i[2]]
    /\ healthy[i] => i \in answered

(* Once the manifest and the backends settle, every instance of a backend  *)
(* that answers comes into rotation and stays, whatever stale probes and   *)
(* forwards still report.                                                  *)
BackendsReturn ==
  \A i \in Insts :
    <>[](up[i[2]] /\ i \in eps[gen]) => <>[](healthy[i])

(* And every instance of a backend that does not answer leaves it.         *)
DeadBackendsLeave ==
  \A i \in Insts :
    <>[](~up[i[2]] /\ i \in eps[gen]) => <>[](~healthy[i])

(* A supervisor pass probes every instance it has not probed yet: after    *)
(* it, each one is being probed or has a result.  Refuted: the probe clock *)
(* is kept per address, and a replacement inherits it.                     *)
ColdStartProbed ==
  [][Tick => \A i \in eps[gen] : streak[i] # Fresh \/ Total(probes'[i]) > 0]_vars
=============================================================================
