------------------------------- MODULE LbPick -------------------------------
(***************************************************************************)
(* Instance selection of crates/control/src/upstream/lb.rs.  A pick walks  *)
(* the instance list twice without a lock: once to count the eligible      *)
(* instances and once to take one of them, while probes, failures and      *)
(* ejections flip instances between any two reads.  One action is one      *)
(* atomic read of an instance, one read-modify-write of the cursor, or one *)
(* update of a load counter.                                               *)
(***************************************************************************)
EXTENDS Integers, FiniteSets

CONSTANTS Pickers,    \* concurrent forwards
          N,          \* the endpoint snapshot is instances 1..N
          Algos,      \* the lb_algorithm settings considered
          Weight,     \* weight of each instance
          MaxFlips,   \* a bound on eligibility changes
          MaxRetries, \* a bound on picks that exclude an instance
          MaxPicks    \* a bound on picks

Endpoints == 1..N

(* What a group is configured with.                                        *)
ASSUME LbAssumption ==
  /\ IsFiniteSet(Pickers)
  /\ N \in Nat \ {0}
  /\ Algos \subseteq {"round_robin", "least_request", "maglev"}
  /\ Weight \in [Endpoints -> Nat \ {0}]

VARIABLES algo,       \* the group's lb_algorithm, fixed
          eligible,   \* healthy and not ejected, as the next read sees it
          rr,         \* the group's round-robin cursor
          loads,   \* the least-request load of each instance
          pick,       \* the state of each picker, see Idle
          flips,      \* eligibility changes so far
          retries,    \* picks so far that excluded an instance
          picks,      \* picks so far
          served      \* history: picks each instance received

lbVars == <<algo, eligible, rr, loads, pick, flips, retries, picks, served>>

(* A picker between picks.  `at` is the next index of the pass it is in,   *)
(* `n` the count of the first pass, `seen` the eligible instances met in   *)
(* the second, `want` the ordinals drawn, `got` the instances found for    *)
(* them, `last` the fallback, `prev` the metered instance a retry still    *)
(* holds; 0 stands for None.  `steady` and `ever` are history: the         *)
(* instances eligible at every, and at some, instant of the pick.          *)
Idle == [pc |-> "idle", at |-> 1, n |-> 0, seen |-> 0, want |-> <<0, 0>>,
         got |-> <<0, 0>>, last |-> 0, exclude |-> 0, metered |-> FALSE,
         prev |-> 0,
         steady |-> {}, ever |-> {}]

LbTypeOK ==
  /\ algo \in Algos
  /\ eligible \in SUBSET Endpoints
  /\ rr \in Nat
  /\ loads \in [Endpoints -> Nat]
  /\ \A p \in Pickers :
       /\ pick[p].at \in 1..(N + 1)
       /\ pick[p].n \in 0..N
       /\ pick[p].last \in 0..N
       /\ pick[p].pc = "held" => pick[p].last \in Endpoints

LbInit ==
  /\ algo \in Algos
  /\ eligible \in SUBSET Endpoints
  /\ rr = 0
  /\ loads = [i \in Endpoints |-> 0]
  /\ pick = [p \in Pickers |-> Idle]
  /\ flips = 0
  /\ retries = 0
  /\ picks = 0
  /\ served = [i \in Endpoints |-> 0]

-----------------------------------------------------------------------------
(* An instance is promoted, demoted, ejected, or its ejection expires.     *)
Flip(i) ==
  /\ flips < MaxFlips
  /\ flips' = flips + 1
  /\ eligible' = IF i \in eligible THEN eligible \ {i} ELSE eligible \cup {i}
  /\ pick' = [p \in Pickers |->
                IF i \in eligible
                THEN [pick[p] EXCEPT !.steady = @ \ {i}]
                ELSE [pick[p] EXCEPT !.ever = @ \cup {i}]]
  /\ UNCHANGED <<rr, loads, retries, picks, served>>

Set(p, new) == pick' = [pick EXCEPT ![p] = new]

IsEligibleAnywhere(p, i) == i \in eligible

IsEligible(p, i) == i \in eligible /\ i # pick[p].exclude

Begin(p, exclude, prev) ==
  /\ picks < MaxPicks
  /\ picks' = picks + 1
  /\ pick[p].prev = 0
  /\ Set(p, [Idle EXCEPT
               !.pc = IF algo = "maglev" THEN "affinity" ELSE "count",
               !.exclude = exclude,
               !.prev = prev,
               !.steady = eligible \ {exclude},
               !.ever = eligible])
  /\ UNCHANGED <<eligible, rr, loads, flips, served>>

(* pick: a fresh request excludes nobody.                                  *)
Start(p) ==
  /\ pick[p].pc \in {"idle", "none"}
  /\ Begin(p, 0, 0)
  /\ UNCHANGED retries

Metered(p) == IF pick[p].metered THEN pick[p].last ELSE 0

(* pick_excluding: a retry excludes the instance it holds, and holds it    *)
(* until the new pick is assigned over it.                                 *)
Retry(p) ==
  /\ pick[p].pc = "held"
  /\ retries < MaxRetries
  /\ retries' = retries + 1
  /\ Begin(p, pick[p].last, Metered(p))

ReleaseTwice(i) == loads' = IF i = 0 THEN loads
                               ELSE [loads EXCEPT ![i] = @ - 2]

Release(i) == loads' = IF i = 0 THEN loads
                          ELSE [loads EXCEPT ![i] = @ - 1]

(* InstanceLoad::drop of the pick a retry replaced.                        *)
DropPrev(p) ==
  /\ pick[p].pc \in {"held", "none"}
  /\ pick[p].prev # 0
  /\ Release(pick[p].prev)
  /\ Set(p, [pick[p] EXCEPT !.prev = 0])
  /\ UNCHANGED <<eligible, rr, flips, retries, picks, served>>

FinishKeepsLoad(p) ==
  /\ pick[p].pc = "held"
  /\ pick[p].prev = 0
  /\ Set(p, Idle)
  /\ UNCHANGED <<eligible, rr, loads, flips, retries, picks, served>>

(* InstanceLoad::drop when the forward ends.                               *)
Finish(p) ==
  /\ pick[p].pc = "held"
  /\ pick[p].prev = 0
  /\ Set(p, Idle)
  /\ Release(Metered(p))
  /\ UNCHANGED <<eligible, rr, flips, retries, picks, served>>

(* Pick { instance, _load }: the pass ends with an instance.               *)
Take(p, i, metered) ==
  /\ Set(p, [pick[p] EXCEPT !.pc = "held", !.last = i, !.metered = metered])
  /\ served' = [served EXCEPT ![i] = @ + 1]
  /\ loads' = IF metered THEN [loads EXCEPT ![i] = @ + 1] ELSE loads

(* maglev_pick: the key's table entry, any instance, if it may serve;      *)
(* without a key or a usable entry, round-robin.                           *)
Affinity(p) ==
  /\ pick[p].pc = "affinity"
  /\ \/ \E i \in Endpoints : IsEligible(p, i) /\ Take(p, i, FALSE)
     \/ /\ Set(p, [pick[p] EXCEPT !.pc = "count"])
        /\ UNCHANGED <<loads, served>>
  /\ UNCHANGED <<eligible, rr, flips, retries, picks>>

(* The counting pass reads one instance.                                   *)
Count(p) ==
  /\ pick[p].pc \in {"count", "recount"}
  /\ pick[p].at <= N
  /\ Set(p, [pick[p] EXCEPT
               !.at = @ + 1,
               !.n = IF IsEligible(p, pick[p].at) THEN @ + 1 ELSE @])
  /\ UNCHANGED <<eligible, rr, loads, flips, retries, picks, served>>

Counted(p) == pick[p].pc \in {"count", "recount"} /\ pick[p].at = N + 1

(* Nothing eligible was counted: None.                                     *)
NoneEligible(p) ==
  /\ Counted(p)
  /\ pick[p].n = 0
  /\ Set(p, [pick[p] EXCEPT !.pc = "none"])
  /\ UNCHANGED <<eligible, rr, loads, flips, retries, picks, served>>

AdvanceWithoutStep(p) ==
  /\ Counted(p)
  /\ pick[p].n > 0
  /\ algo = "least_request" => pick[p].pc = "recount"
  /\ Set(p, [pick[p] EXCEPT !.pc = "second", !.at = 1, !.seen = 0, !.last = 0,
                            !.want = <<rr % pick[p].n, 0>>])
  /\ UNCHANGED <<eligible, rr, loads, flips, retries, picks, served>>

(* round_robin_pick: the cursor advances and its residue is the ordinal.   *)
Advance(p) ==
  /\ Counted(p)
  /\ pick[p].n > 0
  /\ algo = "least_request" => pick[p].pc = "recount"
  /\ rr' = rr + 1
  /\ Set(p, [pick[p] EXCEPT !.pc = "second", !.at = 1, !.seen = 0, !.last = 0,
                            !.want = <<rr % pick[p].n, 0>>])
  /\ UNCHANGED <<eligible, loads, flips, retries, picks, served>>

(* The second pass reads one instance and stops at the ordinal.            *)
Second(p) ==
  /\ pick[p].pc = "second"
  /\ pick[p].at <= N
  /\ IF IsEligible(p, pick[p].at) /\ pick[p].seen = pick[p].want[1]
     THEN Take(p, pick[p].at, FALSE)
     ELSE /\ Set(p, IF IsEligible(p, pick[p].at)
                    THEN [pick[p] EXCEPT !.at = @ + 1, !.seen = @ + 1,
                                         !.last = pick[p].at]
                    ELSE [pick[p] EXCEPT !.at = @ + 1])
          /\ UNCHANGED <<loads, served>>
  /\ UNCHANGED <<eligible, rr, flips, retries, picks>>

SecondEndStrict(p) ==
  /\ pick[p].pc = "second"
  /\ pick[p].at = N + 1
  /\ Set(p, [pick[p] EXCEPT !.pc = "none"])
  /\ UNCHANGED <<eligible, rr, loads, flips, retries, picks, served>>

(* The ordinal was not reached: the last eligible instance seen, if any.   *)
SecondEnd(p) ==
  /\ pick[p].pc = "second"
  /\ pick[p].at = N + 1
  /\ IF pick[p].last # 0
     THEN Take(p, pick[p].last, FALSE)
     ELSE /\ Set(p, [pick[p] EXCEPT !.pc = "none"])
          /\ UNCHANGED <<loads, served>>
  /\ UNCHANGED <<eligible, rr, flips, retries, picks>>

(* least_request_pick draws its ordinals: the only one, or two distinct.   *)
Draw(p) ==
  /\ algo = "least_request"
  /\ pick[p].pc = "count" /\ Counted(p)
  /\ pick[p].n > 0
  /\ \E w \in (0..(pick[p].n - 1)) \X (0..(pick[p].n - 1)) :
       /\ pick[p].n > 1 => w[1] # w[2]
       /\ Set(p, [pick[p] EXCEPT !.pc = "capture", !.at = 1, !.want = w])
  /\ UNCHANGED <<eligible, rr, loads, flips, retries, picks, served>>

(* The ordinal pass reads one instance.                                    *)
Capture(p) ==
  /\ pick[p].pc = "capture"
  /\ pick[p].at <= N
  /\ Set(p, IF IsEligible(p, pick[p].at)
            THEN [pick[p] EXCEPT
                    !.at = @ + 1, !.seen = @ + 1,
                    !.got = [k \in 1..2 |-> IF pick[p].want[k] = pick[p].seen
                                            THEN pick[p].at ELSE @[k]]]
            ELSE [pick[p] EXCEPT !.at = @ + 1])
  /\ UNCHANGED <<eligible, rr, loads, flips, retries, picks, served>>

(* lower_load: the smaller (in_flight + 1) / weight, a tie keeps the first *)
LowerLoad(a, b) ==
  (loads[a] + 1) * Weight[b] <= (loads[b] + 1) * Weight[a]

(* Both ordinals were found: the less loaded of the two is metered.        *)
Choose(p) ==
  /\ pick[p].pc = "capture"
  /\ pick[p].at = N + 1
  /\ 0 \notin {pick[p].got[1], pick[p].got[2]}
  /\ Set(p, [pick[p] EXCEPT
               !.pc = "meter",
               !.last = IF LowerLoad(pick[p].got[1], pick[p].got[2])
                        THEN pick[p].got[1] ELSE pick[p].got[2]])
  /\ UNCHANGED <<eligible, rr, loads, flips, retries, picks, served>>

(* metered_pick: the fetch_add.                                            *)
Meter(p) ==
  /\ pick[p].pc = "meter"
  /\ Take(p, pick[p].last, TRUE)
  /\ UNCHANGED <<eligible, rr, flips, retries, picks>>

(* An ordinal was missed because an instance flipped: round-robin.         *)
Missed(p) ==
  /\ pick[p].pc = "capture"
  /\ pick[p].at = N + 1
  /\ 0 \in {pick[p].got[1], pick[p].got[2]}
  /\ Set(p, [pick[p] EXCEPT !.pc = "recount", !.at = 1, !.n = 0, !.seen = 0])
  /\ UNCHANGED <<eligible, rr, loads, flips, retries, picks, served>>

PickStep(p) ==
  \/ Start(p) \/ Retry(p) \/ DropPrev(p) \/ Finish(p)
  \/ Affinity(p)
  \/ Count(p) \/ NoneEligible(p) \/ Advance(p) \/ Second(p)
  \/ SecondEnd(p) \/ Draw(p) \/ Capture(p) \/ Choose(p) \/ Meter(p)
  \/ Missed(p)

(* The bounds are reached and no pick is under way.                        *)
PicksMade ==
  /\ picks = MaxPicks /\ flips = MaxFlips
  /\ \A p \in Pickers : pick[p].pc \in {"idle", "none"} /\ pick[p].prev = 0
  /\ UNCHANGED <<eligible, rr, loads, pick, flips, retries, picks, served>>

LbNext ==
  /\ \/ \E i \in Endpoints : Flip(i)
     \/ \E p \in Pickers : PickStep(p)
     \/ PicksMade
  /\ UNCHANGED algo

LbSpec == LbInit /\ [][LbNext]_lbVars

-----------------------------------------------------------------------------
(* A pick fails closed only for want of instances: whoever got None can    *)
(* point at no instance that was eligible all through the call.            *)
NoSpuriousNone ==
  \A p \in Pickers : pick[p].pc = "none" => pick[p].steady = {}

(* What a pick returns was eligible at some instant of the call, and a     *)
(* retry never lands on the instance it is retrying.                       *)
PickedWasEligible ==
  \A p \in Pickers : pick[p].pc = "held" =>
    /\ pick[p].last \in pick[p].ever
    /\ pick[p].last # pick[p].exclude

(* An instance's load counter is the number of metered picks held on it,   *)
(* across retries that hand one guard over to the next.                    *)
LoadAccounted ==
  \A i \in Endpoints :
    loads[i] =
      Cardinality({p \in Pickers : pick[p].pc = "held" /\ Metered(p) = i})
      + Cardinality({p \in Pickers : pick[p].prev = i})

(* Under least_request every forward counts in the load of the instance it *)
(* was sent to.  Refuted: the fallback scan returns an unmetered pick.     *)
LoadIsForwards ==
  algo = "least_request" =>
    \A p \in Pickers : pick[p].pc = "held" => loads[pick[p].last] > 0

(* While nothing flips and nobody retries, round-robin is even over the    *)
(* eligible set, however the picks interleave: when no pick is under way,  *)
(* two eligible instances differ by at most one.                           *)
EvenRotation ==
  /\ algo = "round_robin" /\ flips = 0 /\ retries = 0
  /\ \A p \in Pickers : pick[p].pc \in {"idle", "none", "held"}
  => \A i, j \in eligible : served[i] - served[j] <= 1
=============================================================================
