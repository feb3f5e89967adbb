----------------------------- MODULE MCRequest -----------------------------
(* TLC instances of what a request meets on its way: the limits it is held *)
(* to (Transaction), the loop of attempts (Forward) and the health that    *)
(* decides where attempts may go (HealthCheck).  `part` picks the one a    *)
(* behaviour is about and the others rest in a first state.  The two       *)
(* health policies differ in how many good probes they ask for.            *)
EXTENDS Transaction, TLC

CONSTANTS Parts, Instances, MaxRetries, PerTry, Overalls, Base, Cap, Horizon,
          Addrs, Senders, Sections, Gens, MaxProbes, MaxFlips, strict, lax

VARIABLES part,
          clock, overall, idempotent, body, step, inst, timer, tries, attempt,
          log, result,
          gen, active, group, eps, made, healthy, streak, recent,
          probes, answered, up, flips, fwd, at

Fw == INSTANCE Forward WITH pc <- step
Hc == INSTANCE HealthCheck WITH
        Requests <- Senders, Policies <- {strict, lax},
        Good <- [p \in {strict, lax} |-> IF p = strict THEN 2 ELSE 1],
        Bad <- [p \in {strict, lax} |-> 2]

(* The first section, one with another weight, one with another policy.    *)
First == [policy |-> strict, weight |-> [a \in Addrs |-> 1]]
MCSections == {First, [First EXCEPT !.weight = [a \in Addrs |-> 2]], [First EXCEPT !.policy = lax]}

ASSUME PartsAssumption == Fw!BoundsOK /\ Hc!BoundsOK /\ First \in Sections

forwardState == <<clock, overall, idempotent, body, step, inst, timer, tries,
                  attempt, log, result>>
healthState == <<gen, active, group, eps, made, healthy, streak, recent,
                 probes, answered, up, flips, fwd, at>>

RequestInit ==
  /\ part \in Parts
  /\ Init /\ Fw!Init /\ Hc!Init
  /\ part # "forward" => /\ overall = 0 /\ idempotent /\ body = "bodyless"
                         /\ inst = CHOOSE i \in Instances : TRUE
  /\ group[1] = First
  /\ part # "health" => \A a \in Addrs : up[a]

RequestNext ==
  /\ \/ part = "limits" /\ Next /\ UNCHANGED <<forwardState, healthState>>
     \/ part = "forward" /\ Fw!Next /\ UNCHANGED <<vars, healthState>>
     \/ part = "health" /\ Hc!Next /\ UNCHANGED <<vars, forwardState>>
  /\ UNCHANGED part

(* The fairness of each part, see there.                                   *)
RequestFairness ==
  /\ \A r \in Requests :
       /\ WF_vars(part = "limits" /\ ServerStep(r))
       /\ WF_vars(part = "limits" /\ WireEnds(r))
       /\ WF_vars(part = "limits" /\ DrainEnds(r))
       /\ WF_vars(part = "limits" /\ TunnelEnds(r))
       /\ WF_vars(part = "limits" /\ Delivered(r))
  /\ WF_forwardState(part = "forward" /\ (Fw!DeadlineAtTop \/ Fw!BuildFails \/ Fw!Send))
  /\ WF_forwardState(part = "forward" /\ (Fw!JudgeOverall \/ Fw!GiveUp
                                            \/ \E i \in Instances : Fw!Retry(i)))
  /\ WF_forwardState(part = "forward" /\ Fw!Wake)
  /\ WF_forwardState(part = "forward" /\ Fw!Tick)
  /\ WF_forwardState(part = "forward" /\ Fw!Ends("timedout"))
  /\ WF_healthState(part = "health" /\ Hc!Tick)
  /\ WF_healthState(part = "health" /\ Hc!Publish)
  /\ \A a \in Addrs : WF_healthState(part = "health" /\ Hc!IntervalElapses(a))
  /\ \A i \in Hc!Insts : /\ WF_healthState(part = "health" /\ Hc!Answer(i))
                         /\ WF_healthState(part = "health" /\ Hc!ProbeOk(i))
                         /\ WF_healthState(part = "health" /\ Hc!ProbeBad(i))
  /\ \A r \in Senders : /\ WF_healthState(part = "health" /\ Hc!Connect(r))
                        /\ WF_healthState(part = "health" /\ Hc!RecordPassive(r))

RequestSpec ==
  /\ RequestInit
  /\ [][RequestNext]_<<part, vars, forwardState, healthState>>
  /\ RequestFairness

(* Retries execute nothing twice, carry the whole body, go elsewhere and   *)
(* keep the overall deadline up to one backoff, see Forward.               *)
AttemptsSound ==
  Fw!AtMostOnce /\ Fw!BodyWhole /\ Fw!RetriesElsewhere /\ Fw!DeadlineWithSlack

(* Every forward with a timeout ends, see Forward.                         *)
ForwardEnds == part = "forward" => Fw!ForwardEnds

(* Backends that answer come into rotation and dead ones leave it, see     *)
(* HealthCheck.                                                            *)
HealthSettles == part = "health" => Hc!BackendsReturn /\ Hc!DeadBackendsLeave

(* Nothing serves on another instance's merit or under another's policy,   *)
(* see HealthCheck.                                                        *)
ServesAsDeclared == Hc!ServesAsDeclared
=============================================================================
