----------------------------- MODULE MCUpstream -----------------------------
(* TLC instances of the counters that guard an upstream and a listener:    *)
(* outlier detection, the circuit breaker, the per-IP connection limit and *)
(* the load balancer.  `part` picks the one a behaviour is about and the   *)
(* others rest in a first state.  Three connections hash to one slot and   *)
(* one to another; reloads take the breaker's cap from two to one and then *)
(* lift it.                                                                *)
EXTENDS Outlier, CircuitBreaker, ConnLimit, LbPick, TLC

CONSTANTS c1, c2, c3, c4, s1, s2

VARIABLE part

MCConns == {c1, c2, c3, c4}
MCSlots == {s1, s2}
MCSlotOf == [c \in MCConns |-> IF c = c4 THEN s2 ELSE s1]
MCMaxOf == <<2, 1, 0>>
Uneven == [i \in 1..N |-> i]

UpstreamInit ==
  /\ part \in {"outlier", "breaker", "limit", "lb"}
  /\ Init /\ BreakerInit /\ LimitInit /\ LbInit
  /\ part # "outlier" => inst = [r \in Requests |-> CHOOSE i \in Instances : TRUE]
  /\ part # "lb" => algo = "maglev" /\ eligible = {}

UpstreamNext ==
  /\ \/ /\ part = "outlier" /\ Next
        /\ UNCHANGED <<breakerVars, limitVars, lbVars>>
     \/ /\ part = "breaker" /\ BreakerNext
        /\ UNCHANGED <<vars, limitVars, lbVars>>
     \/ /\ part = "limit" /\ LimitNext
        /\ UNCHANGED <<vars, breakerVars, lbVars>>
     \/ /\ part = "lb" /\ LbNext
        /\ UNCHANGED <<vars, breakerVars, limitVars>>
  /\ UNCHANGED part

UpstreamSpec ==
  UpstreamInit /\ [][UpstreamNext]_<<part, vars, breakerVars, limitVars, lbVars>>

(* Nobody gets None beside an eligible instance, a pick was eligible and a *)
(* retry goes elsewhere, and the load counters are the metered picks held, *)
(* see LbPick.                                                             *)
PicksSound == NoSpuriousNone /\ PickedWasEligible /\ LoadAccounted
=============================================================================
