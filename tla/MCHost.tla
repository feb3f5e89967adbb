------------------------------- MODULE MCHost -------------------------------
(* TLC instances of what a host keeps for its filters: the instance pool,  *)
(* the state store and the output of hook calls.  They share no state;     *)
(* `part` picks the one a behaviour is about and the others rest in their  *)
(* first state.  The store holds one filter's kv key and counter and       *)
(* another filter's bucket, in a file that an earlier version left over    *)
(* its caps.                                                               *)
EXTENDS InstancePool, StateStore, HostCalls, TLC

CONSTANTS Parts, kv, hits, quota

VARIABLE part

MCKeys == {kv, hits, quota}
MCNsOf == (kv :> "f" @@ hits :> "f" @@ quota :> "g")
MCTagOf == (kv :> "k" @@ hits :> "c" @@ quota :> "r")
MCStripeOf == (kv :> 1 @@ hits :> 2 @@ quota :> 3)
MCKeyLen == [k \in MCKeys |-> 1]
MCLegacy == {(kv :> 1 @@ hits :> 1 @@ quota :> None)}

HostInit ==
  /\ part \in Parts
  /\ Init /\ StoreInit /\ CallInit
  /\ part # "store" => backend = "memory"
  /\ part # "calls" => lent = [trusted |-> TRUE, wasi |-> FALSE, sinks |-> {}]

HostNext ==
  \/ part = "pool" /\ Next /\ UNCHANGED <<part, storeVars, callVars>>
  \/ part = "store" /\ StoreNext /\ UNCHANGED <<part, vars, callVars>>
  \/ part = "calls" /\ CallNext /\ UNCHANGED <<part, vars, storeVars>>

(* The fairness of InstancePool and of StateStore, each for its own part.  *)
HostSpec ==
  /\ HostInit
  /\ [][HostNext]_<<part, vars, storeVars, callVars>>
  /\ WF_vars(part = "pool" /\ CooldownElapses)
  /\ \A t \in Threads : /\ WF_vars(part = "pool" /\ DeadlinePasses(t))
                        /\ WF_vars(part = "pool" /\ Proceed(t))
  /\ \A t \in Callers : WF_storeVars(part = "store" /\ StoreStep(t))

Symmetry == Permutations(Threads)

(* The quota's tally is the rows there are and growth stays within the     *)
(* caps, see StateStore.                                                   *)
QuotaHolds == TallyExact /\ CapsHold

(* Every checkout comes back and every queued write is answered, see       *)
(* InstancePool and StateStore.  Threads are interchangeable, so that one  *)
(* of each stands for all.                                                 *)
EveryCheckoutReturns == CheckoutReturns(CHOOSE t \in Threads : TRUE)

EveryWriteAnswered == WritesAnswered(CHOOSE t \in Callers : TRUE)
=============================================================================
