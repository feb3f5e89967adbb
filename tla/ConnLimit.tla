------------------------------ MODULE ConnLimit ------------------------------
(***************************************************************************)
(* The per-source-IP connection cap of crates/server/src/conn_limit.rs: a  *)
(* fixed table of counters; a connection hashes to one of them, loads it   *)
(* and claims a place with a compare-and-swap loop, and gives it back when *)
(* its guard is dropped.  Each atomic operation is one action.             *)
(***************************************************************************)
EXTENDS Integers, FiniteSets

CONSTANTS Conns,     \* connections, one accept each at a time
          Slots,     \* the counter table (IP_SLOTS entries in the code)
          SlotOf,    \* slot_for_ip of the connection's peer
          Limit      \* MAX_CONNECTIONS_PER_IP

ASSUME ConnsAssumption == IsFiniteSet(Conns)
ASSUME SlotOfAssumption == SlotOf \in [Conns -> Slots]
ASSUME LimitAssumption == Limit \in Nat

VARIABLES counter,   \* PerIpConnLimit::slots
          place,        \* "start", "loop" (a loaded value in hand), "held"
          cur        \* the value try_acquire last saw

limitVars == <<counter, place, cur>>

Held(s) == {c \in Conns : place[c] = "held" /\ SlotOf[c] = s}

LimitTypeOK ==
  /\ counter \in [Slots -> Nat]
  /\ place \in [Conns -> {"start", "loop", "held"}]
  /\ cur \in [Conns -> Nat]

LimitInit ==
  /\ counter = [s \in Slots |-> 0]
  /\ place = [c \in Conns |-> "start"]
  /\ cur = [c \in Conns |-> 0]

(* let mut cur = counter.load(..)                                          *)
Load(c) ==
  /\ place[c] = "start"
  /\ cur' = [cur EXCEPT ![c] = counter[SlotOf[c]]]
  /\ place' = [place EXCEPT ![c] = "loop"]
  /\ UNCHANGED counter

(* if cur >= limiter.limit { return None }                                 *)
Refuse(c) ==
  /\ place[c] = "loop"
  /\ cur[c] >= Limit
  /\ place' = [place EXCEPT ![c] = "start"]
  /\ UNCHANGED <<counter, cur>>

ExchangeBlind(c) ==
  /\ place[c] = "loop"
  /\ cur[c] < Limit
  /\ counter' = [counter EXCEPT ![SlotOf[c]] = cur[c] + 1]
  /\ place' = [place EXCEPT ![c] = "held"]
  /\ UNCHANGED cur

(* compare_exchange_weak(cur, cur + 1) succeeds                            *)
Exchange(c) ==
  /\ place[c] = "loop"
  /\ cur[c] < Limit
  /\ counter[SlotOf[c]] = cur[c]
  /\ counter' = [counter EXCEPT ![SlotOf[c]] = cur[c] + 1]
  /\ place' = [place EXCEPT ![c] = "held"]
  /\ UNCHANGED cur

(* compare_exchange_weak fails, spuriously or because the counter moved:   *)
(* Err(actual) => cur = actual.                                            *)
ExchangeFails(c) ==
  /\ place[c] = "loop"
  /\ cur[c] < Limit
  /\ cur' = [cur EXCEPT ![c] = counter[SlotOf[c]]]
  /\ UNCHANGED <<counter, place>>

DropGuardTwice(c) ==
  /\ place[c] = "held"
  /\ counter' = [counter EXCEPT ![SlotOf[c]] = @ - 2]
  /\ place' = [place EXCEPT ![c] = "start"]
  /\ UNCHANGED cur

(* PerIpConnGuard::drop: fetch_sub                                         *)
DropGuard(c) ==
  /\ place[c] = "held"
  /\ counter' = [counter EXCEPT ![SlotOf[c]] = @ - 1]
  /\ place' = [place EXCEPT ![c] = "start"]
  /\ UNCHANGED cur

LimitNext == \E c \in Conns :
          \/ Load(c) \/ Refuse(c) \/ Exchange(c) \/ ExchangeFails(c)
          \/ DropGuard(c)

LimitSpec == LimitInit /\ [][LimitNext]_limitVars

-----------------------------------------------------------------------------
(* Each counter is exactly the number of guards alive in its slot, so the  *)
(* AtomicU32 never wraps below zero and never counts a refused peer.       *)
CounterIsGuards ==
  \A s \in Slots : counter[s] = Cardinality(Held(s))

(* A slot never holds more than Limit connections.                         *)
WithinLimit == \A s \in Slots : Cardinality(Held(s)) <= Limit

(* A connection is settled as refused by the load, or failed exchange,     *)
(* that showed it a full slot.                                             *)
Status ==
  [c \in Conns |-> IF place[c] = "held" THEN "in"
                   ELSE IF place[c] = "loop" /\ cur[c] >= Limit THEN "refused"
                   ELSE "out"]

Abstract == INSTANCE Admission WITH Callers <- Conns, status <- Status,
                                    inside <- counter

(* try_acquire and the guard's drop behave as one atomic step each: a peer *)
(* is refused only if its slot was full at an instant during the call, and *)
(* admitted only if it was not.                                            *)
ImplementsAdmission == Abstract!Spec
=============================================================================
