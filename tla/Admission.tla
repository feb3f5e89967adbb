------------------------------ MODULE Admission ------------------------------
(***************************************************************************)
(* What a concurrency cap promises, in one atomic step each: a caller is   *)
(* let in while its slot has room, refused only while the slot is full,    *)
(* and makes room again when it leaves.                                    *)
(***************************************************************************)
EXTENDS Integers

CONSTANTS Callers,   \* the connections or requests that ask to be let in
          Slots,     \* the independent caps
          SlotOf,    \* the slot each caller is counted in
          Limit      \* the cap of every slot

VARIABLES status,    \* "out", "in" or "refused", per caller
          inside     \* how many callers of each slot are in

vars == <<status, inside>>

Init ==
  /\ status = [c \in Callers |-> "out"]
  /\ inside = [s \in Slots |-> 0]

Full(s) == inside[s] >= Limit

Move(c, from, to) ==
  /\ status[c] = from
  /\ status' = [status EXCEPT ![c] = to]

Admit(c) ==
  /\ ~Full(SlotOf[c])
  /\ Move(c, "out", "in")
  /\ inside' = [inside EXCEPT ![SlotOf[c]] = @ + 1]

Refuse(c) ==
  /\ Full(SlotOf[c])
  /\ Move(c, "out", "refused")
  /\ UNCHANGED inside

(* A refused caller goes away, or asks again.                              *)
Leave(c) == Move(c, "refused", "out") /\ UNCHANGED inside

Release(c) ==
  /\ Move(c, "in", "out")
  /\ inside' = [inside EXCEPT ![SlotOf[c]] = @ - 1]

Next == \E c \in Callers : Admit(c) \/ Refuse(c) \/ Leave(c) \/ Release(c)

Spec == Init /\ [][Next]_vars
=============================================================================
