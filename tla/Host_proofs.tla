----------------------------- MODULE Host_proofs -----------------------------
(***************************************************************************)
(* Machine-checked proofs about what a host keeps for its filters: the     *)
(* instance pool, for every finite set of threads, every cap, recycle      *)
(* limit and breaker threshold, the state store's durability and quota,    *)
(* for any callers, keys, batch size and flush cadence, and the output of  *)
(* hook calls, for any budgets.                                            *)
(***************************************************************************)
EXTENDS MCHost, MCOutbound, FoldLemmas

(* From f to g only thread t moves, so a count of threads changes by at    *)
(* most that thread.                                                       *)
OneMoves(f, g, t, labels) ==
  LET before == CountAt(f, labels)
      after  == CountAt(g, labels)
  IN  /\ before \in Nat /\ after \in Nat
      /\ f[t] \in labels /\ g[t] \in labels => after = before
      /\ f[t] \notin labels /\ g[t] \notin labels => after = before
      /\ f[t] \in labels /\ g[t] \notin labels => after = before - 1
      /\ f[t] \notin labels /\ g[t] \in labels => after = before + 1

LEMMA CountMove ==
  ASSUME NEW f \in [Threads -> PCs], NEW g \in [Threads -> PCs],
         NEW t \in Threads, \A u \in Threads \ {t} : g[u] = f[u],
         NEW labels
  PROVE  OneMoves(f, g, t, labels)
  <1> DEFINE S == {u \in Threads : f[u] \in labels}
             R == {u \in Threads : g[u] \in labels}
  <1>1. IsFiniteSet(S) /\ IsFiniteSet(R)
    BY FS_Subset, ThreadsAssumption
  <1>2. Cardinality(S) \in Nat /\ Cardinality(R) \in Nat
    BY <1>1, FS_CardinalityType
  <1>3. CountAt(f, labels) = Cardinality(S)
    BY DEF CountAt
  <1>4. CountAt(g, labels) = Cardinality(R)
    BY DEF CountAt
  <1>5. CASE f[t] \in labels /\ g[t] \in labels
    <2>1. R = S  BY <1>5
    <2>2. Cardinality(R) = Cardinality(S)  BY <2>1
    <2> HIDE DEF S, R
    <2> QED  BY <1>2, <1>3, <1>4, <1>5, <2>2 DEF OneMoves
  <1>6. CASE f[t] \notin labels /\ g[t] \notin labels
    <2>1. R = S  BY <1>6
    <2>2. Cardinality(R) = Cardinality(S)  BY <2>1
    <2> HIDE DEF S, R
    <2> QED  BY <1>2, <1>3, <1>4, <1>6, <2>2 DEF OneMoves
  <1>7. CASE f[t] \in labels /\ g[t] \notin labels
    <2>1. R = S \ {t} /\ t \in S  BY <1>7
    <2> HIDE DEF S, R
    <2>2. Cardinality(R) = Cardinality(S) - 1
      BY <1>1, <2>1, FS_RemoveElement
    <2> QED  BY <1>2, <1>3, <1>4, <1>7, <2>2 DEF OneMoves
  <1>8. CASE f[t] \notin labels /\ g[t] \in labels
    <2>1. R = S \cup {t} /\ t \notin S  BY <1>8
    <2> HIDE DEF S, R
    <2>2. Cardinality(R) = Cardinality(S) + 1
      BY <1>1, <2>1, FS_AddElement
    <2> QED  BY <1>2, <1>3, <1>4, <1>8, <2>2 DEF OneMoves
  <1> HIDE DEF S, R
  <1> QED  BY <1>2, <1>3, <1>4, <1>5, <1>6, <1>7, <1>8 DEF OneMoves

(* Popping the idle stack shortens it by one.                              *)
LEMMA PopShortens ==
  ASSUME NEW S, NEW s \in Seq(S), s # <<>>
  PROVE  /\ SubSeq(s, 1, Len(s) - 1) \in Seq(S)
         /\ Len(SubSeq(s, 1, Len(s) - 1)) = Len(s) - 1
         /\ s[Len(s)] \in S
         /\ Len(s) \in Nat \ {0}
  <1>1. Len(s) \in Nat \ {0}
    BY EmptySeq, LenProperties
  <1>2. \A i \in 1..(Len(s) - 1) : s[i] \in S
    BY <1>1, ElementOfSeq
  <1>3. s[Len(s)] \in S
    BY <1>1, ElementOfSeq
  <1>4. /\ SubSeq(s, 1, Len(s) - 1) \in Seq(S)
        /\ Len(SubSeq(s, 1, Len(s) - 1))
             = IF 1 <= Len(s) - 1 THEN Len(s) - 1 - 1 + 1 ELSE 0
    BY <1>1, <1>2, SubSeqProperties
  <1>5. Len(s) - 1 = IF 1 <= Len(s) - 1 THEN Len(s) - 1 - 1 + 1 ELSE 0
    <2> DEFINE n == Len(s)
    <2>1. n \in Nat \ {0}  BY <1>1
    <2> HIDE DEF n
    <2>2. n - 1 = IF 1 <= n - 1 THEN n - 1 - 1 + 1 ELSE 0  BY <2>1
    <2> QED  BY <2>2 DEF n
  <1> QED  BY <1>1, <1>3, <1>4, <1>5, Zenon

-----------------------------------------------------------------------------
USE CapAssumption, MaxRequestsAssumption, ThresholdAssumption

LEMMA ClearType ==
  ASSUME Clear
  PROVE  traps' \in 0..Threshold /\ open' \in BOOLEAN
  <1>1. traps' \in 0..Threshold  BY DEF Clear
  <1>2. open' \in BOOLEAN  BY DEF Clear
  <1> QED  BY <1>1, <1>2

(* Every step keeps the types; in particular an idle or held instance has  *)
(* always served fewer requests than the recycle limit.                    *)
LEMMA TypeStep ==
  ASSUME TypeOK, [Next]_vars
  PROVE  TypeOK'
  <1> USE DEF TypeOK, PCs, Goto
  <1>1. CASE UNCHANGED vars
    BY <1>1 DEF vars
  <1>2. CASE CooldownElapses
    BY <1>2 DEF CooldownElapses
  <1>3. ASSUME NEW t \in Threads, Step(t)
        PROVE  TypeOK'
    <2>pop. CASE PopIdle(t) /\ UNCHANGED <<live, traps, open, late>>
      <3>1. /\ SubSeq(idle, 1, Len(idle) - 1) \in Seq(0..(MaxRequests - 1))
            /\ idle[Len(idle)] \in 0..(MaxRequests - 1)
        BY <2>pop, PopShortens DEF PopIdle
      <3> QED  BY <2>pop, <3>1 DEF PopIdle
    <2>1. CASE StartCheckout(t)
      BY <2>1 DEF StartCheckout
    <2>2. CASE DeadlinePasses(t)
      BY <2>2 DEF DeadlinePasses
    <2>3. CASE WaitTimesOut(t)
      BY <2>3 DEF WaitTimesOut
    <2>4. CASE CheckoutIdle(t)
      BY <2>pop, <2>4 DEF CheckoutIdle
    <2>5. CASE CheckoutUse(t)
      BY <2>pop, <2>5 DEF CheckoutUse
    <2>6. CASE CheckoutBreakerOpen(t)
      BY <2>6 DEF CheckoutBreakerOpen
    <2>7. CASE CheckoutBuild(t)
      BY <2>7 DEF CheckoutBuild
    <2>8. CASE CheckoutWait(t)
      BY <2>8 DEF CheckoutWait
    <2>9. CASE BuildSucceeds(t)
      BY <2>9 DEF BuildSucceeds
    <2>10. CASE BuildFails(t)
      BY <2>10 DEF BuildFails, RecordTrap
    <2>11. CASE BuildPanics(t)
      BY <2>11 DEF BuildPanics, ReleaseSlot
    <2>12. CASE GuardAfterInitFailure(t)
      BY <2>12 DEF GuardAfterInitFailure, ReleaseSlot
    <2>13. CASE ReturnToIdle(t)
      <3>1. served[t] + 1 \in 0..(MaxRequests - 1)
        BY <2>13 DEF ReturnToIdle
      <3>2. Append(idle, served[t] + 1) \in Seq(0..(MaxRequests - 1))
        BY <3>1, AppendProperties
      <3> QED  BY <2>13, <3>2, ClearType DEF ReturnToIdle
    <2>14. CASE RecycleDrop(t)
      BY <2>14 DEF RecycleDrop
    <2>15. CASE RecycleRelease(t)
      BY <2>15, ClearType DEF RecycleRelease, ReleaseSlot
    <2>16. CASE TrapDrop(t)
      BY <2>16 DEF TrapDrop
    <2>17. CASE TrapRelease(t)
      BY <2>17 DEF TrapRelease, RecordTrap, ReleaseSlot
    <2>18. CASE CallPanics(t)
      BY <2>18 DEF CallPanics, ReleaseSlot
    <2>19. CASE DropAfterUnwind(t)
      BY <2>19 DEF DropAfterUnwind
    <2>20. CASE NotifyOne(t)
      BY <2>20 DEF NotifyOne, Parked
    <2> QED
      BY <1>3, <2>1, <2>2, <2>3, <2>4, <2>5, <2>6, <2>7, <2>8, <2>9,
         <2>10, <2>11, <2>12, <2>13, <2>14, <2>15, <2>16, <2>17,
         <2>18, <2>19, <2>20
         DEF Step, Checkout, Finish
  <1> QED  BY <1>1, <1>2, <1>3 DEF Next

(* The same, for a step that moves one thread.                             *)
LEMMA StepCount ==
  ASSUME TypeOK, NEW t \in Threads, NEW v \in PCs, Goto(t, v), NEW labels
  PROVE  pc'[t] = v /\ OneMoves(pc, pc', t, labels)
  <1>1. /\ pc \in [Threads -> PCs] /\ pc' \in [Threads -> PCs] /\ pc'[t] = v
        /\ \A u \in Threads \ {t} : pc'[u] = pc[u]
    BY DEF Goto, TypeOK
  <1> QED  BY <1>1, CountMove, Zenon

(* notify_one moves the signaller and, if there is one, a parked thread    *)
(* that becomes in transit; neither holds a slot.                          *)
LEMMA NotifyCount ==
  ASSUME TypeOK, NEW t \in Threads, NotifyOne(t)
  PROVE  /\ CountAt(pc, SlotPCs) \in Nat
         /\ CountAt(pc', SlotPCs) = CountAt(pc, SlotPCs)
         /\ CountAt(pc, TransitPCs) \in Nat
         /\ CountAt(pc', TransitPCs) \in Nat
         /\ Parked # {} => CountAt(pc', TransitPCs) = CountAt(pc, TransitPCs)
         /\ Parked = {} => Parked' = {}
  <1> DEFINE v == IF pc[t] = "unwound" THEN "dropping" ELSE "ready"
             mid == [pc EXCEPT ![t] = v]
  <1>0. /\ pc \in [Threads -> PCs] /\ v \in PCs /\ mid \in [Threads -> PCs]
        /\ pc[t] \in {"notify", "unwound"}
    BY DEF TypeOK, PCs, NotifyOne
  <1>1. /\ OneMoves(pc, mid, t, SlotPCs)
        /\ OneMoves(pc, mid, t, TransitPCs)
    <2>1. \A u \in Threads \ {t} : mid[u] = pc[u]
      BY <1>0
    <2> HIDE DEF v, mid
    <2> QED  BY <1>0, <2>1, CountMove, Zenon
  <1>2. /\ pc[t] \notin SlotPCs /\ mid[t] \notin SlotPCs
        /\ pc[t] \in TransitPCs /\ mid[t] \notin TransitPCs
    BY <1>0 DEF SlotPCs, TransitPCs
  <1>3. /\ CountAt(pc, SlotPCs) \in Nat
        /\ CountAt(mid, SlotPCs) = CountAt(pc, SlotPCs)
        /\ CountAt(pc, TransitPCs) \in Nat /\ CountAt(mid, TransitPCs) \in Nat
        /\ CountAt(mid, TransitPCs) = CountAt(pc, TransitPCs) - 1
    <2> HIDE DEF mid
    <2> QED  BY <1>1, <1>2 DEF OneMoves
  <1>4. CASE Parked = {} /\ Goto(t, v)
    <2>1. pc' = mid  BY <1>4 DEF Goto
    <2>2. Parked' = {}
      BY <1>0, <1>4, <2>1 DEF Parked
    <2> HIDE DEF v, mid
    <2> QED  BY <1>3, <1>4, <2>1, <2>2
  <1>5. ASSUME NEW w \in Parked,
               pc' = [pc EXCEPT ![t] = v, ![w] = "checkout"]
        PROVE  /\ Parked # {}
               /\ CountAt(pc', SlotPCs) = CountAt(pc, SlotPCs)
               /\ CountAt(pc', TransitPCs) = CountAt(pc, TransitPCs)
    <2>1. w \in Threads /\ pc[w] = "parked" /\ w # t
      BY <1>0 DEF Parked
    <2>2. /\ pc' \in [Threads -> PCs]
          /\ \A u \in Threads \ {w} : pc'[u] = mid[u]
          /\ mid[w] = "parked" /\ pc'[w] = "checkout"
      BY <1>0, <1>5, <2>1 DEF PCs
    <2> HIDE DEF v, mid
    <2>3. /\ OneMoves(mid, pc', w, SlotPCs)
          /\ OneMoves(mid, pc', w, TransitPCs)
      BY <1>0, <2>1, <2>2, CountMove, Zenon
    <2>4. /\ mid[w] \notin SlotPCs /\ pc'[w] \notin SlotPCs
          /\ mid[w] \notin TransitPCs /\ pc'[w] \in TransitPCs
      BY <2>2 DEF SlotPCs, TransitPCs
    <2> QED  BY <1>3, <1>5, <2>3, <2>4 DEF OneMoves
  <1>6. \/ Parked = {} /\ Goto(t, v)
        \/ \E w \in Parked : pc' = [pc EXCEPT ![t] = v, ![w] = "checkout"]
    BY DEF NotifyOne
  <1> HIDE DEF v, mid
  <1> QED  BY <1>3, <1>4, <1>5, <1>6

(* No step loses or invents a slot, and none takes one beyond the cap.     *)
LEMMA SlotStep ==
  ASSUME TypeOK, SlotAccounting, [Next]_vars
  PROVE  SlotAccounting'
  <1>0. Len(idle) \in Nat /\ live \in Nat /\ pc \in [Threads -> PCs]
    BY LenProperties DEF TypeOK
  <1>1. CASE UNCHANGED vars
    BY <1>1 DEF vars, SlotAccounting, CountAt
  <1>2. CASE CooldownElapses
    BY <1>2 DEF CooldownElapses, SlotAccounting, CountAt
  <1>3. ASSUME NEW t \in Threads, Step(t)
        PROVE  SlotAccounting'
    <2>1. CASE StartCheckout(t)
      <3>1. Goto(t, "checkout")
        BY <2>1 DEF StartCheckout
      <3>2. /\ CountAt(pc, SlotPCs) \in Nat /\ CountAt(pc', SlotPCs) \in Nat
            /\ CountAt(pc', SlotPCs) = CountAt(pc, SlotPCs)
        BY <2>1, <3>1, StepCount DEF StartCheckout, PCs, SlotPCs, OneMoves
      <3> QED  BY <1>0, <2>1, <3>2 DEF StartCheckout, SlotAccounting
    <2>2. CASE DeadlinePasses(t)
      BY <2>2 DEF DeadlinePasses, SlotAccounting, CountAt
    <2>3. CASE WaitTimesOut(t)
      <3>1. Goto(t, "ready")
        BY <2>3 DEF WaitTimesOut
      <3>2. /\ CountAt(pc, SlotPCs) \in Nat /\ CountAt(pc', SlotPCs) \in Nat
            /\ CountAt(pc', SlotPCs) = CountAt(pc, SlotPCs)
        BY <2>3, <3>1, StepCount DEF WaitTimesOut, PCs, SlotPCs, OneMoves
      <3> QED  BY <1>0, <2>3, <3>2 DEF WaitTimesOut, SlotAccounting
    <2>4. CASE CheckoutIdle(t)
      <3>1. Goto(t, "running")
        BY <2>4 DEF CheckoutIdle, PopIdle
      <3>2. /\ CountAt(pc, SlotPCs) \in Nat /\ CountAt(pc', SlotPCs) \in Nat
            /\ CountAt(pc', SlotPCs) = CountAt(pc, SlotPCs) + 1
        BY <2>4, <3>1, StepCount DEF CheckoutIdle, PCs, SlotPCs, OneMoves
      <3>3. Len(idle') = Len(idle) - 1
        BY <2>4, PopShortens DEF TypeOK, CheckoutIdle, PopIdle
      <3> QED  BY <1>0, <2>4, <3>2, <3>3 DEF CheckoutIdle, SlotAccounting
    <2>5. CASE CheckoutUse(t)
      <3>1. Goto(t, "running")
        BY <2>5 DEF CheckoutUse, PopIdle
      <3>2. /\ CountAt(pc, SlotPCs) \in Nat /\ CountAt(pc', SlotPCs) \in Nat
            /\ CountAt(pc', SlotPCs) = CountAt(pc, SlotPCs) + 1
        BY <2>5, <3>1, StepCount DEF CheckoutUse, PCs, SlotPCs, OneMoves
      <3>3. Len(idle') = Len(idle) - 1
        BY <2>5, PopShortens DEF TypeOK, CheckoutUse, PopIdle
      <3> QED  BY <1>0, <2>5, <3>2, <3>3 DEF CheckoutUse, SlotAccounting
    <2>6. CASE CheckoutBreakerOpen(t)
      <3>1. Goto(t, "ready")
        BY <2>6 DEF CheckoutBreakerOpen
      <3>2. /\ CountAt(pc, SlotPCs) \in Nat /\ CountAt(pc', SlotPCs) \in Nat
            /\ CountAt(pc', SlotPCs) = CountAt(pc, SlotPCs)
        BY <2>6, <3>1, StepCount DEF CheckoutBreakerOpen, PCs, SlotPCs, OneMoves
      <3> QED  BY <1>0, <2>6, <3>2 DEF CheckoutBreakerOpen, SlotAccounting
    <2>7. CASE CheckoutBuild(t)
      <3>1. Goto(t, "building")
        BY <2>7 DEF CheckoutBuild
      <3>2. /\ CountAt(pc, SlotPCs) \in Nat /\ CountAt(pc', SlotPCs) \in Nat
            /\ CountAt(pc', SlotPCs) = CountAt(pc, SlotPCs) + 1
        BY <2>7, <3>1, StepCount DEF CheckoutBuild, PCs, SlotPCs, OneMoves
      <3> QED  BY <1>0, <2>7, <3>2 DEF CheckoutBuild, SlotAccounting
    <2>8. CASE CheckoutWait(t)
      <3>1. PICK v \in {"ready", "parked"} : Goto(t, v)
        BY <2>8 DEF CheckoutWait
      <3>2. CountAt(pc', SlotPCs) = CountAt(pc, SlotPCs)
        BY <2>8, <3>1, <1>0, StepCount DEF CheckoutWait, PCs, SlotPCs, OneMoves
      <3> QED  BY <2>8, <3>2 DEF CheckoutWait, SlotAccounting
    <2>9. CASE BuildSucceeds(t)
      <3>1. Goto(t, "running")
        BY <2>9 DEF BuildSucceeds
      <3>2. /\ CountAt(pc, SlotPCs) \in Nat /\ CountAt(pc', SlotPCs) \in Nat
            /\ CountAt(pc', SlotPCs) = CountAt(pc, SlotPCs)
        BY <2>9, <3>1, StepCount DEF BuildSucceeds, PCs, SlotPCs, OneMoves
      <3> QED  BY <1>0, <2>9, <3>2 DEF BuildSucceeds, SlotAccounting
    <2>10. CASE BuildFails(t)
      <3>1. Goto(t, "initfailed")
        BY <2>10 DEF BuildFails
      <3>2. /\ CountAt(pc, SlotPCs) \in Nat /\ CountAt(pc', SlotPCs) \in Nat
            /\ CountAt(pc', SlotPCs) = CountAt(pc, SlotPCs)
        BY <2>10, <3>1, StepCount DEF BuildFails, PCs, SlotPCs, OneMoves
      <3> QED  BY <1>0, <2>10, <3>2 DEF BuildFails, SlotAccounting
    <2>11. CASE BuildPanics(t)
      <3>1. Goto(t, "notify")
        BY <2>11 DEF BuildPanics
      <3>2. /\ CountAt(pc, SlotPCs) \in Nat /\ CountAt(pc', SlotPCs) \in Nat
            /\ CountAt(pc', SlotPCs) = CountAt(pc, SlotPCs) - 1
        BY <2>11, <3>1, StepCount DEF BuildPanics, PCs, SlotPCs, OneMoves
      <3> QED  BY <1>0, <2>11, <3>2 DEF BuildPanics, ReleaseSlot, SlotAccounting
    <2>12. CASE GuardAfterInitFailure(t)
      <3>1. Goto(t, "notify")
        BY <2>12 DEF GuardAfterInitFailure
      <3>2. /\ CountAt(pc, SlotPCs) \in Nat /\ CountAt(pc', SlotPCs) \in Nat
            /\ CountAt(pc', SlotPCs) = CountAt(pc, SlotPCs) - 1
        BY <2>12, <3>1, StepCount DEF GuardAfterInitFailure, PCs, SlotPCs, OneMoves
      <3> QED  BY <1>0, <2>12, <3>2 DEF GuardAfterInitFailure, ReleaseSlot, SlotAccounting
    <2>13. CASE ReturnToIdle(t)
      <3>1. Goto(t, "notify")
        BY <2>13 DEF ReturnToIdle
      <3>2. /\ CountAt(pc, SlotPCs) \in Nat /\ CountAt(pc', SlotPCs) \in Nat
            /\ CountAt(pc', SlotPCs) = CountAt(pc, SlotPCs) - 1
        BY <2>13, <3>1, StepCount DEF ReturnToIdle, PCs, SlotPCs, OneMoves
      <3>3. Len(idle') = Len(idle) + 1
        BY <2>13, AppendProperties DEF TypeOK, ReturnToIdle
      <3> QED  BY <1>0, <2>13, <3>2, <3>3 DEF ReturnToIdle, SlotAccounting
    <2>14. CASE RecycleDrop(t)
      <3>1. Goto(t, "recycling")
        BY <2>14 DEF RecycleDrop
      <3>2. /\ CountAt(pc, SlotPCs) \in Nat /\ CountAt(pc', SlotPCs) \in Nat
            /\ CountAt(pc', SlotPCs) = CountAt(pc, SlotPCs)
        BY <2>14, <3>1, StepCount DEF RecycleDrop, PCs, SlotPCs, OneMoves
      <3> QED  BY <1>0, <2>14, <3>2 DEF RecycleDrop, SlotAccounting
    <2>15. CASE RecycleRelease(t)
      <3>1. Goto(t, "notify")
        BY <2>15 DEF RecycleRelease
      <3>2. /\ CountAt(pc, SlotPCs) \in Nat /\ CountAt(pc', SlotPCs) \in Nat
            /\ CountAt(pc', SlotPCs) = CountAt(pc, SlotPCs) - 1
        BY <2>15, <3>1, StepCount DEF RecycleRelease, PCs, SlotPCs, OneMoves
      <3> QED  BY <1>0, <2>15, <3>2 DEF RecycleRelease, ReleaseSlot, SlotAccounting
    <2>16. CASE TrapDrop(t)
      <3>1. Goto(t, "discarding")
        BY <2>16 DEF TrapDrop
      <3>2. /\ CountAt(pc, SlotPCs) \in Nat /\ CountAt(pc', SlotPCs) \in Nat
            /\ CountAt(pc', SlotPCs) = CountAt(pc, SlotPCs)
        BY <2>16, <3>1, StepCount DEF TrapDrop, PCs, SlotPCs, OneMoves
      <3> QED  BY <1>0, <2>16, <3>2 DEF TrapDrop, SlotAccounting
    <2>17. CASE TrapRelease(t)
      <3>1. Goto(t, "notify")
        BY <2>17 DEF TrapRelease
      <3>2. /\ CountAt(pc, SlotPCs) \in Nat /\ CountAt(pc', SlotPCs) \in Nat
            /\ CountAt(pc', SlotPCs) = CountAt(pc, SlotPCs) - 1
        BY <2>17, <3>1, StepCount DEF TrapRelease, PCs, SlotPCs, OneMoves
      <3> QED  BY <1>0, <2>17, <3>2 DEF TrapRelease, ReleaseSlot, SlotAccounting
    <2>18. CASE CallPanics(t)
      <3>1. Goto(t, "unwound")
        BY <2>18 DEF CallPanics
      <3>2. /\ CountAt(pc, SlotPCs) \in Nat /\ CountAt(pc', SlotPCs) \in Nat
            /\ CountAt(pc', SlotPCs) = CountAt(pc, SlotPCs) - 1
        BY <2>18, <3>1, StepCount DEF CallPanics, PCs, SlotPCs, OneMoves
      <3> QED  BY <1>0, <2>18, <3>2 DEF CallPanics, ReleaseSlot, SlotAccounting
    <2>19. CASE DropAfterUnwind(t)
      <3>1. Goto(t, "ready")
        BY <2>19 DEF DropAfterUnwind
      <3>2. /\ CountAt(pc, SlotPCs) \in Nat /\ CountAt(pc', SlotPCs) \in Nat
            /\ CountAt(pc', SlotPCs) = CountAt(pc, SlotPCs)
        BY <2>19, <3>1, StepCount DEF DropAfterUnwind, PCs, SlotPCs, OneMoves
      <3> QED  BY <1>0, <2>19, <3>2 DEF DropAfterUnwind, SlotAccounting
    <2>20. CASE NotifyOne(t)
      BY <2>20, NotifyCount DEF NotifyOne, SlotAccounting
    <2> QED
      BY <1>3, <2>1, <2>2, <2>3, <2>4, <2>5, <2>6, <2>7, <2>8, <2>9,
         <2>10, <2>11, <2>12, <2>13, <2>14, <2>15, <2>16, <2>17,
         <2>18, <2>19, <2>20
         DEF Step, Checkout, Finish
  <1> QED  BY <1>1, <1>2, <1>3 DEF Next

(* A step that parks nobody leaves the parked threads among the old ones.  *)
LEMMA ParkedShrinks ==
  ASSUME TypeOK, NEW t \in Threads, NEW v \in PCs, Goto(t, v), v # "parked"
  PROVE  Parked' \subseteq Parked
  BY DEF TypeOK, Goto, Parked

(* An idle instance gains its wake-up in the step that makes it idle, and  *)
(* the thread that consumes a wake-up takes an idle instance with it.      *)
LEMMA IdleStep ==
  ASSUME TypeOK, IdleNeverStranded, [Next]_vars
  PROVE  IdleNeverStranded'
  <1>0. Len(idle) \in Nat /\ pc \in [Threads -> PCs]
    BY LenProperties DEF TypeOK
  <1>1. CASE UNCHANGED vars
    BY <1>1 DEF vars, IdleNeverStranded, Parked, CountAt
  <1>2. CASE CooldownElapses
    BY <1>2 DEF CooldownElapses, IdleNeverStranded, Parked, CountAt
  <1>3. ASSUME NEW t \in Threads, Step(t)
        PROVE  IdleNeverStranded'
    <2>1. CASE StartCheckout(t)
      <3>1. Goto(t, "checkout")
        BY <2>1 DEF StartCheckout
      <3>2. Parked' \subseteq Parked
        BY <3>1, ParkedShrinks DEF PCs
      <3>3. /\ CountAt(pc, TransitPCs) \in Nat /\ CountAt(pc', TransitPCs) \in Nat
            /\ CountAt(pc', TransitPCs) = CountAt(pc, TransitPCs) + 1
        BY <2>1, <3>1, StepCount DEF StartCheckout, PCs, TransitPCs, OneMoves
      <3>4. Len(idle') = Len(idle)
        BY <2>1 DEF StartCheckout
      <3> QED  BY <1>0, <3>2, <3>3, <3>4 DEF IdleNeverStranded
    <2>2. CASE DeadlinePasses(t)
      BY <2>2 DEF DeadlinePasses, IdleNeverStranded, Parked, CountAt
    <2>3. CASE WaitTimesOut(t)
      <3>1. Goto(t, "ready")
        BY <2>3 DEF WaitTimesOut
      <3>2. Parked' \subseteq Parked
        BY <3>1, ParkedShrinks DEF PCs
      <3>3. /\ CountAt(pc, TransitPCs) \in Nat /\ CountAt(pc', TransitPCs) \in Nat
            /\ CountAt(pc', TransitPCs) = CountAt(pc, TransitPCs)
        BY <2>3, <3>1, StepCount DEF WaitTimesOut, PCs, TransitPCs, OneMoves
      <3>4. Len(idle') = Len(idle)
        BY <2>3 DEF WaitTimesOut
      <3> QED  BY <1>0, <3>2, <3>3, <3>4 DEF IdleNeverStranded
    <2>4. CASE CheckoutIdle(t)
      <3>1. Goto(t, "running")
        BY <2>4 DEF CheckoutIdle, PopIdle
      <3>2. Parked' \subseteq Parked
        BY <3>1, ParkedShrinks DEF PCs
      <3>3. /\ CountAt(pc, TransitPCs) \in Nat /\ CountAt(pc', TransitPCs) \in Nat
            /\ CountAt(pc', TransitPCs) = CountAt(pc, TransitPCs)
        BY <2>4, <3>1, StepCount DEF CheckoutIdle, PCs, TransitPCs, OneMoves
      <3>4. Len(idle') = Len(idle) - 1
        BY <2>4, PopShortens DEF TypeOK, CheckoutIdle, PopIdle
      <3> QED  BY <1>0, <3>2, <3>3, <3>4 DEF IdleNeverStranded
    <2>5. CASE CheckoutUse(t)
      <3>1. Goto(t, "running")
        BY <2>5 DEF CheckoutUse, PopIdle
      <3>2. Parked' \subseteq Parked
        BY <3>1, ParkedShrinks DEF PCs
      <3>3. /\ CountAt(pc, TransitPCs) \in Nat /\ CountAt(pc', TransitPCs) \in Nat
            /\ CountAt(pc', TransitPCs) = CountAt(pc, TransitPCs) - 1
        BY <2>5, <3>1, StepCount DEF CheckoutUse, PCs, TransitPCs, OneMoves
      <3>4. Len(idle') = Len(idle) - 1
        BY <2>5, PopShortens DEF TypeOK, CheckoutUse, PopIdle
      <3> QED  BY <1>0, <3>2, <3>3, <3>4 DEF IdleNeverStranded
    <2>6. CASE CheckoutBreakerOpen(t)
      <3>1. Goto(t, "ready")
        BY <2>6 DEF CheckoutBreakerOpen
      <3>2. Parked' \subseteq Parked
        BY <3>1, ParkedShrinks DEF PCs
      <3>3. /\ CountAt(pc, TransitPCs) \in Nat /\ CountAt(pc', TransitPCs) \in Nat
            /\ CountAt(pc', TransitPCs) = CountAt(pc, TransitPCs) - 1
        BY <2>6, <3>1, StepCount DEF CheckoutBreakerOpen, PCs, TransitPCs, OneMoves
      <3>4. Len(idle') = 0
        BY <2>6 DEF CheckoutBreakerOpen
      <3> QED  BY <1>0, <3>2, <3>3, <3>4 DEF IdleNeverStranded
    <2>7. CASE CheckoutBuild(t)
      <3>1. Goto(t, "building")
        BY <2>7 DEF CheckoutBuild
      <3>2. Parked' \subseteq Parked
        BY <3>1, ParkedShrinks DEF PCs
      <3>3. /\ CountAt(pc, TransitPCs) \in Nat /\ CountAt(pc', TransitPCs) \in Nat
            /\ CountAt(pc', TransitPCs) = CountAt(pc, TransitPCs) - 1
        BY <2>7, <3>1, StepCount DEF CheckoutBuild, PCs, TransitPCs, OneMoves
      <3>4. Len(idle') = 0
        BY <2>7 DEF CheckoutBuild
      <3> QED  BY <1>0, <3>2, <3>3, <3>4 DEF IdleNeverStranded
    <2>8. CASE CheckoutWait(t)
      <3>1. PICK v \in {"ready", "parked"} : Goto(t, v)
        BY <2>8 DEF CheckoutWait
      <3>2. CountAt(pc', TransitPCs) \in Nat
        BY <3>1, StepCount DEF PCs, OneMoves
      <3>3. Len(idle') = 0
        BY <2>8 DEF CheckoutWait
      <3> QED  BY <3>2, <3>3 DEF IdleNeverStranded
    <2>9. CASE BuildSucceeds(t)
      <3>1. Goto(t, "running")
        BY <2>9 DEF BuildSucceeds
      <3>2. Parked' \subseteq Parked
        BY <3>1, ParkedShrinks DEF PCs
      <3>3. /\ CountAt(pc, TransitPCs) \in Nat /\ CountAt(pc', TransitPCs) \in Nat
            /\ CountAt(pc', TransitPCs) = CountAt(pc, TransitPCs)
        BY <2>9, <3>1, StepCount DEF BuildSucceeds, PCs, TransitPCs, OneMoves
      <3>4. Len(idle') = Len(idle)
        BY <2>9 DEF BuildSucceeds
      <3> QED  BY <1>0, <3>2, <3>3, <3>4 DEF IdleNeverStranded
    <2>10. CASE BuildFails(t)
      <3>1. Goto(t, "initfailed")
        BY <2>10 DEF BuildFails
      <3>2. Parked' \subseteq Parked
        BY <3>1, ParkedShrinks DEF PCs
      <3>3. /\ CountAt(pc, TransitPCs) \in Nat /\ CountAt(pc', TransitPCs) \in Nat
            /\ CountAt(pc', TransitPCs) = CountAt(pc, TransitPCs)
        BY <2>10, <3>1, StepCount DEF BuildFails, PCs, TransitPCs, OneMoves
      <3>4. Len(idle') = Len(idle)
        BY <2>10 DEF BuildFails
      <3> QED  BY <1>0, <3>2, <3>3, <3>4 DEF IdleNeverStranded
    <2>11. CASE BuildPanics(t)
      <3>1. Goto(t, "notify")
        BY <2>11 DEF BuildPanics
      <3>2. Parked' \subseteq Parked
        BY <3>1, ParkedShrinks DEF PCs
      <3>3. /\ CountAt(pc, TransitPCs) \in Nat /\ CountAt(pc', TransitPCs) \in Nat
            /\ CountAt(pc', TransitPCs) = CountAt(pc, TransitPCs) + 1
        BY <2>11, <3>1, StepCount DEF BuildPanics, PCs, TransitPCs, OneMoves
      <3>4. Len(idle') = Len(idle)
        BY <2>11 DEF BuildPanics
      <3> QED  BY <1>0, <3>2, <3>3, <3>4 DEF IdleNeverStranded
    <2>12. CASE GuardAfterInitFailure(t)
      <3>1. Goto(t, "notify")
        BY <2>12 DEF GuardAfterInitFailure
      <3>2. Parked' \subseteq Parked
        BY <3>1, ParkedShrinks DEF PCs
      <3>3. /\ CountAt(pc, TransitPCs) \in Nat /\ CountAt(pc', TransitPCs) \in Nat
            /\ CountAt(pc', TransitPCs) = CountAt(pc, TransitPCs) + 1
        BY <2>12, <3>1, StepCount DEF GuardAfterInitFailure, PCs, TransitPCs, OneMoves
      <3>4. Len(idle') = Len(idle)
        BY <2>12 DEF GuardAfterInitFailure
      <3> QED  BY <1>0, <3>2, <3>3, <3>4 DEF IdleNeverStranded
    <2>13. CASE ReturnToIdle(t)
      <3>1. Goto(t, "notify")
        BY <2>13 DEF ReturnToIdle
      <3>2. Parked' \subseteq Parked
        BY <3>1, ParkedShrinks DEF PCs
      <3>3. /\ CountAt(pc, TransitPCs) \in Nat /\ CountAt(pc', TransitPCs) \in Nat
            /\ CountAt(pc', TransitPCs) = CountAt(pc, TransitPCs) + 1
        BY <2>13, <3>1, StepCount DEF ReturnToIdle, PCs, TransitPCs, OneMoves
      <3>4. Len(idle') = Len(idle) + 1
        BY <2>13, AppendProperties DEF TypeOK, ReturnToIdle
      <3> QED  BY <1>0, <3>2, <3>3, <3>4 DEF IdleNeverStranded
    <2>14. CASE RecycleDrop(t)
      <3>1. Goto(t, "recycling")
        BY <2>14 DEF RecycleDrop
      <3>2. Parked' \subseteq Parked
        BY <3>1, ParkedShrinks DEF PCs
      <3>3. /\ CountAt(pc, TransitPCs) \in Nat /\ CountAt(pc', TransitPCs) \in Nat
            /\ CountAt(pc', TransitPCs) = CountAt(pc, TransitPCs)
        BY <2>14, <3>1, StepCount DEF RecycleDrop, PCs, TransitPCs, OneMoves
      <3>4. Len(idle') = Len(idle)
        BY <2>14 DEF RecycleDrop
      <3> QED  BY <1>0, <3>2, <3>3, <3>4 DEF IdleNeverStranded
    <2>15. CASE RecycleRelease(t)
      <3>1. Goto(t, "notify")
        BY <2>15 DEF RecycleRelease
      <3>2. Parked' \subseteq Parked
        BY <3>1, ParkedShrinks DEF PCs
      <3>3. /\ CountAt(pc, TransitPCs) \in Nat /\ CountAt(pc', TransitPCs) \in Nat
            /\ CountAt(pc', TransitPCs) = CountAt(pc, TransitPCs) + 1
        BY <2>15, <3>1, StepCount DEF RecycleRelease, PCs, TransitPCs, OneMoves
      <3>4. Len(idle') = Len(idle)
        BY <2>15 DEF RecycleRelease
      <3> QED  BY <1>0, <3>2, <3>3, <3>4 DEF IdleNeverStranded
    <2>16. CASE TrapDrop(t)
      <3>1. Goto(t, "discarding")
        BY <2>16 DEF TrapDrop
      <3>2. Parked' \subseteq Parked
        BY <3>1, ParkedShrinks DEF PCs
      <3>3. /\ CountAt(pc, TransitPCs) \in Nat /\ CountAt(pc', TransitPCs) \in Nat
            /\ CountAt(pc', TransitPCs) = CountAt(pc, TransitPCs)
        BY <2>16, <3>1, StepCount DEF TrapDrop, PCs, TransitPCs, OneMoves
      <3>4. Len(idle') = Len(idle)
        BY <2>16 DEF TrapDrop
      <3> QED  BY <1>0, <3>2, <3>3, <3>4 DEF IdleNeverStranded
    <2>17. CASE TrapRelease(t)
      <3>1. Goto(t, "notify")
        BY <2>17 DEF TrapRelease
      <3>2. Parked' \subseteq Parked
        BY <3>1, ParkedShrinks DEF PCs
      <3>3. /\ CountAt(pc, TransitPCs) \in Nat /\ CountAt(pc', TransitPCs) \in Nat
            /\ CountAt(pc', TransitPCs) = CountAt(pc, TransitPCs) + 1
        BY <2>17, <3>1, StepCount DEF TrapRelease, PCs, TransitPCs, OneMoves
      <3>4. Len(idle') = Len(idle)
        BY <2>17 DEF TrapRelease
      <3> QED  BY <1>0, <3>2, <3>3, <3>4 DEF IdleNeverStranded
    <2>18. CASE CallPanics(t)
      <3>1. Goto(t, "unwound")
        BY <2>18 DEF CallPanics
      <3>2. Parked' \subseteq Parked
        BY <3>1, ParkedShrinks DEF PCs
      <3>3. /\ CountAt(pc, TransitPCs) \in Nat /\ CountAt(pc', TransitPCs) \in Nat
            /\ CountAt(pc', TransitPCs) = CountAt(pc, TransitPCs) + 1
        BY <2>18, <3>1, StepCount DEF CallPanics, PCs, TransitPCs, OneMoves
      <3>4. Len(idle') = Len(idle)
        BY <2>18 DEF CallPanics
      <3> QED  BY <1>0, <3>2, <3>3, <3>4 DEF IdleNeverStranded
    <2>19. CASE DropAfterUnwind(t)
      <3>1. Goto(t, "ready")
        BY <2>19 DEF DropAfterUnwind
      <3>2. Parked' \subseteq Parked
        BY <3>1, ParkedShrinks DEF PCs
      <3>3. /\ CountAt(pc, TransitPCs) \in Nat /\ CountAt(pc', TransitPCs) \in Nat
            /\ CountAt(pc', TransitPCs) = CountAt(pc, TransitPCs)
        BY <2>19, <3>1, StepCount DEF DropAfterUnwind, PCs, TransitPCs, OneMoves
      <3>4. Len(idle') = Len(idle)
        BY <2>19 DEF DropAfterUnwind
      <3> QED  BY <1>0, <3>2, <3>3, <3>4 DEF IdleNeverStranded
    <2>20. CASE NotifyOne(t)
      BY <1>0, <2>20, NotifyCount DEF NotifyOne, IdleNeverStranded
    <2> QED
      BY <1>3, <2>1, <2>2, <2>3, <2>4, <2>5, <2>6, <2>7, <2>8, <2>9,
         <2>10, <2>11, <2>12, <2>13, <2>14, <2>15, <2>16, <2>17,
         <2>18, <2>19, <2>20
         DEF Step, Checkout, Finish
  <1> QED  BY <1>1, <1>2, <1>3 DEF Next

-----------------------------------------------------------------------------
(* Initially one eager instance is idle and no thread holds a slot.        *)
LEMMA InitIInv ==
  ASSUME Init
  PROVE  TypeOK /\ SlotAccounting /\ IdleNeverStranded
  <1>1. TypeOK
    <2>1. idle \in Seq(0..(MaxRequests - 1))
      BY DEF Init
    <2>2. open \in BOOLEAN  BY DEF Init
    <2> QED  BY <2>1, <2>2 DEF Init, TypeOK, PCs
  <1>2. Len(idle) = 1 /\ live = 1
    BY DEF Init
  <1>3. {t \in Threads : pc[t] \in SlotPCs} = {} /\ Parked = {}
    BY DEF Init, SlotPCs, Parked
  <1>4. CountAt(pc, SlotPCs) = 0
    BY <1>3, FS_EmptySet DEF CountAt
  <1> QED  BY <1>1, <1>2, <1>3, <1>4 DEF SlotAccounting, IdleNeverStranded

(* TrustedPool keeps its types in every reachable state; an instance that  *)
(* is idle or in use has served fewer than max_requests_per_instance       *)
(* requests.                                                               *)
THEOREM TypeCorrect == Spec => []TypeOK
  <1>1. Init => TypeOK  BY InitIInv
  <1>2. TypeOK /\ [Next]_vars => TypeOK'  BY TypeStep
  <1> QED  BY <1>1, <1>2, PTL DEF Spec

(* No interleaving of checkouts, failed builds, traps, panics and recycles *)
(* leaks a `live` slot or takes the pool past its cap.                     *)
THEOREM SlotsAccounted == Spec => []SlotAccounting
  <1>1. Init => SlotAccounting  BY InitIInv
  <1>2. TypeOK /\ SlotAccounting /\ [Next]_vars => SlotAccounting'
    BY SlotStep
  <1> QED  BY <1>1, <1>2, TypeCorrect, PTL DEF Spec

(* The single notify_one after each check-in is enough for idle instances: *)
(* no thread stays parked beside one that nobody is coming for.            *)
THEOREM IdleReachesWaiters == Spec => []IdleNeverStranded
  <1>1. Init => IdleNeverStranded  BY InitIInv
  <1>2. TypeOK /\ IdleNeverStranded /\ [Next]_vars => IdleNeverStranded'
    BY IdleStep
  <1> QED  BY <1>1, <1>2, TypeCorrect, PTL DEF Spec

(* Without a panic nobody unwinds ...                                      *)
NoUnwinding == \A t \in Threads : pc[t] \notin {"unwound", "dropping"}

LEMMA NoUnwindingStep ==
  ASSUME "panic" \notin Failures, TypeOK, NoUnwinding, [Next]_vars
  PROVE  NoUnwinding'
  <1> USE DEF NoUnwinding, TypeOK, Goto
  <1>1. CASE UNCHANGED vars \/ CooldownElapses
    BY <1>1 DEF vars, CooldownElapses
  <1>2. ASSUME NEW t \in Threads, Step(t)
        PROVE  NoUnwinding'
    <2>1. CASE StartCheckout(t) \/ CheckoutIdle(t) \/ DeadlinePasses(t)
               \/ WaitTimesOut(t)
      BY <2>1 DEF StartCheckout, CheckoutIdle, PopIdle, DeadlinePasses,
                  WaitTimesOut
    <2>2. CASE Checkout(t)
      BY <2>2 DEF Checkout, CheckoutUse, PopIdle, CheckoutBreakerOpen,
                  CheckoutBuild, CheckoutWait
    <2>3. CASE Finish(t)
      BY <2>3 DEF Finish, BuildSucceeds, BuildFails, BuildPanics,
                  GuardAfterInitFailure, ReturnToIdle, RecycleDrop,
                  RecycleRelease, TrapDrop, TrapRelease, CallPanics,
                  DropAfterUnwind
    <2>4. CASE NotifyOne(t)
      BY <2>4 DEF NotifyOne, Parked
    <2> QED  BY <1>2, <2>1, <2>2, <2>3, <2>4 DEF Step
  <1> QED  BY <1>1, <1>2 DEF Next

(* ... so every instance in memory has a slot of its own, and the recycle  *)
(* and trap arms keep the physical instances within the cap.               *)
THEOREM PhysicalBound ==
  ASSUME "panic" \notin Failures
  PROVE  Spec => []PhysicalWithinCap
  <1>1. Init => NoUnwinding  BY DEF Init, NoUnwinding
  <1>2. TypeOK /\ NoUnwinding /\ [Next]_vars => NoUnwinding'
    BY NoUnwindingStep
  <1>3. TypeOK /\ SlotAccounting /\ NoUnwinding => PhysicalWithinCap
    <2> SUFFICES ASSUME TypeOK, SlotAccounting, NoUnwinding
                 PROVE  PhysicalWithinCap
      OBVIOUS
    <2> DEFINE S == {t \in Threads : pc[t] \in SlotPCs}
               P == {t \in Threads : pc[t] \in InstancePCs}
    <2>1. P \subseteq S
      BY DEF NoUnwinding, SlotPCs, InstancePCs
    <2>2. IsFiniteSet(S)
      BY FS_Subset, ThreadsAssumption
    <2>3. /\ Cardinality(S) \in Nat /\ Cardinality(P) \in Nat
          /\ Cardinality(P) <= Cardinality(S)
      BY <2>1, <2>2, FS_Subset, FS_CardinalityType
    <2>4. CountAt(pc, SlotPCs) = Cardinality(S)
          /\ CountAt(pc, InstancePCs) = Cardinality(P)
      BY DEF CountAt
    <2>5. Len(idle) \in Nat /\ live \in Nat
      BY LenProperties DEF TypeOK
    <2> HIDE DEF S, P
    <2> QED  BY <2>3, <2>4, <2>5 DEF SlotAccounting, PhysicalWithinCap
  <1> QED  BY <1>1, <1>2, <1>3, TypeCorrect, SlotsAccounted, PTL DEF Spec

-----------------------------------------------------------------------------
(* StateStore.  What a crash can take back is told by `run`, the count the *)
(* combiner keeps: the hot operations not yet synced are at most that, and *)
(* it stays below the flush cadence.  That needs the combine lock (one     *)
(* caller commits at a time, so the batch it drained is the batch it       *)
(* commits) and a batch that is never empty.                               *)

OpKinds == {"set", "delete", "increment", "acquire"}

Jobs == [owner : Callers \cup {None}, op : Ops]

CombineInv ==
  /\ at \in [Callers -> {"idle", "read", "charge", "apply", "poll", "elect",
                         "parked", "drain", "commit", "unlock"}]
  /\ op \in [Callers -> Ops \cup {None}]
  /\ \A t \in Callers : at[t] \in {"read", "charge", "apply"} => op[t] \in Ops
  /\ queue \in Seq(Jobs) /\ batch \in Seq(Jobs)
  /\ \A t \in Callers : at[t] \in {"drain", "commit", "unlock"} => combiner = t
  /\ \A t \in Callers : at[t] = "commit" => batch # <<>>

CadenceInv ==
  backend = "redb" =>
    /\ run \in Nat /\ run < FlushEvery
    /\ unsynced \in [OpKinds -> Nat]
    /\ unsynced["set"] = 0 /\ unsynced["delete"] = 0
    /\ unsynced["increment"] + unsynced["acquire"] <= run
    /\ unsynced = NoneUnsynced => db = durable

LEMMA Cadences ==
  /\ FlushEvery \in Nat /\ FlushEvery > 0 /\ MaxBatch \in Nat /\ MaxBatch > 0
  /\ None \notin Callers
  BY ShapeAssumption, BoundsAssumption

LEMMA KindOfOp == \A o \in Ops : o.kind \in OpKinds
  BY DEF Ops, KvOps, CounterOps, BucketOps, OpKinds

LEMMA InitStore == StoreInit => CombineInv /\ CadenceInv
<1> SUFFICES ASSUME StoreInit PROVE CombineInv /\ CadenceInv
  OBVIOUS
<1>1. <<>> \in Seq(Jobs)
  OBVIOUS
<1>2. CombineInv
  BY <1>1 DEF StoreInit, CombineInv
<1>3. NoneUnsynced \in [OpKinds -> Nat] /\ \A k \in OpKinds : NoneUnsynced[k] = 0
  BY DEF NoneUnsynced, OpKinds
<1>4. CadenceInv
  BY <1>3, Cadences DEF StoreInit, CadenceInv, OpKinds
<1> QED  BY <1>2, <1>4

(* A caller drains the queue: the batch is not empty and both stay jobs.   *)
LEMMA DrainStep ==
  ASSUME CombineInv, NEW t \in Callers, Drain(t)
  PROVE  /\ queue' \in Seq(Jobs) /\ batch' \in Seq(Jobs) /\ batch' # <<>>
<1> DEFINE n == IF Len(queue) < MaxBatch THEN Len(queue) ELSE MaxBatch
<1>1. queue \in Seq(Jobs) /\ queue # <<>> /\ Len(queue) \in Nat /\ Len(queue) > 0
  BY DEF CombineInv, Drain
<1>2. n \in 1..Len(queue)
  BY <1>1, Cadences
<1>3. batch' = SubSeq(queue, 1, n) /\ queue' = SubSeq(queue, n + 1, Len(queue))
  BY DEF Drain
<1> HIDE DEF n
<1>4. \A i \in 1..Len(queue) : queue[i] \in Jobs
  BY <1>1
<1>5. SubSeq(queue, 1, n) \in Seq(Jobs) /\ Len(SubSeq(queue, 1, n)) = n
  BY <1>1, <1>2, <1>4
<1>6. SubSeq(queue, n + 1, Len(queue)) \in Seq(Jobs)
  BY <1>1, <1>2, <1>4
<1> QED  BY <1>2, <1>3, <1>5, <1>6

(* The orphaned jobs of a dead combiner are jobs still.                    *)
LEMMA OrphanJobs ==
  ASSUME NEW q \in Seq(Jobs), NEW t \in Callers
  PROVE  [i \in DOMAIN q |-> IF q[i].owner = t THEN [q[i] EXCEPT !.owner = None]
                             ELSE q[i]] \in Seq(Jobs)
<1> DEFINE f(i) == IF q[i].owner = t THEN [q[i] EXCEPT !.owner = None] ELSE q[i]
<1>1. Len(q) \in Nat /\ DOMAIN q = 1..Len(q)
  OBVIOUS
<1>2. ASSUME NEW i \in 1..Len(q) PROVE f(i) \in Jobs
  <2>1. q[i] \in Jobs
    BY <1>1
  <2> QED  BY <2>1 DEF Jobs
<1> HIDE DEF f
<1>3. [i \in 1..Len(q) |-> f(i)] \in Seq(Jobs)
  BY <1>1, <1>2
<1> QED  BY <1>1, <1>3 DEF f

LEMMA CombineStep ==
  ASSUME CombineInv, StoreNext
  PROVE  CombineInv'
<1> USE Cadences
<1>1. ASSUME NEW t \in Callers, NEW o \in Ops, Call(t, o) PROVE CombineInv'
  BY <1>1 DEF Call, MoveTo, CombineInv, combining
<1>2. ASSUME NEW t \in Callers, Read(t) \/ ReadFails(t) PROVE CombineInv'
  BY <1>2 DEF Read, ReadFails, Reads, MoveTo, CombineInv, combining
<1>3. ASSUME NEW t \in Callers, Charge(t) PROVE CombineInv'
  BY <1>3 DEF Charge, MoveTo, CombineInv, combining
<1>4. ASSUME NEW t \in Callers, Deny(t) \/ ApplyInMemory(t) PROVE CombineInv'
  BY <1>4 DEF Deny, ApplyInMemory, Leave, CombineInv, combining
<1>5. ASSUME NEW t \in Callers, Submit(t) PROVE CombineInv'
  <2>1. [owner |-> t, op |-> op[t]] \in Jobs
    BY <1>5 DEF Submit, CombineInv, Jobs
  <2>2. queue' \in Seq(Jobs)
    BY <1>5, <2>1 DEF Submit, CombineInv
  <2> QED  BY <1>5, <2>2 DEF Submit, MoveTo, CombineInv
<1>6. ASSUME NEW t \in Callers, Return(t) PROVE CombineInv'
  BY <1>6 DEF Return, Leave, CombineInv
<1>7. ASSUME NEW t \in Callers, PollEmpty(t) \/ Park(t) \/ ParkExpires(t)
      PROVE  CombineInv'
  BY <1>7 DEF PollEmpty, Park, ParkExpires, MoveTo, CombineInv, combining
<1>8. ASSUME NEW t \in Callers, Elect(t) PROVE CombineInv'
  BY <1>8 DEF Elect, MoveTo, CombineInv
<1>9. ASSUME NEW t \in Callers, Drain(t) PROVE CombineInv'
  <2>1. queue' \in Seq(Jobs) /\ batch' \in Seq(Jobs) /\ batch' # <<>>
    BY <1>9, DrainStep
  <2> QED  BY <1>9, <2>1 DEF Drain, MoveTo, CombineInv
<1>10. ASSUME NEW t \in Callers, DrainEnds(t) PROVE CombineInv'
  BY <1>10 DEF DrainEnds, MoveTo, CombineInv, combining
<1>11. ASSUME NEW t \in Callers, Commit(t) \/ CommitFails(t) PROVE CombineInv'
  <2>1. <<>> \in Seq(Jobs)
    OBVIOUS
  <2> QED  BY <1>11, <2>1 DEF Commit, CommitFails, Answer, MoveTo, CombineInv
<1>12. ASSUME NEW t \in Callers, CombinerDies(t) PROVE CombineInv'
  <2>1. <<>> \in Seq(Jobs)
    OBVIOUS
  <2>2. queue' \in Seq(Jobs)
    BY <1>12, OrphanJobs DEF CombinerDies, CombineInv
  <2> QED  BY <1>12, <2>1, <2>2 DEF CombinerDies, Leave, CombineInv
<1>13. ASSUME NEW t \in Callers, Unlock(t) PROVE CombineInv'
  BY <1>13 DEF Unlock, MoveTo, CombineInv
<1>14. CASE Crash
  <2>1. <<>> \in Seq(Jobs)
    OBVIOUS
  <2> QED  BY <1>14, <2>1 DEF Crash, CombineInv
<1> QED
  BY <1>1, <1>2, <1>3, <1>4, <1>5, <1>6, <1>7, <1>8, <1>9, <1>10, <1>11, <1>12,
     <1>13, <1>14 DEF StoreNext, StoreStep

(* The jobs of two kinds are together no more than the batch.              *)
LEMMA TwoKinds ==
  ASSUME NEW b \in Seq(Jobs)
  PROVE  LET Of(k) == {i \in DOMAIN b : b[i].op.kind = k}
         IN  /\ \A k \in OpKinds : Cardinality(Of(k)) \in Nat
             /\ \A k \in OpKinds : Of(k) # {} => Cardinality(Of(k)) > 0
             /\ Of("set") = {} => Cardinality(Of("set")) = 0
             /\ Of("delete") = {} => Cardinality(Of("delete")) = 0
             /\ Cardinality(Of("increment")) + Cardinality(Of("acquire")) <= Len(b)
<1> DEFINE Of(k) == {i \in DOMAIN b : b[i].op.kind = k}
<1>1. Len(b) \in Nat /\ DOMAIN b = 1..Len(b)
  OBVIOUS
<1>2. IsFiniteSet(1..Len(b)) /\ Cardinality(1..Len(b)) = Len(b)
  <2> DEFINE n == Len(b)
  <2>1. n \in Nat
    BY <1>1
  <2> HIDE DEF n
  <2>2. /\ IsFiniteSet(1..n)
        /\ Cardinality(1..n) = IF 1 > n THEN 0 ELSE n - 1 + 1
    BY <2>1, FS_Interval
  <2>3. Cardinality(1..n) = n
    BY <2>1, <2>2
  <2> QED  BY <2>2, <2>3 DEF n
<1>3. \A k : Of(k) \subseteq 1..Len(b)
  BY <1>1
<1>4. \A k : IsFiniteSet(Of(k)) /\ Cardinality(Of(k)) \in Nat
  BY <1>2, <1>3, FS_Subset, FS_CardinalityType
<1>5. \A k : Of(k) # {} => Cardinality(Of(k)) > 0
  BY <1>4, FS_EmptySet
<1>6. Of("increment") \cap Of("acquire") = {}
  OBVIOUS
<1>7. Of("increment") \cup Of("acquire") \subseteq 1..Len(b)
  BY <1>3
<1> HIDE DEF Of
<1>8. /\ IsFiniteSet(Of("increment") \cup Of("acquire"))
      /\ Cardinality(Of("increment") \cup Of("acquire")) <= Len(b)
  BY <1>2, <1>7, FS_Subset
<1>9. Cardinality(Of("increment") \cup Of("acquire")) =
        Cardinality(Of("increment")) + Cardinality(Of("acquire"))
  <2>1. Cardinality(Of("increment") \cap Of("acquire")) = 0
    BY <1>6, FS_EmptySet
  <2>2. Cardinality(Of("increment") \cup Of("acquire")) =
        Cardinality(Of("increment")) + Cardinality(Of("acquire"))
        - Cardinality(Of("increment") \cap Of("acquire"))
    BY <1>4, FS_Union
  <2> QED  BY <1>4, <2>1, <2>2
<1>10. Of("set") = {} => Cardinality(Of("set")) = 0
  BY FS_EmptySet
<1>11. Of("delete") = {} => Cardinality(Of("delete")) = 0
  BY FS_EmptySet
<1> QED  BY <1>4, <1>5, <1>8, <1>9, <1>10, <1>11 DEF Of

LEMMA CommitStep ==
  ASSUME CombineInv, CadenceInv, NEW t \in Callers, Commit(t)
  PROVE  CadenceInv'
<1> DEFINE Of(k) == {i \in DOMAIN batch : batch[i].op.kind = k}
           c(k) == Cardinality(Of(k))
<1> SUFFICES ASSUME backend' = "redb"
             PROVE  CadenceInv'
  BY DEF CadenceInv
<1>1. /\ backend = "redb" /\ backend' = backend
      /\ batch \in Seq(Jobs) /\ batch # <<>> /\ at[t] = "commit"
      /\ RecordCommit(batch)
  BY DEF Commit, fixed, CombineInv
<1>2. NoneUnsynced \in [OpKinds -> Nat] /\ \A k \in OpKinds : NoneUnsynced[k] = 0
  BY DEF NoneUnsynced, OpKinds
<1>3. CASE Immediate(batch)
  <2>1. durable' = db' /\ run' = 0 /\ unsynced' = NoneUnsynced
    BY <1>1, <1>3 DEF RecordCommit
  <2> QED  BY <1>2, <2>1, Cadences DEF CadenceInv, OpKinds
<1>4. CASE ~Immediate(batch)
  <2>1. /\ run \in Nat /\ unsynced \in [OpKinds -> Nat]
        /\ unsynced["set"] = 0 /\ unsynced["delete"] = 0
        /\ unsynced["increment"] + unsynced["acquire"] <= run
    BY <1>1 DEF CadenceInv
  <2>2. /\ run' = run + Len(batch) /\ run' < FlushEvery
        /\ unsynced' = [k \in OpKinds |-> unsynced[k] + c(k)]
    BY <1>1, <1>4, <2>1, Cadences DEF RecordCommit, Immediate
  <2>3. /\ \A k \in OpKinds : c(k) \in Nat
        /\ \A k \in OpKinds : Of(k) # {} => c(k) > 0
        /\ Of("set") = {} => c("set") = 0
        /\ Of("delete") = {} => c("delete") = 0
        /\ c("increment") + c("acquire") <= Len(batch)
    BY <1>1, TwoKinds
  <2>4. Of("set") = {} /\ Of("delete") = {}
    BY <1>4 DEF Immediate, Durably
  <2>5. \E k \in OpKinds : Of(k) # {}
    <3>1. 1 \in DOMAIN batch /\ batch[1] \in Jobs
      BY <1>1
    <3>2. batch[1].op.kind \in OpKinds
      BY <3>1, KindOfOp DEF Jobs
    <3> QED  BY <3>1, <3>2
  <2>6. Len(batch) \in Nat
    BY <1>1
  <2> HIDE DEF Of, c
  <2>7. run' \in Nat /\ unsynced' \in [OpKinds -> Nat]
    <3>1. \A k \in OpKinds : unsynced[k] + c(k) \in Nat
      BY <2>1, <2>3
    <3>2. run' \in Nat
      BY <2>1, <2>2, <2>6
    <3> QED  BY <2>2, <3>1, <3>2
  <2>8. unsynced'["set"] = 0 /\ unsynced'["delete"] = 0
    <3>1. c("set") = 0 /\ c("delete") = 0
      BY <2>3, <2>4
    <3>2. "set" \in OpKinds /\ "delete" \in OpKinds
      BY DEF OpKinds
    <3>3. /\ unsynced'["set"] = unsynced["set"] + c("set")
          /\ unsynced'["delete"] = unsynced["delete"] + c("delete")
      BY <2>2, <3>2
    <3> QED  BY <2>1, <3>1, <3>3
  <2>9. unsynced'["increment"] + unsynced'["acquire"] <= run'
    <3>1. /\ unsynced'["increment"] = unsynced["increment"] + c("increment")
          /\ unsynced'["acquire"] = unsynced["acquire"] + c("acquire")
          /\ unsynced["increment"] \in Nat /\ unsynced["acquire"] \in Nat
          /\ c("increment") \in Nat /\ c("acquire") \in Nat
      BY <2>1, <2>2, <2>3 DEF OpKinds
    <3> DEFINE u == unsynced["increment"]
               v == unsynced["acquire"]
               x == c("increment")
               y == c("acquire")
               l == Len(batch)
               r == run
    <3>2. /\ u \in Nat /\ v \in Nat /\ x \in Nat /\ y \in Nat /\ l \in Nat
          /\ r \in Nat /\ u + v <= r /\ x + y <= l
      BY <2>1, <2>3, <2>6, <3>1
    <3> HIDE DEF u, v, x, y, l, r
    <3>3. (u + x) + (v + y) <= r + l
      BY <3>2
    <3> QED  BY <2>2, <3>1, <3>3 DEF u, v, x, y, l, r
  <2>10. unsynced' # NoneUnsynced
    <3>1. PICK k \in OpKinds : Of(k) # {}
      BY <2>5
    <3>2. unsynced[k] \in Nat /\ c(k) \in Nat /\ c(k) > 0
      BY <2>1, <2>3, <3>1
    <3>3. unsynced'[k] = unsynced[k] + c(k)
      BY <2>2, <3>1
    <3>4. unsynced'[k] # 0
      BY <3>2, <3>3
    <3> QED  BY <1>2, <3>1, <3>4
  <2> QED  BY <2>2, <2>7, <2>8, <2>9, <2>10 DEF CadenceInv
<1> QED  BY <1>3, <1>4

LEMMA CadenceStep ==
  ASSUME CombineInv, CadenceInv, StoreNext
  PROVE  CadenceInv'
<1>1. CASE UNCHANGED <<backend, db, durable, run, unsynced>>
  BY <1>1 DEF CadenceInv
<1>2. ASSUME NEW t \in Callers, ApplyInMemory(t) PROVE CadenceInv'
  BY <1>2 DEF ApplyInMemory, fixed, CadenceInv
<1>3. ASSUME NEW t \in Callers, Commit(t) PROVE CadenceInv'
  BY <1>3, CommitStep
<1>4. CASE Crash
  <2>1. NoneUnsynced \in [OpKinds -> Nat] /\ \A k \in OpKinds : NoneUnsynced[k] = 0
    BY DEF NoneUnsynced, OpKinds
  <2> QED  BY <1>4, <2>1, Cadences DEF Crash, CadenceInv, OpKinds
<1>5. ASSUME NEW t \in Callers, StoreStep(t), ~ApplyInMemory(t), ~Commit(t)
      PROVE  UNCHANGED <<backend, db, durable, run, unsynced>>
  <2>1. CASE Read(t) \/ ReadFails(t) \/ Charge(t) \/ Deny(t)
    BY <2>1 DEF Read, ReadFails, Reads, Charge, Deny, fixed, store
  <2>2. CASE Submit(t) \/ Return(t) \/ PollEmpty(t) \/ Elect(t) \/ Park(t)
             \/ ParkExpires(t)
    BY <2>2 DEF Submit, Return, PollEmpty, Elect, Park, ParkExpires, fixed, store
  <2>3. CASE Drain(t) \/ DrainEnds(t) \/ CommitFails(t) \/ CombinerDies(t)
             \/ Unlock(t)
    BY <2>3 DEF Drain, DrainEnds, CommitFails, CombinerDies, Unlock, fixed, store
  <2> QED  BY <1>5, <2>1, <2>2, <2>3 DEF StoreStep
<1>6. ASSUME NEW t \in Callers, NEW o \in Ops, Call(t, o)
      PROVE  UNCHANGED <<backend, db, durable, run, unsynced>>
  BY <1>6 DEF Call, fixed, store
<1> QED  BY <1>1, <1>2, <1>3, <1>4, <1>5, <1>6 DEF StoreNext

(* Whatever interleaving of callers, combiners, failed transactions, dying *)
(* combiners and crashes: a set or a delete that was committed survives a  *)
(* crash, fewer than FlushEvery operations in all are at risk, and with    *)
(* none at risk the file is what the callers see (backend.rs,              *)
(* durability_for_batch and record_successful_commit).                     *)
THEOREM CrashIsCheap == HostSpec => []CrashLosesLittle
<1> DEFINE Inv == CombineInv /\ CadenceInv
           all == <<part, vars, storeVars, callVars>>
<1>1. HostInit => Inv
  BY InitStore DEF HostInit
<1>2. Inv /\ [HostNext]_all => Inv'
  <2> SUFFICES ASSUME Inv, [HostNext]_all PROVE Inv'
    OBVIOUS
  <2>1. CASE UNCHANGED storeVars
    BY <2>1 DEF storeVars, CombineInv, CadenceInv
  <2>2. CASE StoreNext
    BY <2>2, CombineStep, CadenceStep
  <2> QED  BY <2>1, <2>2 DEF HostNext
<1>3. Inv => CrashLosesLittle
  <2> SUFFICES ASSUME Inv, backend = "redb"
               PROVE  /\ unsynced["increment"] + unsynced["acquire"] < FlushEvery
                      /\ unsynced["set"] + unsynced["delete"] = 0
                      /\ unsynced = NoneUnsynced => db = durable
    BY DEF CrashLosesLittle
  <2>1. /\ run \in Nat /\ run < FlushEvery /\ unsynced \in [OpKinds -> Nat]
        /\ unsynced["increment"] \in Nat /\ unsynced["acquire"] \in Nat
    BY DEF CadenceInv, OpKinds
  <2> QED  BY <2>1, Cadences DEF CadenceInv
<1> QED  BY <1>1, <1>2, <1>3, PTL DEF HostSpec

-----------------------------------------------------------------------------
(* The quota.  While nothing has failed, a caller that is past its read    *)
(* and not yet answered holds its key's stripe, so that its row is as it   *)
(* read it and the delta it charged is still the one its write will cost;  *)
(* every job in the channel or in the batch is one such caller's, and no   *)
(* caller's twice.  From there the tally follows the rows one write at a   *)
(* time, through a batch of them too.                                      *)

(* What the callers P owe the rows of n, of what w says each of them owes. *)
Owing(P, ops, w, n) == SumFunction([t \in {u \in P : NsOf[ops[u].key] = n} |-> w[t]])

Entries(ds) == [t \in Callers |-> ds[t].entries]
Lengths(ds) == [t \in Callers |-> ds[t].bytes]

(* The tally tl is that of the rows and of the writes the callers P owe.   *)
TallyOf(tl, rows, P, ops, ds) ==
  \A n \in Namespaces :
    /\ tl[n].entries = Cardinality(Stored(rows, n)) + Owing(P, ops, Entries(ds), n)
    /\ tl[n].bytes = Bytes(rows, Stored(rows, n)) + Owing(P, ops, Lengths(ds), n)

Deltas == [entries : Int, bytes : Int]

LEMMA StoreFacts ==
  /\ IsFiniteSet(Callers) /\ IsFiniteSet(Keys) /\ IsFiniteSet(Namespaces)
  /\ \A k \in Keys : NsOf[k] \in Namespaces /\ StripeOf[k] \in Range(StripeOf)
                     /\ KeyLen[k] \in Nat
  /\ None \notin Callers /\ None \notin Nat /\ None \notin {"ok", "error"} /\ CounterLen \in Nat /\ BucketLen \in Nat
  /\ \A v \in ValueLens : v \in Nat
<1>1. /\ IsFiniteSet(Callers) /\ IsFiniteSet(Keys) /\ DOMAIN NsOf = Keys
      /\ DOMAIN StripeOf = Keys /\ KeyLen \in [Keys -> Nat] /\ ValueLens \subseteq Nat
      /\ None \notin Callers \cup Nat \cup {"ok", "error"}
  BY ShapeAssumption
<1>2. Namespaces = {NsOf[k] : k \in Keys} /\ Range(StripeOf) = {StripeOf[k] : k \in Keys}
  BY <1>1 DEF Namespaces, Range
<1>3. IsFiniteSet(Namespaces)
  <2> DEFINE f == [k \in Keys |-> NsOf[k]]
  <2>1. f \in Surjection(Keys, Namespaces)
    BY <1>2 DEF Surjection
  <2> QED  BY <1>1, <2>1, FS_Surjection
<1>4. CounterLen \in Nat /\ BucketLen \in Nat
  BY BoundsAssumption
<1> QED  BY <1>1, <1>2, <1>3, <1>4

LEMMA OpShape ==
  ASSUME NEW o \in Ops
  PROVE  /\ o.key \in Keys /\ o.len \in Row
         /\ o.kind = "delete" => o.len = None
         /\ o.kind # "delete" => o.len \in Nat
<1> USE StoreFacts
<1>1. CASE o \in KvOps
  BY <1>1 DEF KvOps, Row
<1>2. CASE o \in CounterOps
  BY <1>2 DEF CounterOps, Row
<1>3. CASE o \in BucketOps
  BY <1>3 DEF BucketOps, Row
<1> QED  BY <1>1, <1>2, <1>3 DEF Ops

LEMMA DeltaShape ==
  ASSUME NEW o \in Ops, NEW old \in Row
  PROVE  DeltaOf(o, old) \in Deltas
<1>1. o.key \in Keys /\ KeyLen[o.key] \in Nat
  BY OpShape, StoreFacts
<1>2. old = None \/ old \in Nat
  BY DEF Row
<1>3. o.kind # "delete" => o.len \in Nat
  BY OpShape
<1> QED  BY <1>1, <1>2, <1>3 DEF DeltaOf, Deltas

(* The bytes of rows that are there.                                       *)
LEMMA BytesIsSum ==
  ASSUME NEW rows \in [Keys -> Row], NEW S \in SUBSET Keys, \A k \in S : rows[k] # None,
         NEW w, \A k \in S : w[k] = KeyLen[k] + rows[k]
  PROVE  /\ Bytes(rows, S) = SumFunctionOnSet(w, S) /\ Bytes(rows, S) \in Nat
         /\ IsFiniteSet(S) /\ \A k \in S : w[k] \in Nat
<1> DEFINE f == [k \in S |-> KeyLen[k] + rows[k]]
<1>1. IsFiniteSet(S)
  BY StoreFacts, FS_Subset
<1>2. \A k \in S : f[k] \in Nat /\ f[k] = w[k]
  BY StoreFacts DEF Row
<1>3. Bytes(rows, S) = SumFunctionOnSet(f, S)
  BY DEF Bytes, SumFunction
<1> HIDE DEF f
<1>4. SumFunctionOnSet(f, S) = SumFunctionOnSet(w, S)
  BY <1>1, <1>2, SumEqual
<1>5. SumFunctionOnSet(f, S) \in Nat
  BY <1>1, <1>2, SumNotNegative
<1> QED  BY <1>1, <1>2, <1>3, <1>4, <1>5

(* One write changes a namespace's rows and bytes by its delta.            *)
LEMMA RowChange ==
  ASSUME NEW rows \in [Keys -> Row], NEW o \in Ops, NEW n \in Namespaces
  PROVE  LET d == DeltaOf(o, rows[o.key])
             new == ApplyOp(rows, o)
             hit == NsOf[o.key] = n
         IN  /\ new \in [Keys -> Row]
             /\ Cardinality(Stored(rows, n)) \in Nat
             /\ Cardinality(Stored(new, n)) =
                  Cardinality(Stored(rows, n)) + IF hit THEN d.entries ELSE 0
             /\ Bytes(rows, Stored(rows, n)) \in Nat
             /\ Bytes(new, Stored(new, n)) =
                  Bytes(rows, Stored(rows, n)) + IF hit THEN d.bytes ELSE 0
<1> DEFINE a == o.key
           new == ApplyOp(rows, o)
           d == DeltaOf(o, rows[a])
           A == Stored(rows, n)
           B == Stored(new, n)
           R == A \ {a}
           w == [k \in Keys |-> IF rows[k] = None THEN 0 ELSE KeyLen[k] + rows[k]]
           v == [k \in Keys |-> IF new[k] = None THEN 0 ELSE KeyLen[k] + new[k]]
<1>1. /\ a \in Keys /\ o.len \in Row /\ KeyLen[a] \in Nat /\ rows[a] \in Row
      /\ None \notin Nat
  BY OpShape, StoreFacts
<1>2. /\ new \in [Keys -> Row] /\ new[a] = o.len
      /\ \A k \in Keys : k # a => new[k] = rows[k]
  BY <1>1 DEF ApplyOp
<1>3. /\ A \in SUBSET Keys /\ B \in SUBSET Keys /\ R \in SUBSET Keys /\ B \ {a} = R
      /\ a \in A <=> (NsOf[a] = n /\ rows[a] # None)
      /\ a \in B <=> (NsOf[a] = n /\ o.len # None)
      /\ \A k \in A : rows[k] # None
      /\ \A k \in B : new[k] # None
  BY <1>1, <1>2 DEF Stored
<1>4. IsFiniteSet(A) /\ IsFiniteSet(B) /\ IsFiniteSet(R) /\ Cardinality(R) \in Nat
      /\ Cardinality(A) \in Nat
  BY <1>3, StoreFacts, FS_Subset, FS_CardinalityType
<1>5. /\ Bytes(rows, A) = SumFunctionOnSet(w, A) /\ Bytes(rows, A) \in Nat
      /\ \A k \in A : w[k] \in Nat
  <2> HIDE DEF A
  <2>1. \A k \in A : w[k] = KeyLen[k] + rows[k]
    BY <1>3
  <2> HIDE DEF w
  <2> QED  BY <1>3, <2>1, BytesIsSum
<1>6. /\ Bytes(new, B) = SumFunctionOnSet(v, B) /\ Bytes(new, B) \in Nat
      /\ \A k \in B : v[k] \in Nat
  <2> HIDE DEF B, new
  <2>1. \A k \in B : v[k] = KeyLen[k] + new[k]
    BY <1>3
  <2> HIDE DEF v
  <2> QED  BY <1>2, <1>3, <2>1, BytesIsSum
<1>7. \A k \in R : v[k] = w[k] /\ v[k] \in Nat
  BY <1>2, <1>3, <1>5
<1>8. SumFunctionOnSet(v, R) = SumFunctionOnSet(w, R) /\ SumFunctionOnSet(v, R) \in Int
  <2> HIDE DEF v, w, R
  <2> QED  BY <1>4, <1>7, SumEqual, SumType
<1>9. /\ a \in A => w[a] = KeyLen[a] + rows[a]
      /\ a \in B => v[a] = KeyLen[a] + o.len
  BY <1>1, <1>2, <1>3
<1> HIDE DEF A, B, R, v, w, new
<1> DEFINE r == Cardinality(R)
           s == SumFunctionOnSet(w, R)
<1>10. /\ r \in Nat /\ s \in Int
       /\ a \in A => Cardinality(A) = r + 1 /\ Bytes(rows, A) = KeyLen[a] + rows[a] + s
       /\ a \notin A => Cardinality(A) = r /\ Bytes(rows, A) = s
  <2>1. CASE a \in A
    <3>1. Cardinality(R) = Cardinality(A) - 1
      BY <1>4, <2>1, FS_RemoveElement DEF R
    <3>2. SumFunctionOnSet(w, A) = w[a] + SumFunctionOnSet(w, A \ {a})
      BY <1>4, <1>5, <2>1, SumRemove
    <3> QED  BY <1>4, <1>5, <1>8, <1>9, <2>1, <3>1, <3>2 DEF R
  <2>2. CASE a \notin A
    <3>1. A = R
      BY <2>2 DEF R
    <3> QED  BY <1>4, <1>5, <1>8, <2>2, <3>1
  <2> QED  BY <2>1, <2>2
<1>11. /\ a \in B => Cardinality(B) = r + 1 /\ Bytes(new, B) = KeyLen[a] + o.len + s
       /\ a \notin B => Cardinality(B) = r /\ Bytes(new, B) = s
  <2>1. CASE a \in B
    <3>1. Cardinality(B \ {a}) = Cardinality(B) - 1 /\ Cardinality(B) \in Nat
      BY <1>4, <2>1, FS_RemoveElement, FS_CardinalityType
    <3>2. SumFunctionOnSet(v, B) = v[a] + SumFunctionOnSet(v, B \ {a})
      BY <1>4, <1>6, <2>1, SumRemove
    <3>3. Cardinality(B) = r + 1
      <4>1. r = Cardinality(B) - 1
        BY <1>3, <3>1
      <4> HIDE DEF r
      <4> QED  BY <3>1, <4>1
    <3>4. Bytes(new, B) = v[a] + s
      BY <1>3, <1>6, <1>8, <3>2
    <3> QED  BY <1>9, <2>1, <3>3, <3>4
  <2>2. CASE a \notin B
    <3>1. B = R
      BY <1>3, <2>2
    <3> QED  BY <1>4, <1>6, <1>8, <2>2, <3>1
  <2> QED  BY <2>1, <2>2
<1>12. /\ o.kind = "delete" => o.len = None
       /\ o.kind # "delete" => o.len \in Nat
       /\ rows[a] # None => rows[a] \in Nat
  BY <1>1, OpShape DEF Row
<1> DEFINE Changed ==
             /\ Cardinality(B) = Cardinality(A) + (IF NsOf[a] = n THEN d.entries ELSE 0)
             /\ Bytes(new, B) = Bytes(rows, A) + (IF NsOf[a] = n THEN d.bytes ELSE 0)
<1> HIDE DEF r, s, a
<1>13. ASSUME NsOf[a] # n PROVE Changed
  BY <1>3, <1>10, <1>11, <1>13
<1>14. ASSUME NsOf[a] = n /\ rows[a] = None PROVE Changed
  <2>1. a \notin A /\ (a \in B <=> o.len # None)
    BY <1>3, <1>14
  <2>2. CASE o.kind = "delete"
    <3>1. d.entries = 0 /\ d.bytes = 0
      BY <1>14, <2>2 DEF DeltaOf
    <3> QED  BY <1>10, <1>11, <1>12, <2>1, <2>2, <3>1
  <2>3. CASE o.kind # "delete"
    <3>1. d.entries = 1 /\ d.bytes = KeyLen[a] + o.len
      BY <1>14, <2>3 DEF DeltaOf, a
    <3> HIDE DEF d
    <3>2. a \in B /\ o.len \in Nat
      BY <1>1, <1>12, <2>1, <2>3
    <3>3. Cardinality(A) = r /\ Cardinality(B) = r + 1
      BY <1>10, <1>11, <2>1, <3>2
    <3>4. Bytes(rows, A) = s /\ Bytes(new, B) = KeyLen[a] + o.len + s
      BY <1>10, <1>11, <2>1, <3>2
    <3>5. KeyLen[a] + o.len \in Nat
      BY <1>1, <3>2
    <3> QED  BY <1>10, <1>14, <3>1, <3>3, <3>4, <3>5
  <2> QED  BY <2>2, <2>3
<1>15. ASSUME NsOf[a] = n /\ rows[a] # None PROVE Changed
  <2>1. a \in A /\ (a \in B <=> o.len # None)
    BY <1>3, <1>15
  <2>2. CASE o.kind = "delete"
    <3>1. d.entries = -1 /\ d.bytes = -(KeyLen[a] + rows[a])
      BY <1>15, <2>2 DEF DeltaOf, a
    <3> HIDE DEF d
    <3> QED  BY <1>1, <1>10, <1>11, <1>12, <1>15, <2>1, <2>2, <3>1
  <2>3. CASE o.kind # "delete"
    <3>1. d.entries = 0 /\ d.bytes = o.len - rows[a]
      BY <1>15, <2>3 DEF DeltaOf
    <3> HIDE DEF d
    <3> QED  BY <1>1, <1>10, <1>11, <1>12, <1>15, <2>1, <2>3, <3>1
  <2> QED  BY <2>2, <2>3
<1>16. Changed
  BY <1>13, <1>14, <1>15
<1> QED  BY <1>2, <1>4, <1>5, <1>16 DEF A, B, a, new

-----------------------------------------------------------------------------
(* What the callers P owe, with one of them and without.                   *)
LEMMA OwingType ==
  ASSUME NEW P \in SUBSET Callers, NEW ops, NEW w, NEW n,
         \A t \in P : w[t] \in Int
  PROVE  /\ Owing(P, ops, w, n) \in Int
         /\ (\A t \in P : w[t] >= 0) => Owing(P, ops, w, n) >= 0
         /\ P = {} => Owing(P, ops, w, n) = 0
<1> DEFINE S == {u \in P : NsOf[ops[u].key] = n}
           f == [t \in S |-> w[t]]
<1>1. IsFiniteSet(S)
  BY StoreFacts, FS_Subset
<1>2. \A t \in S : f[t] = w[t] /\ f[t] \in Int
  OBVIOUS
<1>3. Owing(P, ops, w, n) = SumFunctionOnSet(f, S)
  BY DEF Owing, SumFunction
<1>4. P = {} => S = {}
  OBVIOUS
<1>5. S \subseteq P
  OBVIOUS
<1> HIDE DEF f, S
<1>6. SumFunctionOnSet(f, S) \in Int
  BY <1>1, <1>2, SumType
<1>7. ASSUME \A t \in P : w[t] >= 0 PROVE SumFunctionOnSet(f, S) \in Nat
  <2>1. \A t \in S : f[t] \in Int /\ f[t] >= 0
    BY <1>2, <1>5, <1>7
  <2> QED  BY <1>1, <2>1, SumNotNegative
<1>8. SumFunctionOnSet(f, {}) = 0
  BY SumEmpty
<1> QED  BY <1>3, <1>4, <1>6, <1>7, <1>8

(* Every process of P weighs an integer. *)
IntegerOn(P, w) == \A u \in P : w[u] \in Int

LEMMA OwingRemove ==
  ASSUME NEW P \in SUBSET Callers, NEW ops, NEW w, NEW n, IntegerOn(P, w), NEW t \in P
  PROVE  /\ NsOf[ops[t].key] = n =>
              Owing(P, ops, w, n) = Owing(P \ {t}, ops, w, n) + w[t]
         /\ NsOf[ops[t].key] # n =>
              Owing(P, ops, w, n) = Owing(P \ {t}, ops, w, n)
<1> DEFINE S == {u \in P : NsOf[ops[u].key] = n}
           f == [u \in S |-> w[u]]
           R == {u \in P \ {t} : NsOf[ops[u].key] = n}
           g == [u \in R |-> w[u]]
<1>1. IsFiniteSet(S) /\ IsFiniteSet(R)
  BY StoreFacts, FS_Subset
<1>2. R = S \ {t} /\ (t \in S <=> NsOf[ops[t].key] = n)
  OBVIOUS
<1>3. \A u \in S : f[u] = w[u] /\ f[u] \in Int
  BY DEF IntegerOn
<1>4. \A u \in R : g[u] = f[u] /\ g[u] \in Int
  BY DEF IntegerOn
<1>5. Owing(P, ops, w, n) = SumFunctionOnSet(f, S)
  BY DEF Owing, SumFunction
<1>6. Owing(P \ {t}, ops, w, n) = SumFunctionOnSet(g, R)
  BY DEF Owing, SumFunction
<1> HIDE DEF S, R, f, g
<1>7. SumFunctionOnSet(g, R) = SumFunctionOnSet(f, R) /\ SumFunctionOnSet(g, R) \in Int
  BY <1>1, <1>4, SumEqual, SumType
<1>8. CASE t \in S
  <2>1. SumFunctionOnSet(f, S) = f[t] + SumFunctionOnSet(f, R)
    BY <1>1, <1>2, <1>3, <1>8, SumRemove
  <2>2. f[t] \in Int /\ f[t] = w[t]
    BY <1>3, <1>8
  <2> QED  BY <1>2, <1>5, <1>6, <1>7, <1>8, <2>1, <2>2
<1>9. CASE t \notin S
  <2>1. R = S
    BY <1>2, <1>9
  <2> DEFINE z == SumFunctionOnSet(g, R)
  <2>2. Owing(P, ops, w, n) = z /\ Owing(P \ {t}, ops, w, n) = z
    BY <1>5, <1>6, <1>7, <2>1
  <2>3. z \in Int /\ NsOf[ops[t].key] # n
    BY <1>2, <1>7, <1>9
  <2> HIDE DEF z
  <2> QED  BY <2>2, <2>3
<1> QED  BY <1>8, <1>9

LEMMA OwingEqual ==
  ASSUME NEW P \in SUBSET Callers, NEW ops, NEW w, NEW n,
         NEW ops2, NEW w2,
         \A u \in P : w[u] \in Int /\ ops2[u] = ops[u] /\ w2[u] = w[u]
  PROVE  Owing(P, ops2, w2, n) = Owing(P, ops, w, n)
<1> DEFINE S == {u \in P : NsOf[ops[u].key] = n}
           f == [u \in S |-> w[u]]
           g == [u \in S |-> w2[u]]
<1>1. IsFiniteSet(S)
  BY StoreFacts, FS_Subset
<1>2. {u \in P : NsOf[ops2[u].key] = n} = S
  OBVIOUS
<1>3. \A u \in S : f[u] = g[u] /\ f[u] \in Int
  OBVIOUS
<1>4. Owing(P, ops, w, n) = SumFunctionOnSet(f, S)
  BY DEF Owing, SumFunction
<1>5. Owing(P, ops2, w2, n) = SumFunctionOnSet(g, S)
  BY <1>2 DEF Owing, SumFunction
<1> HIDE DEF S, f, g
<1> QED  BY <1>1, <1>3, <1>4, <1>5, SumEqual

(* The tally follows one write: its caller owes it no more.                *)
LEMMA TallyFollows ==
  ASSUME NEW rows \in [Keys -> Row], NEW P \in SUBSET Callers, NEW t \in P,
         NEW ops, NEW ds, NEW tl,
         \A u \in P : ds[u] \in Deltas,
         ops[t] \in Ops, ds[t] = DeltaOf(ops[t], rows[ops[t].key]),
         TallyOf(tl, rows, P, ops, ds)
  PROVE  TallyOf(tl, ApplyOp(rows, ops[t]), P \ {t}, ops, ds)
<1>0. ASSUME NEW w, NEW n, IntegerOn(P, w)
      PROVE  /\ NsOf[ops[t].key] = n =>
                   Owing(P, ops, w, n) = Owing(P \ {t}, ops, w, n) + w[t]
             /\ NsOf[ops[t].key] # n =>
                   Owing(P, ops, w, n) = Owing(P \ {t}, ops, w, n)
  BY <1>0, OwingRemove
<1> DEFINE o == ops[t]
           new == ApplyOp(rows, o)
           d == ds[t]
<1> SUFFICES ASSUME NEW n \in Namespaces
             PROVE  /\ tl[n].entries = Cardinality(Stored(new, n)) + Owing(P \ {t}, ops, Entries(ds), n)
                    /\ tl[n].bytes = Bytes(new, Stored(new, n)) + Owing(P \ {t}, ops, Lengths(ds), n)
  BY DEF TallyOf
<1> DEFINE hit == NsOf[o.key] = n
           e == Cardinality(Stored(rows, n))
           b == Bytes(rows, Stored(rows, n))
           we == Entries(ds)
           wb == Lengths(ds)
           x == Owing(P \ {t}, ops, we, n)
           y == Owing(P \ {t}, ops, wb, n)
           de == IF hit THEN d.entries ELSE 0
           db_ == IF hit THEN d.bytes ELSE 0
<1>1. /\ e \in Nat /\ b \in Nat
      /\ Cardinality(Stored(new, n)) = e + de
      /\ Bytes(new, Stored(new, n)) = b + db_
  BY RowChange
<1>2. /\ \A u \in P : ds[u].entries \in Int /\ ds[u].bytes \in Int
      /\ \A u \in P : we[u] = ds[u].entries /\ we[u] \in Int
      /\ \A u \in P : wb[u] = ds[u].bytes /\ wb[u] \in Int
  BY DEF Deltas, Entries, Lengths
<1>3. Owing(P, ops, we, n) = x + de /\ Owing(P, ops, wb, n) = y + db_
  <2>1. we[t] = d.entries /\ wb[t] = d.bytes
    BY <1>2
  <2> HIDE DEF we, wb
  <2>2. /\ NsOf[ops[t].key] = n => Owing(P, ops, we, n) = x + we[t]
        /\ NsOf[ops[t].key] # n => Owing(P, ops, we, n) = x
    <3>1. IntegerOn(P, we)
      BY <1>2 DEF IntegerOn
    <3> QED  BY <3>1, <1>0, Zenon
  <2>3. /\ NsOf[ops[t].key] = n => Owing(P, ops, wb, n) = y + wb[t]
        /\ NsOf[ops[t].key] # n => Owing(P, ops, wb, n) = y
    <3>1. IntegerOn(P, wb)
      BY <1>2 DEF IntegerOn
    <3> QED  BY <3>1, <1>0, Zenon
  <2>4. x \in Int /\ y \in Int
    BY <1>2, OwingType
  <2> HIDE DEF x, y
  <2> QED  BY <2>1, <2>2, <2>3, <2>4
<1>4. x \in Int /\ y \in Int
  BY <1>2, OwingType
<1>5. tl[n].entries = e + (x + de) /\ tl[n].bytes = b + (y + db_)
  BY <1>3 DEF TallyOf
<1>6. de \in Int /\ db_ \in Int
  BY <1>2
<1> HIDE DEF e, b, x, y, de, db_, new
<1>7. e + (x + de) = (e + de) + x /\ b + (y + db_) = (b + db_) + y
  BY <1>1, <1>4, <1>6
<1> QED  BY <1>1, <1>5, <1>7 DEF x, y

-----------------------------------------------------------------------------
(* A batch is its jobs' writes one after the other.                        *)
LEMMA BatchPath ==
  ASSUME NEW rows \in [Keys -> Row], NEW b \in Seq(Jobs)
  PROVE  \E g \in [0..Len(b) -> [Keys -> Row]] :
           /\ g[0] = rows /\ ApplyBatch(rows, b) = g[Len(b)]
           /\ \A j \in 1..Len(b) : g[j] = ApplyOp(g[j - 1], b[j].op)
<1> DEFINE n == Len(b)
           D == [Keys -> Row]
           o == [p \in D \X (1..n) |-> ApplyOp(p[1], b[p[2]].op)]
           Solves(h) == h = [t \in SUBSET DOMAIN b |->
                              IF t = {} THEN rows ELSE ApplyOp(h[t \ {Max(t)}], b[Max(t)].op)]
<1>1. n \in Nat /\ DOMAIN b = 1..n /\ \A i \in 1..n : b[i] \in Jobs /\ b[i].op \in Ops
  <2>1. n \in Nat /\ DOMAIN b = 1..n /\ \A i \in 1..n : b[i] \in Jobs
    OBVIOUS
  <2> QED  BY <2>1 DEF Jobs
<1>2. \A x \in D : \A i \in 1..n : ApplyOp(x, b[i].op) \in D
  <2> SUFFICES ASSUME NEW x \in D, NEW i \in 1..n PROVE ApplyOp(x, b[i].op) \in D
    OBVIOUS
  <2>1. b[i].op.key \in Keys /\ b[i].op.len \in Row
    BY <1>1, OpShape
  <2> QED  BY <2>1 DEF ApplyOp
<1>3. ApplyBatch(rows, b) = (CHOOSE h : Solves(h))[DOMAIN b]
  BY Zenon DEF ApplyBatch, FoldLeft, MapThenFoldSet
<1> HIDE DEF n, D
<1>4. o \in [D \X (1..n) -> D] /\ \A x \in D : \A i \in 1..n : o[<<x, i>>] = ApplyOp(x, b[i].op)
  BY <1>2
<1>5. rows \in D
  BY DEF D
<1> HIDE DEF o
<1>0. PICK k \in [SUBSET (1..n) -> D] : Folds(n, rows, o, k)
  BY <1>1, <1>4, <1>5, FoldExists
<1>6. \A t \in SUBSET (1..n) :
        k[t] = IF t = {} THEN rows ELSE o[<<k[t \ {Max(t)}], Max(t)>>]
  BY <1>0 DEF Folds
<1>7. ASSUME NEW t \in SUBSET (1..n), t # {}
      PROVE  Max(t) \in 1..n /\ t \ {Max(t)} \in SUBSET (1..n)
  <2>1. Max(t) \in t
    BY <1>1, <1>7, MaxIsIn
  <2> QED  BY <2>1
<1>8. \A t \in SUBSET (1..n) :
        k[t] = IF t = {} THEN rows ELSE ApplyOp(k[t \ {Max(t)}], b[Max(t)].op)
  <2> SUFFICES ASSUME NEW t \in SUBSET (1..n), t # {}
               PROVE  k[t] = ApplyOp(k[t \ {Max(t)}], b[Max(t)].op)
    BY <1>6
  <2>1. k[t \ {Max(t)}] \in D /\ Max(t) \in 1..n
    BY <1>0, <1>7
  <2>2. k[t] = o[<<k[t \ {Max(t)}], Max(t)>>]
    BY <1>6
  <2> QED  BY <1>4, <2>1, <2>2
<1>9. Solves(k)
  BY <1>1, <1>6, <1>8
<1> DEFINE h == CHOOSE x : Solves(x)
<1>10. Solves(h)
  BY <1>9
<1> HIDE DEF h
<1>11. \A t \in SUBSET (1..n) :
         h[t] = IF t = {} THEN rows ELSE ApplyOp(h[t \ {Max(t)}], b[Max(t)].op)
  BY <1>1, <1>10
<1> HIDE DEF Solves
<1> DEFINE g == [j \in 0..n |-> h[1..j]]
<1>12. g[0] = rows
  <2>1. 1..0 = {} /\ 0 \in 0..n
    BY <1>1
  <2> QED  BY <1>11, <2>1
<1>13. ASSUME NEW j \in 1..n PROVE g[j] = ApplyOp(g[j - 1], b[j].op)
  <2>0. j \in Nat /\ j >= 1 /\ j <= n /\ j \in 0..n /\ j - 1 \in 0..n
    BY <1>1
  <2>1. 1..j \in SUBSET (1..n) /\ 1..j # {}
    <3>1. j \in 1..j
      BY <2>0
    <3>2. ASSUME NEW i \in 1..j PROVE i \in 1..n
      BY <1>1, <2>0
    <3> QED  BY <3>1, <3>2
  <2>2. Max(1..j) = j /\ (1..j) \ {j} = 1..(j - 1)
    BY <1>1, MaxOfInterval
  <2>3. h[1..j] = ApplyOp(h[(1..j) \ {Max(1..j)}], b[Max(1..j)].op)
    BY <1>11, <2>1
  <2>4. h[1..j] = ApplyOp(h[1..(j - 1)], b[j].op)
    BY <2>2, <2>3
  <2> QED  BY <2>0, <2>4
<1>14. g[n] = ApplyBatch(rows, b)
  BY <1>1, <1>3 DEF h
<1> HIDE DEF g
<1> DEFINE N == {j \in Nat : j <= n => g[j] \in D}
<1>15. 0 \in N
  BY <1>5, <1>12
<1>16. ASSUME NEW j \in Nat, j \in N PROVE j + 1 \in N
  <2>1. CASE j + 1 <= n
    <3>1. j + 1 \in 1..n /\ (j + 1) - 1 = j /\ j <= n
      BY <1>1, <2>1
    <3>2. g[j + 1] = ApplyOp(g[j], b[j + 1].op)
      BY <1>13, <3>1
    <3> QED  BY <1>2, <1>16, <3>1, <3>2
  <2>2. CASE ~(j + 1 <= n)
    BY <2>2
  <2> QED  BY <2>1, <2>2
<1>17. Nat \subseteq N
  <2> HIDE DEF N
  <2> QED  BY <1>15, <1>16, InductionSet
<1>18. \A j \in 0..n : g[j] \in D
  BY <1>1, <1>17
<1>19. g \in [0..n -> D]
  BY <1>18 DEF g
<1> QED  BY <1>12, <1>13, <1>14, <1>19 DEF n, D

(* What a batch leaves: the tally of the callers it does not answer, their *)
(* rows as they were, and no row but the ones its callers write.           *)
BatchLeaves(new, rows, b, P, ops, ds, tl) ==
  /\ new \in [Keys -> Row]
  /\ TallyOf(tl, new, P \ Owners(b), ops, ds)
  /\ \A u \in P \ Owners(b) : new[ops[u].key] = rows[ops[u].key]
  /\ \A k \in Keys : \/ new[k] = rows[k]
                     \/ \E u \in P : ops[u].key = k /\ new[k] = ops[u].len

(* A batch whose jobs are different callers' of P, on different keys, each *)
(* with the delta its row still costs: the tally follows all of them.      *)
LEMMA TallyFollowsBatch ==
  ASSUME NEW rows \in [Keys -> Row], NEW b \in Seq(Jobs), NEW P \in SUBSET Callers,
         NEW ops, NEW ds, NEW tl,
         \A i \in DOMAIN b : b[i].owner \in P /\ b[i].op = ops[b[i].owner],
         \A i, j \in DOMAIN b : b[i].owner = b[j].owner => i = j,
         \A u \in P : ops[u] \in Ops /\ ds[u] = DeltaOf(ops[u], rows[ops[u].key]),
         \A u, v \in P : ops[u].key = ops[v].key => u = v,
         TallyOf(tl, rows, P, ops, ds)
  PROVE  BatchLeaves(ApplyBatch(rows, b), rows, b, P, ops, ds, tl)
<1> DEFINE n == Len(b)
           D == [Keys -> Row]
           Done(j) == {b[i].owner : i \in 1..j}
<1>1. n \in Nat /\ DOMAIN b = 1..n
  OBVIOUS
<1>2. PICK g \in [0..n -> D] : /\ g[0] = rows /\ ApplyBatch(rows, b) = g[n]
                               /\ \A j \in 1..n : g[j] = ApplyOp(g[j - 1], b[j].op)
  BY BatchPath
<1>3. \A u \in P : ds[u] \in Deltas /\ ops[u].key \in Keys
  <2> SUFFICES ASSUME NEW u \in P PROVE ds[u] \in Deltas /\ ops[u].key \in Keys
    OBVIOUS
  <2>1. ops[u].key \in Keys /\ rows[ops[u].key] \in Row
    BY OpShape
  <2> QED  BY <2>1, DeltaShape
<1> HIDE DEF n, D
<1> DEFINE Kept(j) == \A u \in P \ Done(j) : g[j][ops[u].key] = rows[ops[u].key]
           From(j) == \A k \in Keys : \/ g[j][k] = rows[k]
                                      \/ \E u \in P : ops[u].key = k /\ g[j][k] = ops[u].len
           Good(j) == TallyOf(tl, g[j], P \ Done(j), ops, ds) /\ Kept(j) /\ From(j)
           N == {j \in Nat : j <= n => Good(j)}
<1>4. 0 \in N
  <2>1. 1..0 = {}
    OBVIOUS
  <2>2. P \ Done(0) = P
    BY <2>1
  <2>3. TallyOf(tl, g[0], P \ Done(0), ops, ds)
    BY <1>2, <2>2
  <2>4. Kept(0) /\ From(0)
    BY <1>2
  <2> QED  BY <2>3, <2>4
<1>5. ASSUME NEW j \in Nat, j + 1 <= n, Good(j) PROVE Good(j + 1)
  <2> DEFINE u == b[j + 1].owner
             Q == P \ Done(j)
  <2>1. j + 1 \in 1..n /\ (j + 1) - 1 = j /\ j \in 0..n /\ j + 1 \in 0..n
    BY <1>1, <1>5
  <2>2. /\ u \in P /\ b[j + 1].op = ops[u] /\ ops[u] \in Ops /\ g[j] \in D /\ g[j + 1] \in D
    BY <1>1, <1>2, <2>1
  <2>3. Done(j + 1) = Done(j) \cup {u}
    <3>1. 1..(j + 1) = (1..j) \cup {j + 1}
      OBVIOUS
    <3> DEFINE f(i) == b[i].owner
    <3>2. Done(j + 1) = {f(i) : i \in 1..(j + 1)} /\ Done(j) = {f(i) : i \in 1..j} /\ u = f(j + 1)
      OBVIOUS
    <3> HIDE DEF f, Done, u
    <3> QED  BY <3>1, <3>2
  <2>4. u \notin Done(j)
    <3>1. ASSUME NEW i \in 1..j PROVE b[i].owner # u
      <4>1. i \in 1..n /\ i # j + 1
        BY <1>1, <1>5
      <4> QED  BY <1>1, <2>1, <4>1
    <3> QED  BY <3>1
  <2>5. u \in Q /\ P \ Done(j + 1) = Q \ {u} /\ Q \in SUBSET Callers
    BY <2>2, <2>3, <2>4
  <2>6. g[j + 1] = ApplyOp(g[j], ops[u])
    BY <1>2, <2>1, <2>2
  <2>7. g[j][ops[u].key] = rows[ops[u].key]
    BY <1>5, <2>5
  <2>8. ds[u] = DeltaOf(ops[u], g[j][ops[u].key])
    BY <2>2, <2>7
  <2>9. TallyOf(tl, g[j], Q, ops, ds)
    BY <1>5
  <2> HIDE DEF u, Q, Done
  <2>10. TallyOf(tl, ApplyOp(g[j], ops[u]), Q \ {u}, ops, ds)
    <3>1. \A x \in Q : ds[x] \in Deltas
      BY <1>3 DEF Q
    <3> QED  BY <2>2, <2>5, <2>8, <2>9, <3>1, TallyFollows DEF D
  <2>11. \A k \in Keys : g[j + 1][k] = IF k = ops[u].key THEN ops[u].len ELSE g[j][k]
    BY <2>2, <2>6 DEF ApplyOp, D
  <2>12. Kept(j + 1)
    <3> SUFFICES ASSUME NEW x \in Q \ {u} PROVE g[j + 1][ops[x].key] = rows[ops[x].key]
      BY <2>5
    <3>1. x \in P /\ x # u /\ ops[x].key # ops[u].key
      BY <2>2 DEF Q
    <3>2. g[j][ops[x].key] = rows[ops[x].key]
      BY <1>5 DEF Q
    <3> QED  BY <1>3, <2>11, <3>1, <3>2
  <2>13. From(j + 1)
    <3> SUFFICES ASSUME NEW k \in Keys
                 PROVE  \/ g[j + 1][k] = rows[k]
                        \/ \E x \in P : ops[x].key = k /\ g[j + 1][k] = ops[x].len
      OBVIOUS
    <3>1. CASE k = ops[u].key
      BY <2>2, <2>11, <3>1
    <3>2. CASE k # ops[u].key
      <4>1. g[j + 1][k] = g[j][k]
        BY <2>11, <3>2
      <4> QED  BY <1>5, <4>1
    <3> QED  BY <3>1, <3>2
  <2>14. TallyOf(tl, g[j + 1], P \ Done(j + 1), ops, ds)
    BY <2>5, <2>6, <2>10
  <2> QED  BY <2>12, <2>13, <2>14
<1> HIDE DEF Good
<1>6. ASSUME NEW j \in Nat, j \in N PROVE j + 1 \in N
  <2>1. CASE j + 1 <= n
    <3>1. j <= n
      BY <1>1, <2>1
    <3> QED  BY <1>5, <1>6, <2>1, <3>1
  <2>2. CASE ~(j + 1 <= n)
    BY <2>2
  <2> QED  BY <2>1, <2>2
<1>7. Nat \subseteq N
  <2> HIDE DEF N
  <2> QED  BY <1>4, <1>6, InductionSet
<1>8. Good(n)
  BY <1>1, <1>7
<1>9. Done(n) = Owners(b)
  BY <1>1 DEF Owners
<1>10. g[n] \in D
  BY <1>1, <1>2
<1>11. TallyOf(tl, g[n], P \ Done(n), ops, ds) /\ Kept(n) /\ From(n)
  BY <1>8 DEF Good
<1> HIDE DEF Done
<1> DEFINE new == ApplyBatch(rows, b)
<1>12. new = g[n]
  BY <1>2
<1>13. /\ new \in D
       /\ TallyOf(tl, new, P \ Owners(b), ops, ds)
       /\ \A u \in P \ Owners(b) : new[ops[u].key] = rows[ops[u].key]
       /\ \A k \in Keys : \/ new[k] = rows[k]
                          \/ \E u \in P : ops[u].key = k /\ new[k] = ops[u].len
  BY <1>9, <1>10, <1>11, <1>12
<1> QED  BY <1>13 DEF D, BatchLeaves

-----------------------------------------------------------------------------
(* The invariant.                                                          *)
Waiting == {"poll", "elect", "parked", "drain", "commit", "unlock"}

Owed == {t \in Callers : Pending(t)}

QuotaShape ==
  /\ db \in [Keys -> Row] /\ durable \in [Keys -> Row] /\ faults \in Nat
  /\ tally \in [Namespaces -> Deltas]
  /\ stripe \in [Range(StripeOf) -> Callers \cup {None}]
  /\ reply \in [Callers -> {None, "ok", "error"}]
  /\ delta \in [Callers -> Deltas \cup {None}]
  /\ \A t \in Callers : at[t] # "idle" =>
       op[t] \in Ops /\ stripe[StripeOf[op[t].key]] = t
  /\ \A t \in Callers : at[t] \notin {"idle", "read"} => delta[t] \in Deltas

OwnedJob(j) ==
  /\ j.owner \in Callers /\ at[j.owner] \in Waiting /\ reply[j.owner] = None
  /\ j.op = op[j.owner]

JobsOwned ==
  /\ \A i \in DOMAIN queue : OwnedJob(queue[i])
  /\ \A i \in DOMAIN batch : OwnedJob(batch[i])
  /\ \A i, j \in DOMAIN queue : queue[i].owner = queue[j].owner => i = j
  /\ \A i, j \in DOMAIN batch : batch[i].owner = batch[j].owner => i = j
  /\ \A i \in DOMAIN queue : \A j \in DOMAIN batch : queue[i].owner # batch[j].owner

DeltasHold ==
  /\ \A t \in Callers : at[t] \notin Waiting => reply[t] = None
  /\ \A t \in Callers : at[t] = "charge" \/ Pending(t) =>
       delta[t] = DeltaOf(op[t], db[op[t].key])

WritesInv == faults = 0 => JobsOwned /\ DeltasHold

TallyInv == faults = 0 => TallyOf(tally, db, Owed, op, delta)

(* Two callers inside a call are on different keys.                        *)
LEMMA KeysApart ==
  ASSUME QuotaShape, NEW t \in Callers, NEW u \in Callers, at[t] # "idle", at[u] # "idle",
         StripeOf[op[t].key] = StripeOf[op[u].key]
  PROVE  t = u
BY DEF QuotaShape

LEMMA Places ==
  ASSUME CombineInv, NEW t \in Callers
  PROVE  /\ at[t] \in {"idle", "read", "charge", "apply"} \cup Waiting
         /\ Pending(t) <=> at[t] \in {"apply"} \cup Waiting /\ reply[t] = None
BY DEF CombineInv, Pending, Waiting

(* Rows as a file or an empty map holds them, and nobody in a call: the    *)
(* tally is counted from them.                                             *)
LEMMA TallyAtRest ==
  ASSUME NEW rows \in [Keys -> Row], NEW ops, NEW ds
  PROVE  /\ TallyOf(Restore(rows), rows, {}, ops, ds)
         /\ Restore(rows) \in [Namespaces -> Deltas]
<1>1. ASSUME NEW n \in Namespaces
      PROVE  /\ Cardinality(Stored(rows, n)) \in Nat /\ Bytes(rows, Stored(rows, n)) \in Nat
  <2>1. /\ Stored(rows, n) \in SUBSET Keys /\ \A k \in Stored(rows, n) : rows[k] # None
    BY DEF Stored
  <2>2. IsFiniteSet(Stored(rows, n))
    BY <2>1, StoreFacts, FS_Subset
  <2> DEFINE w == [k \in Stored(rows, n) |-> KeyLen[k] + rows[k]]
  <2>3. \A k \in Stored(rows, n) : w[k] = KeyLen[k] + rows[k]
    OBVIOUS
  <2> HIDE DEF w
  <2>4. Bytes(rows, Stored(rows, n)) \in Nat
    BY <2>1, <2>3, BytesIsSum
  <2> QED  BY <2>2, <2>4, FS_CardinalityType
<1>2. \A n \in Namespaces :
        /\ Owing({}, ops, Entries(ds), n) = 0 /\ Owing({}, ops, Lengths(ds), n) = 0
  BY OwingType
<1>3. \A n \in Namespaces :
        /\ Restore(rows)[n].entries = Cardinality(Stored(rows, n))
        /\ Restore(rows)[n].bytes = Bytes(rows, Stored(rows, n))
  BY DEF Restore
<1>4. TallyOf(Restore(rows), rows, {}, ops, ds)
  BY <1>1, <1>2, <1>3 DEF TallyOf
<1>5. Restore(rows) \in [Namespaces -> Deltas]
  BY <1>1 DEF Restore, Deltas
<1> QED  BY <1>4, <1>5

LEMMA InitQuota == StoreInit => QuotaShape /\ WritesInv /\ TallyInv
<1> SUFFICES ASSUME StoreInit PROVE QuotaShape /\ WritesInv /\ TallyInv
  OBVIOUS
<1>1. durable \in [Keys -> Row] /\ db = durable
  BY ShapeAssumption DEF StoreInit, Row
<1>2. tally = Restore(db) /\ Owed = {}
  BY DEF StoreInit, Owed, Pending
<1>3. TallyInv /\ tally \in [Namespaces -> Deltas]
  BY <1>1, <1>2, TallyAtRest DEF TallyInv
<1>4. QuotaShape
  BY <1>1, <1>3 DEF StoreInit, QuotaShape
<1>5. WritesInv
  BY DEF StoreInit, WritesInv, JobsOwned, DeltasHold, Waiting, Pending
<1> QED  BY <1>3, <1>4, <1>5

(* A step after which the same callers owe the same.                       *)
LEMMA TallyKept ==
  ASSUME QuotaShape, TallyInv, faults' = faults, tally' = tally, db' = db,
         Owed' = Owed, \A t \in Owed : op'[t] = op[t] /\ delta'[t] = delta[t] /\ delta[t] \in Deltas
  PROVE  TallyInv'
<1> SUFFICES ASSUME faults = 0, TallyOf(tally, db, Owed, op, delta)
             PROVE  TallyOf(tally, db, Owed, op', delta')
  BY DEF TallyInv
<1> DEFINE P == Owed
<1>1. P \in SUBSET Callers
  BY DEF Owed
<1>2. \A t \in P : /\ Entries(delta)[t] \in Int /\ Lengths(delta)[t] \in Int
                   /\ Entries(delta')[t] = Entries(delta)[t]
                   /\ Lengths(delta')[t] = Lengths(delta)[t] /\ op'[t] = op[t]
  BY <1>1 DEF Entries, Lengths, Deltas
<1> HIDE DEF P
<1>3. \A n \in Namespaces :
        /\ Owing(P, op', Entries(delta'), n) = Owing(P, op, Entries(delta), n)
        /\ Owing(P, op', Lengths(delta'), n) = Owing(P, op, Lengths(delta), n)
  BY <1>1, <1>2, OwingEqual
<1> QED  BY <1>3 DEF TallyOf, P

-----------------------------------------------------------------------------
(* Shapes and stripes.                                                     *)
LEMMA ShapeStep ==
  ASSUME CombineInv, QuotaShape, StoreNext
  PROVE  QuotaShape'
<1> USE StoreFacts
<1>0. /\ at \in [Callers -> {"idle", "read", "charge", "apply"} \cup Waiting]
      /\ op \in [Callers -> Ops \cup {None}]
  BY DEF CombineInv, Waiting
<1>a. \A o \in Ops : o.key \in Keys
  BY OpShape
<1>1. ASSUME NEW t \in Callers, NEW o \in Ops, Call(t, o) PROVE QuotaShape'
  <2>1. /\ at[t] = "idle" /\ stripe[StripeOf[o.key]] = None
        /\ stripe' = [stripe EXCEPT ![StripeOf[o.key]] = t]
        /\ op' = [op EXCEPT ![t] = o] /\ at' = [at EXCEPT ![t] = "read"]
        /\ UNCHANGED <<delta, tally, db, durable, reply, faults>>
    BY <1>1 DEF Call, MoveTo, combining, store
  <2>2. StripeOf[o.key] \in Range(StripeOf)
    BY <1>a
  <2>3. stripe' \in [Range(StripeOf) -> Callers \cup {None}]
    BY <2>1, <2>2 DEF QuotaShape
  <2>4. ASSUME NEW u \in Callers, at'[u] # "idle"
        PROVE  op'[u] \in Ops /\ stripe'[StripeOf[op'[u].key]] = u
    <3>1. CASE u = t
      BY <1>0, <2>1, <2>2, <3>1 DEF QuotaShape
    <3>2. CASE u # t
      <4>1. at[u] # "idle" /\ op'[u] = op[u] /\ op[u] \in Ops /\ stripe[StripeOf[op[u].key]] = u
        BY <1>0, <2>1, <2>4, <3>2 DEF QuotaShape
      <4>2. StripeOf[op[u].key] # StripeOf[o.key]
        BY <2>1, <4>1
      <4>3. StripeOf[op[u].key] \in Range(StripeOf)
        BY <1>a, <4>1
      <4> QED  BY <2>1, <4>1, <4>2, <4>3 DEF QuotaShape
    <3> QED  BY <3>1, <3>2
  <2> QED  BY <1>0, <2>1, <2>3, <2>4 DEF QuotaShape
<1>2. ASSUME NEW t \in Callers, Read(t) \/ ReadFails(t) PROVE QuotaShape'
  <2>1. PICK old \in Row : Reads(t, old)
    <3>1. CASE Read(t)
      <4>1. op[t] \in Ops
        BY <3>1 DEF Read, Reads, QuotaShape
      <4>2. db[op[t].key] \in Row
        BY <1>a, <4>1 DEF QuotaShape
      <4> QED  BY <3>1, <4>2 DEF Read
    <3>2. CASE ReadFails(t)
      BY <3>2 DEF ReadFails, Row
    <3> QED  BY <1>2, <3>1, <3>2
  <2>2. /\ at[t] = "read" /\ at' = [at EXCEPT ![t] = "charge"]
        /\ delta' = [delta EXCEPT ![t] = DeltaOf(op[t], old)]
        /\ UNCHANGED <<stripe, op, tally, db, durable, reply>>
    BY <2>1 DEF Reads, MoveTo, combining, store
  <2>3. DeltaOf(op[t], old) \in Deltas
    BY <2>2, DeltaShape DEF QuotaShape
  <2>4. faults' \in Nat
    BY <1>2 DEF Read, ReadFails, Fault, QuotaShape
  <2> QED  BY <1>0, <2>2, <2>3, <2>4 DEF QuotaShape
<1>3. ASSUME NEW t \in Callers, Charge(t) PROVE QuotaShape'
  <2>1. /\ at[t] = "charge" /\ at' = [at EXCEPT ![t] = "apply"]
        /\ tally' = Charged(NsOf[op[t].key], delta[t])
        /\ UNCHANGED <<stripe, op, delta, db, durable, reply, faults>>
    BY <1>3 DEF Charge, MoveTo, combining, store
  <2>2. delta[t] \in Deltas /\ op[t] \in Ops /\ NsOf[op[t].key] \in Namespaces
    BY <1>a, <2>1 DEF QuotaShape
  <2>3. tally' \in [Namespaces -> Deltas]
    BY <2>1, <2>2 DEF Charged, QuotaShape, Deltas
  <2> QED  BY <1>0, <2>1, <2>3 DEF QuotaShape
<1>4. ASSUME NEW t \in Callers, Leave(t), at[t] # "idle", db' \in [Keys -> Row],
             durable' \in [Keys -> Row], faults' \in Nat,
             tally' = tally, reply' \in [Callers -> {None, "ok", "error"}]
      PROVE  QuotaShape'
  <2>1. /\ at' = [at EXCEPT ![t] = "idle"] /\ op' = [op EXCEPT ![t] = None]
        /\ delta' = [delta EXCEPT ![t] = None]
        /\ stripe' = [stripe EXCEPT ![StripeOf[op[t].key]] = None]
    BY <1>4 DEF Leave
  <2>2. stripe' \in [Range(StripeOf) -> Callers \cup {None}]
    BY <2>1 DEF QuotaShape
  <2>3. ASSUME NEW u \in Callers, at'[u] # "idle"
        PROVE  op'[u] \in Ops /\ stripe'[StripeOf[op'[u].key]] = u
               /\ (at'[u] # "read" => delta'[u] \in Deltas)
    <3>1. u # t /\ at[u] # "idle" /\ at'[u] = at[u] /\ op'[u] = op[u] /\ delta'[u] = delta[u]
      BY <1>0, <2>1, <2>3 DEF QuotaShape
    <3>2. StripeOf[op[u].key] # StripeOf[op[t].key]
      BY <1>4, <3>1, KeysApart
    <3>3. StripeOf[op[u].key] \in Range(StripeOf)
      BY <1>a, <3>1 DEF QuotaShape
    <3> QED  BY <2>1, <3>1, <3>2, <3>3 DEF QuotaShape
  <2>4. delta' \in [Callers -> Deltas \cup {None}]
    BY <2>1 DEF QuotaShape
  <2> QED  BY <1>4, <2>2, <2>3, <2>4 DEF QuotaShape
<1>5. ASSUME NEW t \in Callers, Deny(t) PROVE QuotaShape'
  BY <1>4, <1>5 DEF Deny, combining, store, QuotaShape
<1>6. ASSUME NEW t \in Callers, ApplyInMemory(t) PROVE QuotaShape'
  <2>1. op[t].key \in Keys /\ op[t].len \in Row
    BY <1>6, OpShape DEF ApplyInMemory, QuotaShape
  <2>2. db' \in [Keys -> Row]
    BY <1>6, <2>1 DEF ApplyInMemory, ApplyOp, QuotaShape
  <2> QED  BY <1>4, <1>6, <2>2 DEF ApplyInMemory, combining, QuotaShape
<1>7. ASSUME NEW t \in Callers, Return(t) PROVE QuotaShape'
  BY <1>4, <1>7 DEF Return, store, QuotaShape
<1>8. ASSUME NEW t \in Callers, NEW l \in Waiting, at' = [at EXCEPT ![t] = l],
             at[t] \in {"apply"} \cup Waiting, db' \in [Keys -> Row],
             durable' \in [Keys -> Row], faults' \in Nat,
             UNCHANGED <<tally, stripe, op, delta>>,
             reply' \in [Callers -> {None, "ok", "error"}]
      PROVE  QuotaShape'
  BY <1>0, <1>8 DEF QuotaShape, Waiting
<1>9. ASSUME NEW t \in Callers, Submit(t) \/ PollEmpty(t) \/ Elect(t) \/ Park(t) \/ ParkExpires(t)
      PROVE  QuotaShape'
  BY <1>8, <1>9 DEF Submit, PollEmpty, Elect, Park, ParkExpires, MoveTo, combining, store,
                    QuotaShape, Waiting
<1>10. ASSUME NEW t \in Callers, Drain(t) \/ DrainEnds(t) \/ Unlock(t) PROVE QuotaShape'
  BY <1>8, <1>10 DEF Drain, DrainEnds, Unlock, MoveTo, combining, store, QuotaShape, Waiting
<1>11. ASSUME NEW outcome \in {"ok", "error"}, Answer(outcome)
       PROVE  reply' \in [Callers -> {None, "ok", "error"}]
  BY <1>11 DEF Answer, QuotaShape
<1>12. ASSUME NEW t \in Callers, Commit(t) PROVE QuotaShape'
  <2>1. PICK g \in [0..Len(batch) -> [Keys -> Row]] : ApplyBatch(db, batch) = g[Len(batch)]
    BY BatchPath DEF QuotaShape, CombineInv
  <2>2. Len(batch) \in 0..Len(batch)
    BY DEF CombineInv
  <2>3. db' \in [Keys -> Row]
    BY <1>12, <2>1, <2>2 DEF Commit
  <2>4. durable' \in [Keys -> Row]
    BY <1>12, <2>3 DEF Commit, RecordCommit, QuotaShape
  <2>5. reply' \in [Callers -> {None, "ok", "error"}]
    BY <1>11, <1>12 DEF Commit
  <2> QED  BY <1>8, <1>12, <2>3, <2>4, <2>5 DEF Commit, MoveTo, QuotaShape, Waiting
<1>13. ASSUME NEW t \in Callers, CommitFails(t) PROVE QuotaShape'
  <2>1. reply' \in [Callers -> {None, "ok", "error"}]
    BY <1>11, <1>13 DEF CommitFails
  <2>2. faults' \in Nat /\ db' = db /\ durable' = durable
    BY <1>13 DEF CommitFails, Fault, store, QuotaShape
  <2> QED  BY <1>8, <1>13, <2>1, <2>2 DEF CommitFails, MoveTo, QuotaShape, Waiting
<1>14. ASSUME NEW t \in Callers, CombinerDies(t) PROVE QuotaShape'
  <2>1. reply' \in [Callers -> {None, "ok", "error"}]
    BY <1>14 DEF CombinerDies, QuotaShape
  <2>2. faults' \in Nat /\ db' = db /\ durable' = durable
    BY <1>14 DEF CombinerDies, Fault, store, QuotaShape
  <2> QED  BY <1>4, <1>14, <2>1, <2>2 DEF CombinerDies, QuotaShape
<1>15. CASE Crash
  <2>1. tally' \in [Namespaces -> Deltas]
    BY <1>15, TallyAtRest DEF Crash, QuotaShape
  <2> QED  BY <1>15, <2>1 DEF Crash, QuotaShape
<1> QED
  BY <1>1, <1>2, <1>3, <1>5, <1>6, <1>7, <1>9, <1>10, <1>12, <1>13, <1>14, <1>15
  DEF StoreNext, StoreStep

-----------------------------------------------------------------------------
(* Jobs and deltas.                                                        *)
LEMMA WritesStep ==
  ASSUME CombineInv, QuotaShape, WritesInv, StoreNext
  PROVE  WritesInv'
<1> SUFFICES ASSUME faults' = 0 PROVE JobsOwned' /\ DeltasHold'
  BY DEF WritesInv
<1> DEFINE Charging(u) == at[u] = "charge" \/ Pending(u)
           NoJob(u) == at[u] \notin Waiting \/ reply[u] # None
<1>0. /\ at \in [Callers -> {"idle", "read", "charge", "apply"} \cup Waiting]
      /\ op \in [Callers -> Ops \cup {None}]
      /\ reply \in [Callers -> {None, "ok", "error"}]
      /\ delta \in [Callers -> Deltas \cup {None}]
      /\ db \in [Keys -> Row] /\ faults \in Nat
  BY DEF CombineInv, QuotaShape, Waiting
<1>a. \A o \in Ops : o.key \in Keys
  BY OpShape
<1>b. ASSUME NEW t \in Callers, NEW u \in Callers, u # t, at[t] # "idle", at[u] # "idle"
      PROVE  op[t].key # op[u].key
  BY <1>b, KeysApart
<1>1. ASSUME NEW t \in Callers, ReadFails(t) \/ CommitFails(t) \/ CombinerDies(t) PROVE FALSE
  BY <1>0, <1>1 DEF ReadFails, CommitFails, CombinerDies, Fault
<1>2. CASE Crash
  BY <1>2 DEF Crash, JobsOwned, DeltasHold, Waiting, Pending
<1>3. ASSUME JobsOwned, queue' = queue, batch' = batch,
             \A u \in Callers : \/ NoJob(u)
                                \/ at'[u] \in Waiting /\ reply'[u] = reply[u] /\ op'[u] = op[u]
      PROVE  JobsOwned'
  BY <1>3 DEF JobsOwned, OwnedJob
<1>4. ASSUME DeltasHold,
             \A u \in Callers : at'[u] \notin Waiting => reply'[u] = None,
             \A u \in Callers : (Charging(u))' =>
               \/ delta'[u] = DeltaOf(op'[u], db'[op'[u].key])
               \/ /\ Charging(u) /\ op'[u] = op[u] /\ delta'[u] = delta[u]
                  /\ db'[op[u].key] = db[op[u].key]
      PROVE  DeltasHold'
  <2>1. ASSUME NEW u \in Callers, (Charging(u))'
        PROVE  delta'[u] = DeltaOf(op'[u], db'[op'[u].key])
    <3>1. CASE /\ Charging(u) /\ op'[u] = op[u] /\ delta'[u] = delta[u]
               /\ db'[op[u].key] = db[op[u].key]
      <4>1. delta[u] = DeltaOf(op[u], db[op[u].key])
        BY <1>4, <3>1 DEF DeltasHold
      <4>2. DeltaOf(op'[u], db'[op'[u].key]) = DeltaOf(op[u], db[op[u].key])
        BY <3>1
      <4> QED  BY <3>1, <4>1, <4>2
    <3> QED  BY <1>4, <2>1, <3>1
  <2> QED  BY <1>4, <2>1 DEF DeltasHold
<1>5. ASSUME NEW t \in Callers, NEW o \in Ops, Call(t, o), JobsOwned, DeltasHold
      PROVE  JobsOwned' /\ DeltasHold'
  <2>1. /\ at[t] = "idle" /\ at' = [at EXCEPT ![t] = "read"] /\ op' = [op EXCEPT ![t] = o]
        /\ UNCHANGED <<delta, db, reply, queue, batch>>
    BY <1>5 DEF Call, MoveTo, combining, store
  <2>2. JobsOwned'
    BY <1>0, <1>3, <1>5, <2>1 DEF Waiting
  <2>3. \A u \in Callers : at'[u] \notin Waiting => reply'[u] = None
    BY <1>0, <1>5, <2>1 DEF Waiting, DeltasHold
  <2>4. \A u \in Callers : (Charging(u))' => Charging(u) /\ u # t
    BY <1>0, <2>1 DEF Pending
  <2> QED  BY <1>0, <1>4, <1>5, <2>1, <2>2, <2>3, <2>4
<1>6. ASSUME NEW t \in Callers, Read(t), JobsOwned, DeltasHold
      PROVE  JobsOwned' /\ DeltasHold'
  <2>1. /\ at[t] = "read" /\ at' = [at EXCEPT ![t] = "charge"]
        /\ delta' = [delta EXCEPT ![t] = DeltaOf(op[t], db[op[t].key])]
        /\ UNCHANGED <<op, db, reply, queue, batch>>
    BY <1>6 DEF Read, Reads, MoveTo, combining, store
  <2>2. JobsOwned'
    BY <1>0, <1>3, <1>6, <2>1 DEF Waiting
  <2>3. \A u \in Callers : at'[u] \notin Waiting => reply'[u] = None
    BY <1>0, <1>6, <2>1 DEF Waiting, DeltasHold
  <2>4. \A u \in Callers : (Charging(u))' => Charging(u) \/ u = t
    BY <1>0, <2>1 DEF Pending
  <2>5. delta'[t] = DeltaOf(op'[t], db'[op'[t].key])
    BY <1>0, <2>1
  <2>6. \A u \in Callers : u # t => delta'[u] = delta[u]
    BY <1>0, <2>1
  <2>7. op' = op /\ db' = db
    BY <2>1
  <2> QED  BY <1>4, <1>6, <2>2, <2>3, <2>4, <2>5, <2>6, <2>7
<1>7. ASSUME NEW t \in Callers, Charge(t), JobsOwned, DeltasHold
      PROVE  JobsOwned' /\ DeltasHold'
  <2>1. /\ at[t] = "charge" /\ at' = [at EXCEPT ![t] = "apply"]
        /\ UNCHANGED <<op, delta, db, reply, queue, batch>>
    BY <1>7 DEF Charge, MoveTo, combining, store
  <2>2. JobsOwned'
    BY <1>0, <1>3, <1>7, <2>1 DEF Waiting
  <2>3. \A u \in Callers : at'[u] \notin Waiting => reply'[u] = None
    BY <1>0, <1>7, <2>1 DEF Waiting, DeltasHold
  <2>4. \A u \in Callers : (Charging(u))' => Charging(u)
    BY <1>0, <2>1 DEF Pending
  <2> QED  BY <1>4, <1>7, <2>1, <2>2, <2>3, <2>4
<1>8. ASSUME NEW t \in Callers, Leave(t), NoJob(t), queue' = queue, batch' = batch,
             \A u \in Callers : u # t => reply'[u] = reply[u], reply'[t] = None,
             \A u \in Callers : u # t /\ Charging(u) => db'[op[u].key] = db[op[u].key],
             JobsOwned, DeltasHold
      PROVE  JobsOwned' /\ DeltasHold'
  <2>1. /\ at' = [at EXCEPT ![t] = "idle"] /\ op' = [op EXCEPT ![t] = None]
        /\ delta' = [delta EXCEPT ![t] = None]
    BY <1>8 DEF Leave
  <2>2. \A u \in Callers : u # t => at'[u] = at[u] /\ op'[u] = op[u] /\ delta'[u] = delta[u]
    BY <1>0, <2>1
  <2>3. JobsOwned'
    BY <1>3, <1>8, <2>2
  <2>4. \A u \in Callers : at'[u] \notin Waiting => reply'[u] = None
    BY <1>8, <2>2 DEF DeltasHold
  <2>5. \A u \in Callers : (Charging(u))' => Charging(u) /\ u # t
    BY <1>0, <1>8, <2>1, <2>2 DEF Pending
  <2> QED  BY <1>4, <1>8, <2>2, <2>3, <2>4, <2>5
<1>9. ASSUME NEW t \in Callers, Deny(t), JobsOwned, DeltasHold
      PROVE  JobsOwned' /\ DeltasHold'
  <2>1. at[t] = "charge" /\ Leave(t) /\ UNCHANGED <<db, reply, queue, batch>>
    BY <1>9 DEF Deny, combining, store
  <2>2. reply[t] = None /\ NoJob(t)
    BY <1>9, <2>1 DEF DeltasHold, Waiting
  <2> QED  BY <1>8, <1>9, <2>1, <2>2
<1>10. ASSUME NEW t \in Callers, ApplyInMemory(t), JobsOwned, DeltasHold
      PROVE  JobsOwned' /\ DeltasHold'
  <2>1. at[t] = "apply" /\ Leave(t) /\ db' = ApplyOp(db, op[t]) /\ UNCHANGED <<reply, queue, batch>>
    BY <1>10 DEF ApplyInMemory, combining
  <2>2. reply[t] = None /\ NoJob(t)
    BY <1>10, <2>1 DEF DeltasHold, Waiting
  <2>3. ASSUME NEW u \in Callers, u # t, Charging(u) PROVE db'[op[u].key] = db[op[u].key]
    <3>1. at[u] # "idle" /\ at[t] # "idle"
      BY <2>1, <2>3 DEF Pending
    <3>2. op[u].key # op[t].key
      BY <1>b, <2>3, <3>1
    <3>3. op[u].key \in Keys
      BY <1>a, <3>1 DEF QuotaShape
    <3> QED  BY <1>0, <2>1, <3>2, <3>3 DEF ApplyOp
  <2> QED  BY <1>8, <1>10, <2>1, <2>2, <2>3
<1>11. ASSUME NEW t \in Callers, Return(t), JobsOwned, DeltasHold
      PROVE  JobsOwned' /\ DeltasHold'
  <2>1. Leave(t) /\ UNCHANGED <<db, queue, batch>> /\ NoJob(t)
        /\ reply' = [reply EXCEPT ![t] = None]
    BY <1>11 DEF Return, store
  <2>2. reply'[t] = None /\ \A u \in Callers : u # t => reply'[u] = reply[u]
    BY <1>0, <2>1
  <2> QED  BY <1>8, <1>11, <2>1, <2>2
<1>12. ASSUME NEW t \in Callers, NEW l \in Waiting, at' = [at EXCEPT ![t] = l],
              at[t] \in {"apply"} \cup Waiting, UNCHANGED <<op, delta, db, reply>>, DeltasHold
       PROVE  DeltasHold'
  <2>1. \A u \in Callers : at'[u] \notin Waiting => reply'[u] = None
    BY <1>0, <1>12 DEF DeltasHold
  <2>2. \A u \in Callers : (Charging(u))' => Charging(u)
    BY <1>0, <1>12 DEF Pending, Waiting
  <2> QED  BY <1>4, <1>12, <2>1, <2>2
<1>13. ASSUME NEW t \in Callers, NEW l \in Waiting, at' = [at EXCEPT ![t] = l],
              at[t] \in Waiting, UNCHANGED <<op, delta, db, reply, queue, batch>>,
              JobsOwned, DeltasHold
       PROVE  JobsOwned' /\ DeltasHold'
  <2>1. DeltasHold'
    BY <1>12, <1>13
  <2>2. \A u \in Callers : at[u] \in Waiting => at'[u] \in Waiting
    BY <1>0, <1>13
  <2> QED  BY <1>3, <1>13, <2>1, <2>2
<1>14. ASSUME NEW t \in Callers, JobsOwned, DeltasHold,
              PollEmpty(t) \/ Elect(t) \/ Park(t) \/ ParkExpires(t) \/ DrainEnds(t) \/ Unlock(t)
       PROVE  JobsOwned' /\ DeltasHold'
  <2>1. PICK l \in Waiting : /\ at' = [at EXCEPT ![t] = l] /\ at[t] \in Waiting
                             /\ UNCHANGED <<op, delta, db, reply, queue, batch>>
    BY <1>14 DEF PollEmpty, Elect, Park, ParkExpires, DrainEnds, Unlock, MoveTo, combining,
                 store, Waiting
  <2> QED  BY <1>13, <1>14, <2>1
<1>15. ASSUME NEW t \in Callers, Submit(t), JobsOwned, DeltasHold
       PROVE  JobsOwned' /\ DeltasHold'
  <2> DEFINE job == [owner |-> t, op |-> op[t]]
  <2>1. /\ at[t] = "apply" /\ at' = [at EXCEPT ![t] = "poll"] /\ queue' = Append(queue, job)
        /\ UNCHANGED <<op, delta, db, reply, batch>>
    BY <1>15 DEF Submit, MoveTo, store
  <2>2. DeltasHold'
    BY <1>12, <1>15, <2>1 DEF Waiting
  <2>3. reply[t] = None /\ at[t] \notin Waiting
    BY <1>15, <2>1 DEF DeltasHold, Waiting
  <2>4. \A j : OwnedJob(j) => (OwnedJob(j))' /\ j.owner # t
    BY <1>0, <2>1, <2>3 DEF OwnedJob
  <2>5. job.owner = t /\ \A j : j = job => (OwnedJob(j))'
    BY <1>0, <2>1, <2>3 DEF OwnedJob, Waiting
  <2>6. /\ DOMAIN queue = 1..Len(queue) /\ Len(queue) \in Nat
        /\ DOMAIN queue' = 1..(Len(queue) + 1)
        /\ \A i \in 1..Len(queue) : queue'[i] = queue[i]
        /\ queue'[Len(queue) + 1] = job
    <3>1. queue \in Seq(Jobs) /\ job \in Jobs
      BY <2>1 DEF CombineInv, Jobs
    <3> HIDE DEF job
    <3> QED  BY <2>1, <3>1
  <2> HIDE DEF job
  <2> DEFINE m == Len(queue)
  <2>7. \A i \in DOMAIN queue' : i \in DOMAIN queue \/ i = m + 1
    BY <2>6
  <2>9. \A i \in DOMAIN queue : OwnedJob(queue[i]) /\ queue'[i] = queue[i] /\ i # m + 1
    BY <1>15, <2>6 DEF JobsOwned
  <2>10. \A i \in DOMAIN batch : OwnedJob(batch[i])
    BY <1>15 DEF JobsOwned
  <2> HIDE DEF m
  <2>11. \A i \in DOMAIN queue' : (\A j : j = queue'[i] => (OwnedJob(j))')
    <3> SUFFICES ASSUME NEW i \in DOMAIN queue', NEW j, j = queue'[i] PROVE (OwnedJob(j))'
      OBVIOUS
    <3>1. CASE i \in DOMAIN queue
      BY <2>4, <2>9, <3>1
    <3>2. CASE i = m + 1
      BY <2>5, <2>6, <3>2 DEF m
    <3> QED  BY <2>7, <3>1, <3>2
  <2>12. \A i, j \in DOMAIN queue' : queue'[i].owner = queue'[j].owner => i = j
    <3>1. \A i \in DOMAIN queue : queue'[i].owner = queue[i].owner /\ queue[i].owner # t
      BY <2>4, <2>9
    <3>2. queue'[m + 1].owner = t
      BY <2>5, <2>6 DEF m
    <3>3. \A i, j \in DOMAIN queue : queue[i].owner = queue[j].owner => i = j
      BY <1>15 DEF JobsOwned
    <3> QED  BY <2>7, <3>1, <3>2, <3>3
  <2>13. \A i \in DOMAIN queue' : \A j \in DOMAIN batch : queue'[i].owner # batch[j].owner
    <3>1. \A j \in DOMAIN batch : batch[j].owner # t
      BY <2>4, <2>10
    <3>2. queue'[m + 1].owner = t
      BY <2>5, <2>6 DEF m
    <3>3. \A i \in DOMAIN queue : \A j \in DOMAIN batch : queue'[i].owner # batch[j].owner
      BY <1>15, <2>9 DEF JobsOwned
    <3> QED  BY <2>7, <3>1, <3>2, <3>3
  <2>14. \A i \in DOMAIN batch' : (\A j : j = batch'[i] => (OwnedJob(j))')
    BY <2>1, <2>4, <2>10
  <2>15. \A i, j \in DOMAIN batch' : batch'[i].owner = batch'[j].owner => i = j
    BY <1>15, <2>1 DEF JobsOwned
  <2>16. JobsOwned'
    BY <2>1, <2>11, <2>12, <2>13, <2>14, <2>15 DEF JobsOwned
  <2> QED  BY <2>2, <2>16
<1>16. ASSUME NEW t \in Callers, Drain(t), JobsOwned, DeltasHold
       PROVE  JobsOwned' /\ DeltasHold'
  <2> DEFINE n == IF Len(queue) < MaxBatch THEN Len(queue) ELSE MaxBatch
  <2>1. /\ at[t] = "drain" /\ at' = [at EXCEPT ![t] = "commit"]
        /\ batch' = SubSeq(queue, 1, n) /\ queue' = SubSeq(queue, n + 1, Len(queue))
        /\ UNCHANGED <<op, delta, db, reply>>
    BY <1>16 DEF Drain, MoveTo, store
  <2>2. DeltasHold'
    BY <1>12, <1>16, <2>1 DEF Waiting
  <2>3. \A j : OwnedJob(j) => (OwnedJob(j))'
    BY <1>0, <2>1 DEF OwnedJob, Waiting
  <2>4. /\ DOMAIN queue = 1..Len(queue) /\ Len(queue) \in Nat /\ Len(queue) > 0
        /\ queue \in Seq(Jobs)
    BY <1>16 DEF Drain, CombineInv
  <2>5. n \in 1..Len(queue)
    BY <2>4, Cadences
  <2> HIDE DEF n
  <2>6. /\ DOMAIN batch' = 1..n /\ \A i \in 1..n : batch'[i] = queue[i]
    BY <2>1, <2>4, <2>5
  <2>7. /\ DOMAIN queue' = 1..(Len(queue) - n)
        /\ \A i \in 1..(Len(queue) - n) : queue'[i] = queue[n + i]
    BY <2>1, <2>4, <2>5
  <2>8. \A i \in DOMAIN batch' : i \in DOMAIN queue /\ batch'[i] = queue[i]
    BY <2>4, <2>5, <2>6
  <2>9. \A i \in DOMAIN queue' : /\ n + i \in DOMAIN queue /\ queue'[i] = queue[n + i]
                                 /\ \A j \in DOMAIN batch' : n + i # j
    BY <2>4, <2>5, <2>6, <2>7
  <2>10. \A i, j \in DOMAIN queue' : n + i = n + j => i = j
    BY <2>5, <2>7
  <2>11. \A i \in DOMAIN queue : OwnedJob(queue[i])
    BY <1>16 DEF JobsOwned
  <2>12. \A i, j \in DOMAIN queue : queue[i].owner = queue[j].owner => i = j
    BY <1>16 DEF JobsOwned
  <2>13. /\ \A i \in DOMAIN queue' : (\A j : j = queue'[i] => (OwnedJob(j))')
         /\ \A i \in DOMAIN batch' : (\A j : j = batch'[i] => (OwnedJob(j))')
    BY <2>3, <2>8, <2>9, <2>11
  <2>14. /\ \A i, j \in DOMAIN queue' : queue'[i].owner = queue'[j].owner => i = j
         /\ \A i, j \in DOMAIN batch' : batch'[i].owner = batch'[j].owner => i = j
         /\ \A i \in DOMAIN queue' : \A j \in DOMAIN batch' : queue'[i].owner # batch'[j].owner
    BY <2>8, <2>9, <2>10, <2>12
  <2>15. JobsOwned'
    BY <2>13, <2>14 DEF JobsOwned
  <2> QED  BY <2>2, <2>15
<1>17. ASSUME NEW t \in Callers, Commit(t), JobsOwned, DeltasHold,
              \A u \in Callers : Charging(u) /\ u \notin Owners(batch) =>
                                   db'[op[u].key] = db[op[u].key]
       PROVE  JobsOwned' /\ DeltasHold'
  <2>1. /\ at[t] = "commit" /\ at' = [at EXCEPT ![t] = "drain"] /\ batch' = <<>>
        /\ reply' = [u \in Callers |-> IF u \in Owners(batch) THEN "ok" ELSE reply[u]]
        /\ UNCHANGED <<op, delta, queue>>
    BY <1>17 DEF Commit, MoveTo, Answer
  <2>2. \A u \in Owners(batch) : at[u] \in Waiting /\ at'[u] \in Waiting
    BY <1>0, <1>17, <2>1 DEF Owners, JobsOwned, OwnedJob, Waiting
  <2>3. \A u \in Callers : at'[u] \notin Waiting => reply'[u] = None
    BY <1>0, <1>17, <2>1, <2>2 DEF DeltasHold, Waiting
  <2>4. \A u \in Callers : (Charging(u))' => Charging(u) /\ u \notin Owners(batch)
    <3> SUFFICES ASSUME NEW u \in Callers, (Charging(u))'
                 PROVE  Charging(u) /\ u \notin Owners(batch)
      OBVIOUS
    <3>1. u \notin Owners(batch)
      BY <1>0, <2>1, <2>2, StoreFacts DEF Pending, Waiting
    <3>2. reply'[u] = reply[u] /\ (at'[u] = at[u] \/ at[u] = "commit")
      BY <1>0, <2>1, <3>1
    <3> QED  BY <1>0, <2>1, <3>1, <3>2 DEF Pending
  <2>5. DeltasHold'
    BY <1>4, <1>17, <2>1, <2>3, <2>4
  <2>6. ASSUME NEW i \in DOMAIN queue PROVE (\A j : j = queue[i] => (OwnedJob(j))')
    <3>1. OwnedJob(queue[i]) /\ queue[i].owner \notin Owners(batch)
      BY <1>17 DEF JobsOwned, Owners
    <3> QED  BY <1>0, <2>1, <3>1 DEF OwnedJob, Waiting
  <2>7. DOMAIN batch' = {}
    BY <2>1
  <2>8. JobsOwned'
    BY <1>17, <2>1, <2>6, <2>7 DEF JobsOwned
  <2> QED  BY <2>5, <2>8
<1>18. ASSUME NEW t \in Callers, Commit(t), JobsOwned, DeltasHold
       PROVE  JobsOwned' /\ DeltasHold'
  <2> SUFFICES ASSUME NEW u \in Callers, Charging(u), u \notin Owners(batch)
               PROVE  db'[op[u].key] = db[op[u].key]
    BY <1>17, <1>18
  <2>1. db' = ApplyBatch(db, batch) /\ batch \in Seq(Jobs)
    BY <1>18 DEF Commit, CombineInv
  <2>2. PICK g \in [0..Len(batch) -> [Keys -> Row]] :
          /\ g[0] = db /\ ApplyBatch(db, batch) = g[Len(batch)]
          /\ \A j \in 1..Len(batch) : g[j] = ApplyOp(g[j - 1], batch[j].op)
    BY <1>0, <2>1, BatchPath
  <2>3. at[u] # "idle" /\ op[u].key \in Keys
    BY <1>a DEF Pending, QuotaShape
  <2>4. \A j \in 1..Len(batch) : batch[j].op.key # op[u].key
    <3> SUFFICES ASSUME NEW j \in 1..Len(batch) PROVE batch[j].op.key # op[u].key
      OBVIOUS
    <3>1. /\ batch[j].owner \in Owners(batch) /\ OwnedJob(batch[j])
      BY <1>18, <2>1 DEF JobsOwned, Owners
    <3>2. /\ batch[j].owner \in Callers /\ batch[j].owner # u /\ batch[j].op = op[batch[j].owner]
          /\ at[batch[j].owner] # "idle"
      BY <3>1 DEF OwnedJob, Waiting
    <3> QED  BY <1>b, <2>3, <3>2
  <2>5. ASSUME NEW j \in Nat, j <= Len(batch) => g[j][op[u].key] = db[op[u].key]
        PROVE  j + 1 <= Len(batch) => g[j + 1][op[u].key] = db[op[u].key]
    <3> SUFFICES ASSUME j + 1 <= Len(batch) PROVE g[j + 1][op[u].key] = db[op[u].key]
      OBVIOUS
    <3>1. j + 1 \in 1..Len(batch) /\ j \in 0..Len(batch) /\ (j + 1) - 1 = j /\ j <= Len(batch)
      BY <2>1
    <3>2. g[j + 1] = ApplyOp(g[j], batch[j + 1].op) /\ batch[j + 1].op.key # op[u].key
      BY <2>2, <2>4, <3>1
    <3> QED  BY <2>2, <2>3, <2>5, <3>1, <3>2 DEF ApplyOp
  <2> DEFINE N == {j \in Nat : j <= Len(batch) => g[j][op[u].key] = db[op[u].key]}
  <2>6. 0 \in N /\ \A j \in Nat : j \in N => j + 1 \in N
    BY <2>2, <2>5
  <2> HIDE DEF N
  <2>7. Nat \subseteq N
    BY <2>6, InductionSet
  <2>8. Len(batch) \in N
    BY <2>1, <2>7
  <2> QED  BY <2>1, <2>2, <2>8 DEF N
<1>19. ASSUME ~Crash,
              ~(\E t \in Callers : ReadFails(t) \/ CommitFails(t) \/ CombinerDies(t))
       PROVE  faults = 0
  BY <1>19 DEF StoreNext, StoreStep, Call, Read, Charge, Deny, ApplyInMemory, Submit, Return,
               PollEmpty, Elect, Park, ParkExpires, Drain, DrainEnds, Commit, Unlock
<1>20. CASE faults = 0 /\ ~Crash
  <2>1. JobsOwned /\ DeltasHold
    BY <1>20 DEF WritesInv
  <2> QED  BY <1>1, <1>5, <1>6, <1>7, <1>9, <1>10, <1>11, <1>14, <1>15, <1>16, <1>18, <1>20, <2>1
           DEF StoreNext, StoreStep
<1> QED  BY <1>1, <1>2, <1>19, <1>20

-----------------------------------------------------------------------------
(* The tally.                                                              *)
LEMMA TallySame ==
  ASSUME NEW P \in SUBSET Callers, NEW tl, NEW rows, NEW ops, NEW ds, NEW ops2, NEW ds2,
         \A t \in P : ops2[t] = ops[t] /\ ds2[t] = ds[t] /\ ds[t] \in Deltas,
         TallyOf(tl, rows, P, ops, ds)
  PROVE  TallyOf(tl, rows, P, ops2, ds2)
<1>1. \A t \in P : /\ Entries(ds)[t] \in Int /\ Lengths(ds)[t] \in Int
                   /\ Entries(ds2)[t] = Entries(ds)[t]
                   /\ Lengths(ds2)[t] = Lengths(ds)[t] /\ ops2[t] = ops[t]
  BY DEF Entries, Lengths, Deltas
<1>2. \A n \in Namespaces :
        /\ Owing(P, ops2, Entries(ds2), n) = Owing(P, ops, Entries(ds), n)
        /\ Owing(P, ops2, Lengths(ds2), n) = Owing(P, ops, Lengths(ds), n)
  BY <1>1, OwingEqual
<1> QED  BY <1>2 DEF TallyOf

LEMMA OwingAdd ==
  ASSUME NEW P \in SUBSET Callers, NEW ops, NEW w, NEW n,
         NEW t \in Callers, t \notin P, IntegerOn(P \cup {t}, w)
  PROVE  /\ NsOf[ops[t].key] = n =>
              Owing(P \cup {t}, ops, w, n) = Owing(P, ops, w, n) + w[t]
         /\ NsOf[ops[t].key] # n =>
              Owing(P \cup {t}, ops, w, n) = Owing(P, ops, w, n)
<1> DEFINE Q == P \cup {t}
<1>0. Q \ {t} = P
  OBVIOUS
<1>1. Q \in SUBSET Callers /\ t \in Q /\ IntegerOn(Q, w)
  OBVIOUS
<1> HIDE DEF Q
<1>2. /\ NsOf[ops[t].key] = n => Owing(Q, ops, w, n) = Owing(Q \ {t}, ops, w, n) + w[t]
      /\ NsOf[ops[t].key] # n => Owing(Q, ops, w, n) = Owing(Q \ {t}, ops, w, n)
  BY <1>1, OwingRemove
<1> QED  BY <1>0, <1>2 DEF Q

(* A charge is one more write owed.                                        *)
LEMMA TallyCharged ==
  ASSUME NEW P \in SUBSET Callers, NEW t \in Callers \ P, NEW rows \in [Keys -> Row],
         NEW ops, ops[t] \in Ops, NEW ds, \A u \in P \cup {t} : ds[u] \in Deltas,
         tally \in [Namespaces -> Deltas], TallyOf(tally, rows, P, ops, ds)
  PROVE  TallyOf(Charged(NsOf[ops[t].key], ds[t]), rows, P \cup {t}, ops, ds)
<1> DEFINE m == NsOf[ops[t].key]
           d == ds[t]
           new == Charged(m, d)
           Q == P \cup {t}
           we == Entries(ds)
           wb == Lengths(ds)
<1>1. m \in Namespaces
  BY OpShape, StoreFacts
<1>2. Q \in SUBSET Callers /\ t \in Q /\ Q \ {t} = P
  OBVIOUS
<1>3. /\ \A u \in Q : we[u] = ds[u].entries /\ we[u] \in Int
      /\ \A u \in Q : wb[u] = ds[u].bytes /\ wb[u] \in Int
  BY DEF Deltas, Entries, Lengths
<1>4. d.entries \in Int /\ d.bytes \in Int /\ we[t] = d.entries /\ wb[t] = d.bytes
  BY <1>3
<1> SUFFICES ASSUME NEW n \in Namespaces
             PROVE  /\ new[n].entries = Cardinality(Stored(rows, n)) + Owing(Q, ops, we, n)
                    /\ new[n].bytes = Bytes(rows, Stored(rows, n)) + Owing(Q, ops, wb, n)
  BY DEF TallyOf
<1>5. /\ tally[n].entries \in Int /\ tally[n].bytes \in Int
      /\ m = n => new[n].entries = tally[n].entries + d.entries
                  /\ new[n].bytes = tally[n].bytes + d.bytes
      /\ m # n => new[n] = tally[n]
  BY <1>1 DEF Charged, Deltas
<1> DEFINE e == Cardinality(Stored(rows, n))
           b == Bytes(rows, Stored(rows, n))
           x == Owing(P, ops, we, n)
           y == Owing(P, ops, wb, n)
<1>6. e \in Nat /\ b \in Nat
  BY RowChange
<1> HIDE DEF we, wb
<1>7. x \in Int /\ y \in Int
  BY <1>3, OwingType
<1>8. /\ m = n => Owing(Q, ops, we, n) = x + d.entries
      /\ m # n => Owing(Q, ops, we, n) = x
  <2>1. IntegerOn(P \cup {t}, we)
    BY <1>3 DEF IntegerOn
  <2>2. /\ NsOf[ops[t].key] = n => Owing(P \cup {t}, ops, we, n) = Owing(P, ops, we, n) + we[t]
        /\ NsOf[ops[t].key] # n => Owing(P \cup {t}, ops, we, n) = Owing(P, ops, we, n)
    <3> HIDE DEF new, d, m, x, y, Q
    <3> QED  BY <2>1, OwingAdd
  <2> QED  BY <1>4, <2>2
<1>9. /\ m = n => Owing(Q, ops, wb, n) = y + d.bytes
      /\ m # n => Owing(Q, ops, wb, n) = y
  <2>1. IntegerOn(P \cup {t}, wb)
    BY <1>3 DEF IntegerOn
  <2>2. /\ NsOf[ops[t].key] = n => Owing(P \cup {t}, ops, wb, n) = Owing(P, ops, wb, n) + wb[t]
        /\ NsOf[ops[t].key] # n => Owing(P \cup {t}, ops, wb, n) = Owing(P, ops, wb, n)
    <3> HIDE DEF new, d, m, x, y, Q
    <3> QED  BY <2>1, OwingAdd
  <2> QED  BY <1>4, <2>2
<1>10. tally[n].entries = e + x /\ tally[n].bytes = b + y
  BY DEF TallyOf, we, wb
<1> HIDE DEF e, b, x, y, new, m, d
<1>11. (m = n) \/ (m # n)
  OBVIOUS
<1>12. CASE m = n
  <2>1. (e + x) + d.entries = e + (x + d.entries) /\ (b + y) + d.bytes = b + (y + d.bytes)
    BY <1>4, <1>6, <1>7
  <2> QED  BY <1>5, <1>8, <1>9, <1>10, <1>12, <2>1 DEF e, b
<1>13. CASE m # n
  BY <1>5, <1>8, <1>9, <1>10, <1>13 DEF e, b
<1> QED  BY <1>11, <1>12, <1>13

LEMMA TallyStep ==
  ASSUME CombineInv, QuotaShape, WritesInv, TallyInv, StoreNext
  PROVE  TallyInv'
<1>0. /\ at \in [Callers -> {"idle", "read", "charge", "apply"} \cup Waiting]
      /\ op \in [Callers -> Ops \cup {None}]
      /\ reply \in [Callers -> {None, "ok", "error"}]
      /\ delta \in [Callers -> Deltas \cup {None}]
      /\ db \in [Keys -> Row] /\ faults \in Nat /\ tally \in [Namespaces -> Deltas]
  BY DEF CombineInv, QuotaShape, Waiting
<1>a. /\ Owed \in SUBSET Callers
      /\ \A t \in Owed : delta[t] \in Deltas /\ op[t] \in Ops /\ at[t] # "idle"
  BY <1>0 DEF Owed, Pending, QuotaShape
<1>1. CASE Crash
  <2>1. Owed' = {}
    BY <1>1 DEF Crash, Owed, Pending
  <2>2. TallyOf(Restore(durable), durable, {}, op', delta')
    BY TallyAtRest DEF QuotaShape
  <2> QED  BY <1>1, <2>1, <2>2 DEF Crash, TallyInv
<1>2. ASSUME NEW t \in Callers, ReadFails(t) \/ CommitFails(t) \/ CombinerDies(t) PROVE TallyInv'
  <2>1. faults' # 0
    BY <1>0, <1>2 DEF ReadFails, CommitFails, CombinerDies, Fault
  <2> QED  BY <2>1 DEF TallyInv
<1>3. ASSUME NEW t \in Callers, Charge(t) PROVE TallyInv'
  <2>1. /\ at[t] = "charge" /\ at' = [at EXCEPT ![t] = "apply"]
        /\ tally' = Charged(NsOf[op[t].key], delta[t])
        /\ UNCHANGED <<op, delta, db, reply, faults>>
    BY <1>3 DEF Charge, MoveTo, combining, store
  <2> SUFFICES ASSUME faults = 0 PROVE TallyOf(tally', db, Owed', op, delta)
    BY <2>1 DEF TallyInv
  <2>2. DeltasHold /\ TallyOf(tally, db, Owed, op, delta)
    BY DEF WritesInv, TallyInv
  <2>3. t \notin Owed /\ Owed' = Owed \cup {t}
    BY <1>0, <2>1, <2>2 DEF Owed, Pending, DeltasHold, Waiting
  <2>4. op[t] \in Ops /\ delta[t] \in Deltas
    BY <2>1 DEF QuotaShape
  <2>5. \A u \in Owed \cup {t} : delta[u] \in Deltas
    BY <1>a, <2>4
  <2>6. t \in Callers \ Owed
    BY <2>3
  <2> DEFINE P == Owed
  <2> HIDE DEF P
  <2>7. TallyOf(Charged(NsOf[op[t].key], delta[t]), db, P \cup {t}, op, delta)
    BY <1>0, <1>a, <2>2, <2>4, <2>5, <2>6, TallyCharged DEF P
  <2> QED  BY <2>1, <2>3, <2>7 DEF P
<1>4. ASSUME NEW t \in Callers, ApplyInMemory(t) PROVE TallyInv'
  <2>1. /\ at[t] = "apply" /\ at' = [at EXCEPT ![t] = "idle"]
        /\ op' = [op EXCEPT ![t] = None] /\ delta' = [delta EXCEPT ![t] = None]
        /\ db' = ApplyOp(db, op[t])
        /\ UNCHANGED <<tally, reply, faults>>
    BY <1>4 DEF ApplyInMemory, Leave, combining
  <2> SUFFICES ASSUME faults = 0 PROVE TallyOf(tally, db', Owed', op', delta')
    BY <2>1 DEF TallyInv
  <2>2. DeltasHold /\ TallyOf(tally, db, Owed, op, delta)
    BY DEF WritesInv, TallyInv
  <2>3. t \in Owed /\ Owed' = Owed \ {t} /\ Pending(t)
    BY <1>0, <2>1, <2>2 DEF Owed, Pending, DeltasHold, Waiting
  <2>4. delta[t] = DeltaOf(op[t], db[op[t].key])
    BY <2>2, <2>3 DEF DeltasHold
  <2> DEFINE P == Owed
  <2> HIDE DEF P
  <2>5. P \in SUBSET Callers /\ t \in P /\ TallyOf(tally, db, P, op, delta)
        /\ (\A u \in P : delta[u] \in Deltas /\ op[u] \in Ops) /\ op[t] \in Ops
    BY <1>a, <2>2, <2>3 DEF P
  <2>6. TallyOf(tally, ApplyOp(db, op[t]), P \ {t}, op, delta)
    BY <1>0, <2>4, <2>5, TallyFollows
  <2>7. \A u \in P \ {t} : op'[u] = op[u] /\ delta'[u] = delta[u] /\ delta[u] \in Deltas
    BY <1>0, <2>1, <2>5
  <2> DEFINE Q == P \ {t}
             new == ApplyOp(db, op[t])
  <2>8. Q \in SUBSET Callers /\ TallyOf(tally, new, Q, op, delta)
        /\ \A u \in Q : op'[u] = op[u] /\ delta'[u] = delta[u] /\ delta[u] \in Deltas
    BY <2>5, <2>6, <2>7
  <2> HIDE DEF Q, new
  <2>9. TallyOf(tally, new, Q, op', delta')
    BY <2>8, TallySame
  <2> QED  BY <2>1, <2>3, <2>9 DEF P, Q, new
<1>5. ASSUME NEW t \in Callers, Commit(t) PROVE TallyInv'
  <2>1. /\ at[t] = "commit" /\ at' = [at EXCEPT ![t] = "drain"]
        /\ db' = ApplyBatch(db, batch)
        /\ reply' = [u \in Callers |-> IF u \in Owners(batch) THEN "ok" ELSE reply[u]]
        /\ UNCHANGED <<tally, op, delta, faults>>
    BY <1>5 DEF Commit, MoveTo, Answer
  <2> SUFFICES ASSUME faults = 0 PROVE TallyOf(tally, db', Owed', op, delta)
    BY <2>1 DEF TallyInv
  <2>2. JobsOwned /\ DeltasHold /\ TallyOf(tally, db, Owed, op, delta)
    BY DEF WritesInv, TallyInv
  <2>3. Owed' = Owed \ Owners(batch)
    <3>1. \A u \in Callers : Pending(u)' <=> Pending(u) /\ u \notin Owners(batch)
      BY <1>0, <2>1, StoreFacts DEF Pending
    <3> QED  BY <3>1 DEF Owed
  <2> DEFINE P == Owed
  <2>4. P \in SUBSET Callers
    BY <1>a
  <2>5. batch \in Seq(Jobs)
    BY DEF CombineInv
  <2>6. \A i \in DOMAIN batch : batch[i].owner \in P /\ batch[i].op = op[batch[i].owner]
    BY <2>2 DEF JobsOwned, OwnedJob, Owed, Pending, Waiting
  <2>7. \A i, j \in DOMAIN batch : batch[i].owner = batch[j].owner => i = j
    BY <2>2 DEF JobsOwned
  <2>8. \A u \in P : op[u] \in Ops /\ delta[u] = DeltaOf(op[u], db[op[u].key])
    BY <1>a, <2>2 DEF DeltasHold, Owed
  <2>9. \A u, v \in P : op[u].key = op[v].key => u = v
    BY <1>a, KeysApart
  <2>10. TallyOf(tally, db, P, op, delta)
    BY <2>2
  <2> HIDE DEF P
  <2>a. BatchLeaves(ApplyBatch(db, batch), db, batch, P, op, delta, tally)
    BY <1>0, <2>4, <2>5, <2>6, <2>7, <2>8, <2>9, <2>10, TallyFollowsBatch
  <2>11. TallyOf(tally, ApplyBatch(db, batch), P \ Owners(batch), op, delta)
    BY <2>a DEF BatchLeaves
  <2> QED  BY <2>1, <2>3, <2>11 DEF P
<1>6. ASSUME NEW t \in Callers, Leave(t), t \notin Owed, reply'[t] = None,
             \A u \in Callers : u # t => reply'[u] = reply[u], db' = db, tally' = tally,
             faults' = faults
      PROVE  TallyInv'
  <2>1. /\ at' = [at EXCEPT ![t] = "idle"] /\ op' = [op EXCEPT ![t] = None]
        /\ delta' = [delta EXCEPT ![t] = None]
    BY <1>6 DEF Leave
  <2>2. Owed' = Owed
    <3>1. \A u \in Callers : Pending(u)' <=> Pending(u)
      BY <1>0, <1>6, <2>1 DEF Pending, Owed
    <3> QED  BY <3>1 DEF Owed
  <2>3. \A u \in Owed : op'[u] = op[u] /\ delta'[u] = delta[u] /\ delta[u] \in Deltas
    BY <1>0, <1>a, <1>6, <2>1
  <2> QED  BY <1>6, <2>2, <2>3, TallyKept
<1>7. ASSUME NEW t \in Callers, Deny(t) PROVE TallyInv'
  <2>1. at[t] = "charge" /\ Leave(t) /\ UNCHANGED <<db, tally, reply, faults>>
    BY <1>7 DEF Deny, combining, store
  <2>2. t \notin Owed
    BY <2>1 DEF Owed, Pending
  <2>3. CASE faults = 0
    <3>1. reply[t] = None
      BY <2>1, <2>3 DEF WritesInv, DeltasHold, Waiting
    <3> QED  BY <1>6, <2>1, <2>2, <3>1
  <2>4. CASE faults # 0
    BY <2>1, <2>4 DEF TallyInv
  <2> QED  BY <2>3, <2>4
<1>8. ASSUME NEW t \in Callers, Return(t) PROVE TallyInv'
  <2>1. /\ Leave(t) /\ UNCHANGED <<db, tally, faults>> /\ reply[t] # None
        /\ reply' = [reply EXCEPT ![t] = None]
    BY <1>8 DEF Return, store
  <2>2. t \notin Owed /\ reply'[t] = None /\ \A u \in Callers : u # t => reply'[u] = reply[u]
    BY <1>0, <2>1 DEF Owed, Pending
  <2> QED  BY <1>6, <2>1, <2>2
<1>9. ASSUME NEW t \in Callers, NEW l, at' = [at EXCEPT ![t] = l],
             (at[t] \in {"idle", "read", "charge"}) = (l \in {"idle", "read", "charge"}),
             \A u \in Callers : Pending(u) => op'[u] = op[u] /\ delta'[u] = delta[u],
             UNCHANGED <<db, tally, reply, faults>>
      PROVE  TallyInv'
  <2>1. \A u \in Callers : Pending(u)' <=> Pending(u)
    BY <1>0, <1>9 DEF Pending
  <2>2. Owed' = Owed
    BY <2>1 DEF Owed
  <2>3. \A u \in Owed : op'[u] = op[u] /\ delta'[u] = delta[u] /\ delta[u] \in Deltas
    BY <1>a, <1>9 DEF Owed
  <2> QED  BY <1>9, <2>2, <2>3, TallyKept
<1>10. ASSUME NEW t \in Callers, NEW o \in Ops, Call(t, o) PROVE TallyInv'
  <2>1. /\ at[t] = "idle" /\ at' = [at EXCEPT ![t] = "read"] /\ op' = [op EXCEPT ![t] = o]
        /\ UNCHANGED <<delta, db, tally, reply, faults>>
    BY <1>10 DEF Call, MoveTo, combining, store
  <2>2. \A u \in Callers : Pending(u) => op'[u] = op[u] /\ delta'[u] = delta[u]
    BY <1>0, <2>1 DEF Pending
  <2>3. (at[t] \in {"idle", "read", "charge"}) = ("read" \in {"idle", "read", "charge"})
    BY <2>1
  <2> QED  BY <1>9, <2>1, <2>2, <2>3
<1>11. ASSUME NEW t \in Callers, Read(t) PROVE TallyInv'
  <2>1. /\ at[t] = "read" /\ at' = [at EXCEPT ![t] = "charge"]
        /\ delta' = [delta EXCEPT ![t] = DeltaOf(op[t], db[op[t].key])]
        /\ UNCHANGED <<op, db, tally, reply, faults>>
    BY <1>11 DEF Read, Reads, MoveTo, combining, store
  <2>2. \A u \in Callers : Pending(u) => op'[u] = op[u] /\ delta'[u] = delta[u]
    BY <1>0, <2>1 DEF Pending
  <2>3. (at[t] \in {"idle", "read", "charge"}) = ("charge" \in {"idle", "read", "charge"})
    BY <2>1
  <2> QED  BY <1>9, <2>1, <2>2, <2>3
<1>12. ASSUME NEW t \in Callers,
              \/ Submit(t) \/ PollEmpty(t) \/ Elect(t) \/ Park(t) \/ ParkExpires(t)
              \/ Drain(t) \/ DrainEnds(t) \/ Unlock(t)
       PROVE  TallyInv'
  <2>1. PICK l \in Waiting : /\ at' = [at EXCEPT ![t] = l] /\ at[t] \in {"apply"} \cup Waiting
                             /\ UNCHANGED <<op, delta, db, tally, reply, faults>>
    BY <1>12 DEF Submit, PollEmpty, Elect, Park, ParkExpires, Drain, DrainEnds, Unlock, MoveTo,
                 combining, store, Waiting
  <2>2. (at[t] \in {"idle", "read", "charge"}) = (l \in {"idle", "read", "charge"})
    BY <2>1 DEF Waiting
  <2>3. \A u \in Callers : Pending(u) => op'[u] = op[u] /\ delta'[u] = delta[u]
    BY <2>1
  <2> QED  BY <1>9, <2>1, <2>2, <2>3
<1> QED  BY <1>1, <1>2, <1>3, <1>4, <1>5, <1>7, <1>8, <1>10, <1>11, <1>12 DEF StoreNext, StoreStep

-----------------------------------------------------------------------------
(* Growth.  A namespace is within its caps, or what it holds is from an    *)
(* earlier version and nothing it owes grows; so are all of them together. *)
WithinNs(n) == tally[n].entries <= MaxNsEntries /\ tally[n].bytes <= MaxNsBytes

WithinTotal ==
  Total(tally, "entries") <= MaxTotalEntries /\ Total(tally, "bytes") <= MaxTotalBytes

Quiet(n) ==
  /\ Stored(db, n) \subseteq boot
  /\ \A t \in Owed : NsOf[op[t].key] = n => delta[t].entries <= 0 /\ delta[t].bytes <= 0

GrowthInv ==
  faults = 0 => /\ \A n \in Namespaces : WithinNs(n) \/ Quiet(n)
                /\ WithinTotal \/ \A n \in Namespaces : Quiet(n)

(* g is f with d more at a.                                                *)
Bumps(S, f, g, a, d) ==
  /\ a \in S /\ d \in Int /\ g[a] = f[a] + d
  /\ \A x \in S : f[x] \in Int /\ g[x] \in Int /\ (x # a => g[x] = f[x])

LEMMA SumBump ==
  ASSUME NEW S, IsFiniteSet(S), NEW f, NEW g, NEW a, NEW d, Bumps(S, f, g, a, d)
  PROVE  /\ SumFunctionOnSet(g, S) = SumFunctionOnSet(f, S) + d
         /\ SumFunctionOnSet(f, S) \in Int
<1> DEFINE R == S \ {a}
<1>0. /\ a \in S /\ d \in Int /\ g[a] = f[a] + d
      /\ \A x \in S : f[x] \in Int /\ g[x] \in Int /\ (x # a => g[x] = f[x])
  BY DEF Bumps
<1>1. IsFiniteSet(R) /\ \A x \in R : g[x] = f[x] /\ f[x] \in Int /\ g[x] \in Int
  BY <1>0, FS_Subset
<1>2. /\ SumFunctionOnSet(g, S) = g[a] + SumFunctionOnSet(g, R)
      /\ SumFunctionOnSet(f, S) = f[a] + SumFunctionOnSet(f, R)
  BY <1>0, SumRemove
<1> HIDE DEF R
<1>3. SumFunctionOnSet(g, R) = SumFunctionOnSet(f, R) /\ SumFunctionOnSet(f, R) \in Int
  BY <1>1, SumEqual, SumType
<1> DEFINE r == SumFunctionOnSet(f, R)
<1>4. f[a] \in Int /\ r \in Int /\ SumFunctionOnSet(g, S) = (f[a] + d) + r
      /\ SumFunctionOnSet(f, S) = f[a] + r
  BY <1>0, <1>2, <1>3
<1> HIDE DEF r
<1> QED  BY <1>0, <1>4

(* The totals as sums over the namespaces.                                 *)
LEMMA TotalsAre ==
  ASSUME NEW tl \in [Namespaces -> Deltas]
  PROVE  /\ Total(tl, "entries") = SumFunctionOnSet([n \in Namespaces |-> tl[n].entries], Namespaces)
         /\ Total(tl, "bytes") = SumFunctionOnSet([n \in Namespaces |-> tl[n].bytes], Namespaces)
         /\ \A n \in Namespaces : tl[n].entries \in Int /\ tl[n].bytes \in Int
BY DEF Total, SumFunction, Deltas

(* One namespace's charge is the total's charge.                           *)
LEMMA TotalCharged ==
  ASSUME tally \in [Namespaces -> Deltas], NEW m \in Namespaces, NEW d \in Deltas
  PROVE  /\ Total(Charged(m, d), "entries") = Total(tally, "entries") + d.entries
         /\ Total(Charged(m, d), "bytes") = Total(tally, "bytes") + d.bytes
         /\ Total(tally, "entries") \in Int /\ Total(tally, "bytes") \in Int
<1> DEFINE new == Charged(m, d)
           fe == [n \in Namespaces |-> tally[n].entries]
           fb == [n \in Namespaces |-> tally[n].bytes]
           ge == [n \in Namespaces |-> new[n].entries]
           gb == [n \in Namespaces |-> new[n].bytes]
<1>1. /\ new \in [Namespaces -> Deltas] /\ d.entries \in Int /\ d.bytes \in Int
      /\ new[m].entries = tally[m].entries + d.entries
      /\ new[m].bytes = tally[m].bytes + d.bytes
      /\ \A n \in Namespaces : n # m => new[n] = tally[n]
  BY DEF Charged, Deltas
<1> HIDE DEF new
<1>2. /\ \A n \in Namespaces : fe[n] \in Int /\ ge[n] \in Int
      /\ \A n \in Namespaces : n # m => ge[n] = fe[n]
      /\ ge[m] = fe[m] + d.entries
  BY <1>1, TotalsAre
<1>3. /\ \A n \in Namespaces : fb[n] \in Int /\ gb[n] \in Int
      /\ \A n \in Namespaces : n # m => gb[n] = fb[n]
      /\ gb[m] = fb[m] + d.bytes
  BY <1>1, TotalsAre
<1>4. /\ Total(tally, "entries") = SumFunctionOnSet(fe, Namespaces)
      /\ Total(tally, "bytes") = SumFunctionOnSet(fb, Namespaces)
  BY TotalsAre
<1>5. /\ Total(new, "entries") = SumFunctionOnSet(ge, Namespaces)
      /\ Total(new, "bytes") = SumFunctionOnSet(gb, Namespaces)
  BY <1>1, TotalsAre
<1>6. IsFiniteSet(Namespaces)
  BY StoreFacts
<1> HIDE DEF fe, fb, ge, gb
<1> DEFINE x == d.entries
           y == d.bytes
<1>9. x \in Int /\ ge[m] = fe[m] + x
  BY <1>1, <1>2
<1>10. y \in Int /\ gb[m] = fb[m] + y
  BY <1>1, <1>3
<1> HIDE DEF x, y
<1>7. /\ SumFunctionOnSet(ge, Namespaces) = SumFunctionOnSet(fe, Namespaces) + x
      /\ SumFunctionOnSet(fe, Namespaces) \in Int
  <2>1. Bumps(Namespaces, fe, ge, m, x)
    BY <1>2, <1>9 DEF Bumps
  <2> QED  BY <1>6, <2>1, SumBump
<1>8. /\ SumFunctionOnSet(gb, Namespaces) = SumFunctionOnSet(fb, Namespaces) + y
      /\ SumFunctionOnSet(fb, Namespaces) \in Int
  <2>1. Bumps(Namespaces, fb, gb, m, y)
    BY <1>3, <1>10 DEF Bumps
  <2> QED  BY <1>6, <2>1, SumBump
<1> QED  BY <1>4, <1>5, <1>7, <1>8 DEF new, x, y

LEMMA InitGrowth == StoreInit => GrowthInv
BY DEF StoreInit, GrowthInv, Quiet, Stored, Owed, Pending

(* A step that charges nothing and brings no row to a quiet namespace.     *)
LEMMA GrowthKept ==
  ASSUME GrowthInv, UNCHANGED <<faults, tally, boot>>, Owed' \subseteq Owed,
         \A t \in Owed' : op'[t] = op[t] /\ delta'[t] = delta[t],
         \A n \in Namespaces : Quiet(n) => Stored(db', n) \subseteq boot
  PROVE  GrowthInv'
<1> SUFFICES ASSUME faults = 0, GrowthInv
             PROVE  /\ \A n \in Namespaces : WithinNs(n)' \/ Quiet(n)'
                    /\ WithinTotal' \/ \A n \in Namespaces : Quiet(n)'
  BY DEF GrowthInv
<1>1. \A n \in Namespaces : WithinNs(n) => WithinNs(n)'
  BY DEF WithinNs
<1>2. WithinTotal => WithinTotal'
  BY DEF WithinTotal, Total
<1>3. \A n \in Namespaces : Quiet(n) => Quiet(n)'
  BY DEF Quiet
<1> QED  BY <1>1, <1>2, <1>3 DEF GrowthInv

(* A write that brings a row is one that grows.                            *)
LEMMA NewRowGrows ==
  ASSUME NEW o \in Ops, o.len # None
  PROVE  DeltaOf(o, None).entries = 1
BY OpShape DEF DeltaOf

LEMMA GrowthStep ==
  ASSUME CombineInv, QuotaShape, WritesInv, TallyInv, GrowthInv, StoreNext
  PROVE  GrowthInv'
<1>0. /\ at \in [Callers -> {"idle", "read", "charge", "apply"} \cup Waiting]
      /\ op \in [Callers -> Ops \cup {None}]
      /\ reply \in [Callers -> {None, "ok", "error"}]
      /\ delta \in [Callers -> Deltas \cup {None}]
      /\ db \in [Keys -> Row] /\ faults \in Nat /\ tally \in [Namespaces -> Deltas]
  BY DEF CombineInv, QuotaShape, Waiting
<1>a. /\ Owed \in SUBSET Callers
      /\ \A t \in Owed : delta[t] \in Deltas /\ op[t] \in Ops /\ at[t] # "idle"
  BY <1>0 DEF Owed, Pending, QuotaShape
<1>1. CASE Crash
  BY <1>1 DEF Crash, GrowthInv, Quiet, Stored, Owed, Pending
<1>2. ASSUME NEW t \in Callers, ReadFails(t) \/ CommitFails(t) \/ CombinerDies(t) PROVE GrowthInv'
  <2>1. faults' # 0
    BY <1>0, <1>2 DEF ReadFails, CommitFails, CombinerDies, Fault
  <2> QED  BY <2>1 DEF GrowthInv
<1>3. ASSUME NEW t \in Callers, Charge(t) PROVE GrowthInv'
  <2>a. op[t] \in Ops /\ delta[t] \in Deltas /\ NsOf[op[t].key] \in Namespaces
    BY <1>3, OpShape, StoreFacts DEF Charge, QuotaShape
  <2>b. PICK m \in Namespaces, d \in Deltas : m = NsOf[op[t].key] /\ d = delta[t]
    BY <2>a
  <2>1. /\ at[t] = "charge" /\ at' = [at EXCEPT ![t] = "apply"]
        /\ Admits(m, d) /\ tally' = Charged(m, d)
        /\ UNCHANGED <<op, delta, db, reply, faults, boot>>
    BY <1>3, <2>b DEF Charge, MoveTo, combining, store, fixed
  <2>2. d.entries \in Int /\ d.bytes \in Int
    BY DEF Deltas
  <2>3. /\ tally'[m].entries = tally[m].entries + d.entries
        /\ tally'[m].bytes = tally[m].bytes + d.bytes
        /\ \A n \in Namespaces : n # m => tally'[n] = tally[n]
        /\ tally[m].entries \in Int /\ tally[m].bytes \in Int
    BY <1>0, <2>1, <2>2 DEF Charged, Deltas
  <2>4. /\ Total(tally', "entries") = Total(tally, "entries") + d.entries
        /\ Total(tally', "bytes") = Total(tally, "bytes") + d.bytes
        /\ Total(tally, "entries") \in Int /\ Total(tally, "bytes") \in Int
    BY <1>0, <2>1, TotalCharged
  <2>5. \A u \in Owed' : u \in Owed \/ u = t
    BY <1>0, <2>1 DEF Owed, Pending
  <2> SUFFICES ASSUME faults = 0, GrowthInv
               PROVE  /\ \A n \in Namespaces : WithinNs(n)' \/ Quiet(n)'
                      /\ WithinTotal' \/ \A n \in Namespaces : Quiet(n)'
    BY <2>1 DEF GrowthInv
  <2>6. \A n \in Namespaces : n # m => /\ WithinNs(n) => WithinNs(n)'
                                       /\ Quiet(n) => Quiet(n)'
    BY <2>1, <2>3, <2>5, <2>b DEF WithinNs, Quiet
  <2>7. CASE d.entries > 0 \/ d.bytes > 0
    <3>1. WithinNs(m)' /\ WithinTotal'
      BY <2>1, <2>7 DEF Admits, WithinNs, WithinTotal, Total
    <3> QED  BY <2>6, <3>1 DEF GrowthInv
  <2>8. CASE ~(d.entries > 0 \/ d.bytes > 0)
    <3>1. d.entries <= 0 /\ d.bytes <= 0
      BY <2>2, <2>8
    <3>2. /\ tally'[m].entries <= tally[m].entries /\ tally'[m].bytes <= tally[m].bytes
          /\ tally'[m].entries \in Int /\ tally'[m].bytes \in Int
      BY <2>2, <2>3, <3>1
    <3>3. /\ Total(tally', "entries") <= Total(tally, "entries")
          /\ Total(tally', "bytes") <= Total(tally, "bytes")
          /\ Total(tally', "entries") \in Int /\ Total(tally', "bytes") \in Int
      BY <2>2, <2>4, <3>1
    <3>4. {MaxNsEntries, MaxNsBytes, MaxTotalEntries, MaxTotalBytes} \subseteq Nat
      BY BoundsAssumption
    <3>5. WithinNs(m) => WithinNs(m)'
      BY <2>2, <2>3, <3>2, <3>4 DEF WithinNs
    <3>6. WithinTotal => WithinTotal'
      <4>1. ASSUME NEW x \in Int, NEW y \in Int, NEW z \in Nat, x <= y, y <= z PROVE x <= z
        BY <4>1
      <4> QED  BY <2>4, <3>3, <3>4, <4>1 DEF WithinTotal
    <3>7. Quiet(m) => Quiet(m)'
      BY <2>1, <2>5, <2>b, <3>1 DEF Quiet
    <3> QED  BY <2>6, <3>5, <3>6, <3>7 DEF GrowthInv
  <2> QED  BY <2>7, <2>8
<1>4. ASSUME NEW t \in Callers, ApplyInMemory(t) PROVE GrowthInv'
  <2>1. /\ at[t] = "apply" /\ at' = [at EXCEPT ![t] = "idle"]
        /\ op' = [op EXCEPT ![t] = None] /\ delta' = [delta EXCEPT ![t] = None]
        /\ db' = ApplyOp(db, op[t])
        /\ UNCHANGED <<tally, reply, faults, boot>>
    BY <1>4 DEF ApplyInMemory, Leave, combining, fixed
  <2>2. CASE faults # 0
    BY <2>1, <2>2 DEF GrowthInv
  <2>3. CASE faults = 0
    <3>1. DeltasHold
      BY <2>3 DEF WritesInv
    <3>2. t \in Owed /\ Pending(t)
      BY <2>1, <3>1 DEF Owed, Pending, DeltasHold, Waiting
    <3>3. Owed' \subseteq Owed /\ t \notin Owed'
      BY <1>0, <2>1 DEF Owed, Pending
    <3>4. \A u \in Owed' : op'[u] = op[u] /\ delta'[u] = delta[u]
      BY <1>0, <1>a, <2>1, <3>3
    <3>5. delta[t] = DeltaOf(op[t], db[op[t].key]) /\ op[t] \in Ops /\ op[t].key \in Keys
      BY <1>a, <3>1, <3>2, OpShape DEF DeltasHold
    <3>6. ASSUME NEW n \in Namespaces, Quiet(n), NEW k \in Stored(db', n) PROVE k \in boot
      <4>1. k \in Keys /\ NsOf[k] = n /\ db'[k] # None
        BY <3>6 DEF Stored
      <4>2. CASE db[k] # None
        BY <3>6, <4>1, <4>2 DEF Quiet, Stored
      <4>3. CASE db[k] = None
        <5>1. k = op[t].key /\ op[t].len # None
          BY <1>0, <2>1, <3>5, <4>1, <4>3 DEF ApplyOp
        <5>2. delta[t].entries = 1
          BY <3>5, <4>3, <5>1, NewRowGrows
        <5> QED  BY <3>2, <3>6, <4>1, <5>1, <5>2 DEF Quiet
      <4> QED  BY <4>2, <4>3
    <3> QED  BY <2>1, <3>3, <3>4, <3>6, GrowthKept
  <2> QED  BY <2>2, <2>3
<1>5. ASSUME NEW t \in Callers, Commit(t) PROVE GrowthInv'
  <2>1. /\ at[t] = "commit" /\ at' = [at EXCEPT ![t] = "drain"]
        /\ db' = ApplyBatch(db, batch)
        /\ reply' = [u \in Callers |-> IF u \in Owners(batch) THEN "ok" ELSE reply[u]]
        /\ UNCHANGED <<tally, op, delta, faults, boot>>
    BY <1>5 DEF Commit, MoveTo, Answer, fixed
  <2>2. CASE faults # 0
    BY <2>1, <2>2 DEF GrowthInv
  <2>3. CASE faults = 0
    <3>1. JobsOwned /\ DeltasHold /\ TallyOf(tally, db, Owed, op, delta)
      BY <2>3 DEF WritesInv, TallyInv
    <3>2. Owed' \subseteq Owed
      BY <1>0, <2>1, StoreFacts DEF Owed, Pending
    <3> DEFINE P == Owed
    <3>3. P \in SUBSET Callers /\ batch \in Seq(Jobs)
      BY <1>a DEF CombineInv
    <3>4. \A i \in DOMAIN batch : batch[i].owner \in P /\ batch[i].op = op[batch[i].owner]
      BY <3>1 DEF JobsOwned, OwnedJob, Owed, Pending, Waiting
    <3>5. \A i, j \in DOMAIN batch : batch[i].owner = batch[j].owner => i = j
      BY <3>1 DEF JobsOwned
    <3>6. \A u \in P : op[u] \in Ops /\ delta[u] = DeltaOf(op[u], db[op[u].key])
      BY <1>a, <3>1 DEF DeltasHold, Owed
    <3>7. \A u, v \in P : op[u].key = op[v].key => u = v
      BY <1>a, KeysApart
    <3>8. TallyOf(tally, db, P, op, delta)
      BY <3>1
    <3> HIDE DEF P
    <3>9. BatchLeaves(ApplyBatch(db, batch), db, batch, P, op, delta, tally)
      BY <1>0, <3>3, <3>4, <3>5, <3>6, <3>7, <3>8, TallyFollowsBatch
    <3>10. ASSUME NEW n \in Namespaces, Quiet(n), NEW k \in Stored(db', n) PROVE k \in boot
      <4>1. k \in Keys /\ NsOf[k] = n /\ db'[k] # None
        BY <3>10 DEF Stored
      <4>2. CASE db[k] # None
        BY <3>10, <4>1, <4>2 DEF Quiet, Stored
      <4>3. CASE db[k] = None
        <5>1. PICK u \in P : op[u].key = k /\ db'[k] = op[u].len
          BY <2>1, <3>9, <4>1, <4>3 DEF BatchLeaves
        <5>2. delta[u].entries = 1
          BY <3>6, <4>1, <4>3, <5>1, NewRowGrows
        <5> QED  BY <3>10, <4>1, <5>1, <5>2 DEF Quiet, P
      <4> QED  BY <4>2, <4>3
    <3> QED  BY <2>1, <3>2, <3>10, GrowthKept
  <2> QED  BY <2>2, <2>3
<1>6. ASSUME NEW t \in Callers, Deny(t) \/ Return(t) PROVE GrowthInv'
  <2>1. /\ at' = [at EXCEPT ![t] = "idle"] /\ op' = [op EXCEPT ![t] = None]
        /\ delta' = [delta EXCEPT ![t] = None]
        /\ UNCHANGED <<db, tally, faults, boot>>
        /\ reply' = reply \/ reply' = [reply EXCEPT ![t] = None]
    BY <1>6 DEF Deny, Return, Leave, combining, store, fixed
  <2>2. Owed' \subseteq Owed /\ t \notin Owed'
    BY <1>0, <2>1 DEF Owed, Pending
  <2>3. \A u \in Owed' : op'[u] = op[u] /\ delta'[u] = delta[u]
    BY <1>0, <1>a, <2>1, <2>2
  <2>4. \A n \in Namespaces : Quiet(n) => Stored(db', n) \subseteq boot
    BY <2>1 DEF Quiet
  <2> QED  BY <2>1, <2>2, <2>3, <2>4, GrowthKept
<1>7. ASSUME NEW t \in Callers, NEW o \in Ops, Call(t, o) PROVE GrowthInv'
  <2>1. /\ at[t] = "idle" /\ at' = [at EXCEPT ![t] = "read"] /\ op' = [op EXCEPT ![t] = o]
        /\ UNCHANGED <<delta, db, tally, reply, faults, boot>>
    BY <1>7 DEF Call, MoveTo, combining, store, fixed
  <2>2. Owed' \subseteq Owed /\ t \notin Owed'
    BY <1>0, <2>1 DEF Owed, Pending
  <2>3. \A u \in Owed' : op'[u] = op[u] /\ delta'[u] = delta[u]
    BY <1>0, <1>a, <2>1, <2>2
  <2>4. \A n \in Namespaces : Quiet(n) => Stored(db', n) \subseteq boot
    BY <2>1 DEF Quiet
  <2> QED  BY <2>1, <2>2, <2>3, <2>4, GrowthKept
<1>8. ASSUME NEW t \in Callers, Read(t) PROVE GrowthInv'
  <2>1. /\ at[t] = "read" /\ at' = [at EXCEPT ![t] = "charge"]
        /\ delta' = [delta EXCEPT ![t] = DeltaOf(op[t], db[op[t].key])]
        /\ UNCHANGED <<op, db, tally, reply, faults, boot>>
    BY <1>8 DEF Read, Reads, MoveTo, combining, store, fixed
  <2>2. Owed' \subseteq Owed /\ t \notin Owed'
    BY <1>0, <2>1 DEF Owed, Pending
  <2>3. \A u \in Owed' : op'[u] = op[u] /\ delta'[u] = delta[u]
    BY <1>0, <1>a, <2>1, <2>2
  <2>4. \A n \in Namespaces : Quiet(n) => Stored(db', n) \subseteq boot
    BY <2>1 DEF Quiet
  <2> QED  BY <2>1, <2>2, <2>3, <2>4, GrowthKept
<1>9. ASSUME NEW t \in Callers,
              \/ Submit(t) \/ PollEmpty(t) \/ Elect(t) \/ Park(t) \/ ParkExpires(t)
              \/ Drain(t) \/ DrainEnds(t) \/ Unlock(t)
       PROVE  GrowthInv'
  <2>1. PICK l \in Waiting : /\ at' = [at EXCEPT ![t] = l] /\ at[t] \in {"apply"} \cup Waiting
                             /\ UNCHANGED <<op, delta, db, tally, reply, faults, boot>>
    BY <1>9 DEF Submit, PollEmpty, Elect, Park, ParkExpires, Drain, DrainEnds, Unlock, MoveTo,
                combining, store, fixed, Waiting
  <2>2. Owed' \subseteq Owed
    BY <1>0, <2>1 DEF Owed, Pending, Waiting
  <2>3. \A n \in Namespaces : Quiet(n) => Stored(db', n) \subseteq boot
    BY <2>1 DEF Quiet
  <2> QED  BY <2>1, <2>2, <2>3, GrowthKept
<1> QED  BY <1>1, <1>2, <1>3, <1>4, <1>5, <1>6, <1>7, <1>8, <1>9 DEF StoreNext, StoreStep

(* With nothing being released, the rows are at most what the tally says.  *)
LEMMA CapsFollow ==
  ASSUME CombineInv, QuotaShape, TallyInv, GrowthInv
  PROVE  CapsHold
<1> SUFFICES ASSUME faults = 0, ~(\E t \in Callers : Releasing(t))
             PROVE  /\ \A n \in Namespaces :
                         \/ /\ Cardinality(Stored(db, n)) <= MaxNsEntries
                            /\ Bytes(db, Stored(db, n)) <= MaxNsBytes
                         \/ Stored(db, n) \subseteq boot
                    /\ \/ /\ Total(Restore(db), "entries") <= MaxTotalEntries
                          /\ Total(Restore(db), "bytes") <= MaxTotalBytes
                       \/ {k \in Keys : db[k] # None} \subseteq boot
  BY DEF CapsHold
<1> DEFINE P == Owed
           e(n) == Cardinality(Stored(db, n))
           b(n) == Bytes(db, Stored(db, n))
<1>1. P \in SUBSET Callers /\ \A t \in P : delta[t] \in Deltas
  BY DEF Owed, Pending, QuotaShape
<1>2. \A t \in P : /\ Entries(delta)[t] \in Int /\ Entries(delta)[t] >= 0
                   /\ Lengths(delta)[t] \in Int /\ Lengths(delta)[t] >= 0
  <2>1. \A t \in P : ~(delta[t].entries < 0) /\ ~(delta[t].bytes < 0)
    BY DEF Releasing, Owed
  <2> QED  BY <1>1, <2>1 DEF Entries, Lengths, Deltas
<1>3. TallyOf(tally, db, P, op, delta)
  BY DEF TallyInv
<1>4. db \in [Keys -> Row] /\ tally \in [Namespaces -> Deltas]
  BY DEF QuotaShape
<1> HIDE DEF P
<1>5. ASSUME NEW n \in Namespaces
      PROVE  /\ e(n) \in Nat /\ b(n) \in Nat
             /\ e(n) <= tally[n].entries /\ b(n) <= tally[n].bytes
             /\ tally[n].entries \in Int /\ tally[n].bytes \in Int
             /\ Restore(db)[n].entries = e(n) /\ Restore(db)[n].bytes = b(n)
  <2>1. Restore(db) \in [Namespaces -> Deltas] /\ TallyOf(Restore(db), db, {}, op, delta)
    BY <1>4, TallyAtRest
  <2>2. Restore(db)[n].entries = e(n) /\ Restore(db)[n].bytes = b(n)
    BY DEF Restore
  <2> DEFINE x == Owing(P, op, Entries(delta), n)
             y == Owing(P, op, Lengths(delta), n)
  <2>3. x \in Int /\ x >= 0 /\ y \in Int /\ y >= 0
    BY <1>1, <1>2, OwingType
  <2>4. tally[n].entries = e(n) + x /\ tally[n].bytes = b(n) + y
    BY <1>3 DEF TallyOf
  <2>5. e(n) \in Nat /\ b(n) \in Nat
    <3>1. /\ Stored(db, n) \in SUBSET Keys /\ \A k \in Stored(db, n) : db[k] # None
      BY DEF Stored
    <3>2. IsFiniteSet(Stored(db, n))
      BY <3>1, StoreFacts, FS_Subset
    <3> DEFINE w == [k \in Stored(db, n) |-> KeyLen[k] + db[k]]
    <3>3. \A k \in Stored(db, n) : w[k] = KeyLen[k] + db[k]
      OBVIOUS
    <3> HIDE DEF w
    <3>4. Bytes(db, Stored(db, n)) \in Nat
      BY <1>4, <3>1, <3>3, BytesIsSum
    <3> QED  BY <3>2, <3>4, FS_CardinalityType
  <2> HIDE DEF x, y, e, b
  <2> QED  BY <2>2, <2>3, <2>4, <2>5
<1>6. {MaxNsEntries, MaxNsBytes, MaxTotalEntries, MaxTotalBytes} \subseteq Nat
  BY BoundsAssumption
<1>7. ASSUME NEW x \in Int, NEW y \in Int, NEW z \in Nat, x <= y, y <= z PROVE x <= z
  BY <1>7
<1>8. ASSUME NEW n \in Namespaces, ~(Stored(db, n) \subseteq boot)
      PROVE  e(n) <= MaxNsEntries /\ b(n) <= MaxNsBytes
  <2>1. tally[n].entries <= MaxNsEntries /\ tally[n].bytes <= MaxNsBytes
    BY <1>8 DEF GrowthInv, Quiet, WithinNs
  <2> HIDE DEF e, b
  <2> QED  BY <1>5, <1>6, <1>7, <2>1
<1>9. ASSUME ~({k \in Keys : db[k] # None} \subseteq boot)
      PROVE  /\ Total(Restore(db), "entries") <= MaxTotalEntries
             /\ Total(Restore(db), "bytes") <= MaxTotalBytes
  <2>1. PICK k \in Keys : db[k] # None /\ k \notin boot
    BY <1>9
  <2>2. NsOf[k] \in Namespaces /\ ~Quiet(NsOf[k])
    BY <2>1, StoreFacts DEF Quiet, Stored
  <2>3. WithinTotal
    BY <2>2 DEF GrowthInv
  <2> DEFINE fe == [n \in Namespaces |-> Restore(db)[n].entries]
             fb == [n \in Namespaces |-> Restore(db)[n].bytes]
             ge == [n \in Namespaces |-> tally[n].entries]
             gb == [n \in Namespaces |-> tally[n].bytes]
  <2>4. Restore(db) \in [Namespaces -> Deltas]
    BY <1>4, TallyAtRest
  <2>5. /\ Total(Restore(db), "entries") = SumFunctionOnSet(fe, Namespaces)
        /\ Total(Restore(db), "bytes") = SumFunctionOnSet(fb, Namespaces)
    BY <2>4, TotalsAre
  <2>6. /\ Total(tally, "entries") = SumFunctionOnSet(ge, Namespaces)
        /\ Total(tally, "bytes") = SumFunctionOnSet(gb, Namespaces)
    BY <1>4, TotalsAre
  <2>7. /\ \A n \in Namespaces : fe[n] \in Int /\ ge[n] \in Int /\ fe[n] <= ge[n]
        /\ \A n \in Namespaces : fb[n] \in Int /\ gb[n] \in Int /\ fb[n] <= gb[n]
    <3> HIDE DEF e, b
    <3> QED  BY <1>5
  <2>8. IsFiniteSet(Namespaces)
    BY StoreFacts
  <2> HIDE DEF fe, fb, ge, gb
  <2>9. /\ SumFunctionOnSet(fe, Namespaces) <= SumFunctionOnSet(ge, Namespaces)
        /\ SumFunctionOnSet(fe, Namespaces) \in Int /\ SumFunctionOnSet(ge, Namespaces) \in Int
    BY <2>7, <2>8, SumMonotone, SumType
  <2>10. /\ SumFunctionOnSet(fb, Namespaces) <= SumFunctionOnSet(gb, Namespaces)
         /\ SumFunctionOnSet(fb, Namespaces) \in Int /\ SumFunctionOnSet(gb, Namespaces) \in Int
    BY <2>7, <2>8, SumMonotone, SumType
  <2> QED  BY <1>6, <1>7, <2>3, <2>5, <2>6, <2>9, <2>10 DEF WithinTotal
<1> QED  BY <1>8, <1>9

(* The tally as TallyExact writes it.                                      *)
LEMMA ExactFollows ==
  ASSUME QuotaShape, TallyInv
  PROVE  TallyExact
<1> SUFFICES ASSUME faults = 0, NEW n \in Namespaces
             PROVE  LET calls == {t \in Callers : Pending(t) /\ NsOf[op[t].key] = n}
                    IN  /\ tally[n].entries = Cardinality(Stored(db, n))
                                              + SumFunction([t \in calls |-> delta[t].entries])
                        /\ tally[n].bytes = Bytes(db, Stored(db, n))
                                            + SumFunction([t \in calls |-> delta[t].bytes])
  BY DEF TallyExact
<1> DEFINE calls == {t \in Callers : Pending(t) /\ NsOf[op[t].key] = n}
           own == {t \in Owed : NsOf[op[t].key] = n}
<1>1. calls = own
  BY DEF Owed
<1>2. /\ [t \in calls |-> delta[t].entries] = [t \in own |-> Entries(delta)[t]]
      /\ [t \in calls |-> delta[t].bytes] = [t \in own |-> Lengths(delta)[t]]
  BY <1>1 DEF Entries, Lengths
<1>3. /\ Owing(Owed, op, Entries(delta), n) = SumFunction([t \in calls |-> delta[t].entries])
      /\ Owing(Owed, op, Lengths(delta), n) = SumFunction([t \in calls |-> delta[t].bytes])
  BY <1>2 DEF Owing
<1> QED  BY <1>3 DEF TallyInv, TallyOf

(* Two instances of a filter that race on a key neither charge it twice    *)
(* nor release it twice, a batch of writes of many callers is charged as   *)
(* its writes one by one, and what growth the quota admits stays within    *)
(* the caps of the filter and of the host (quota.rs, charge_and_apply and  *)
(* the caps; backend.rs, apply_batch): for any callers, keys and caps.     *)
THEOREM QuotaIsKept == HostSpec => []QuotaHolds
<1> DEFINE Inv == CombineInv /\ QuotaShape /\ WritesInv /\ TallyInv /\ GrowthInv
           all == <<part, vars, storeVars, callVars>>
<1>1. HostInit => Inv
  BY InitStore, InitQuota, InitGrowth DEF HostInit
<1>2. Inv /\ [HostNext]_all => Inv'
  <2> SUFFICES ASSUME Inv, [HostNext]_all PROVE Inv'
    OBVIOUS
  <2>1. CASE UNCHANGED storeVars
    <3>1. CombineInv'
      BY <2>1 DEF storeVars, CombineInv
    <3>2. QuotaShape'
      BY <2>1 DEF storeVars, QuotaShape
    <3>3. WritesInv'
      BY <2>1 DEF storeVars, WritesInv, JobsOwned, OwnedJob, DeltasHold, Pending
    <3>4. Owed' = Owed
      BY <2>1 DEF storeVars, Owed, Pending
    <3>5. TallyInv'
      BY <2>1, <3>4 DEF storeVars, TallyInv
    <3>6. GrowthInv'
      BY <2>1, <3>4 DEF storeVars, GrowthInv, WithinNs, WithinTotal, Quiet
    <3> QED  BY <3>1, <3>2, <3>3, <3>5, <3>6
  <2>2. CASE StoreNext
    BY <2>2, CombineStep, ShapeStep, WritesStep, TallyStep, GrowthStep
  <2> QED  BY <2>1, <2>2 DEF HostNext
<1>3. Inv => QuotaHolds
  BY CapsFollow, ExactFollows DEF QuotaHolds
<1> QED  BY <1>1, <1>2, <1>3, PTL DEF HostSpec

-----------------------------------------------------------------------------
(* What guests say.                                                        *)
Sources == Kinds \cup {"stdio cut", "log", "logs cut"}

Lines == [from : Sources, bytes : Seq(Int)]

Guests == [uses : Nat, logs : Seq(Lines), count : Nat, partial : [Kinds -> Seq(Int)],
           pending : Seq(Lines), left : Nat, warned : BOOLEAN]

LEMMA LinesOfAppend ==
  ASSUME NEW s \in Seq(Lines), NEW e \in Lines, NEW K
  PROVE  LinesOf(Append(s, e), K) =
           IF e.from \in K THEN LinesOf(s, K) \cup {Len(s) + 1} ELSE LinesOf(s, K)
<1> DEFINE a == Append(s, e)
<1>1. /\ a \in Seq(Lines) /\ Len(a) = Len(s) + 1 /\ a[Len(s) + 1] = e
      /\ \A i \in 1..Len(s) : a[i] = s[i]
  BY AppendProperties
<1>2. DOMAIN a = 1..(Len(s) + 1) /\ DOMAIN s = 1..Len(s) /\ Len(s) \in Nat
  BY <1>1
<1> HIDE DEF a
<1>3. LinesOf(a, K) = {i \in DOMAIN a : a[i].from \in K}
  BY DEF LinesOf
<1>4. LinesOf(s, K) = {i \in DOMAIN s : s[i].from \in K}
  BY DEF LinesOf
<1>5. 1..(Len(s) + 1) = 1..Len(s) \cup {Len(s) + 1}
  BY <1>2
<1> QED  BY <1>1, <1>2, <1>3, <1>4, <1>5 DEF a

LEMMA LinesOfType ==
  ASSUME NEW s \in Seq(Lines), NEW K
  PROVE  /\ LinesOf(s, K) \subseteq 1..Len(s) /\ IsFiniteSet(LinesOf(s, K))
         /\ Cardinality(LinesOf(s, K)) \in Nat
         /\ Cardinality(LinesOf(s, K)) <= Len(s)
<1>1. LinesOf(s, K) \subseteq 1..Len(s) /\ Len(s) \in Nat
  BY DEF LinesOf
<1> DEFINE n == Len(s)
<1>2. IsFiniteSet(1..n) /\ Cardinality(1..n) = n
  <2>1. n \in Int /\ n >= 0 /\ 1 \in Int
    BY <1>1
  <2> HIDE DEF n
  <2> QED  BY <2>1, FS_Interval
<1> QED  BY <1>1, <1>2, FS_Subset, FS_CardinalityType

Size(s) == [i \in DOMAIN s |-> Len(s[i].bytes)]

LEMMA SizeType ==
  ASSUME NEW s \in Seq(Lines)
  PROVE  \A i \in 1..Len(s) : Size(s)[i] = Len(s[i].bytes) /\ Size(s)[i] \in Nat
<1> SUFFICES ASSUME NEW i \in 1..Len(s) PROVE Size(s)[i] = Len(s[i].bytes) /\ Size(s)[i] \in Nat
  OBVIOUS
<1>1. s[i] \in Lines /\ i \in DOMAIN s
  OBVIOUS
<1>2. s[i].bytes \in Seq(Int)
  BY <1>1 DEF Lines
<1> QED  BY <1>1, <1>2 DEF Size

LEMMA BytesOfType ==
  ASSUME NEW s \in Seq(Lines), NEW K
  PROVE  BytesOf(s, K) \in Nat
<1> DEFINE S == LinesOf(s, K)
<1>1. IsFiniteSet(S) /\ \A i \in S : Size(s)[i] \in Int /\ Size(s)[i] >= 0
  BY LinesOfType, SizeType
<1>2. BytesOf(s, K) = SumFunctionOnSet(Size(s), S)
  BY DEF BytesOf, Size
<1> HIDE DEF S
<1> QED  BY <1>1, <1>2, SumNotNegative

LEMMA BytesOfAppend ==
  ASSUME NEW s \in Seq(Lines), NEW e \in Lines, NEW K
  PROVE  BytesOf(Append(s, e), K) =
           IF e.from \in K THEN BytesOf(s, K) + Len(e.bytes) ELSE BytesOf(s, K)
<1> DEFINE a == Append(s, e)
           S == LinesOf(s, K)
           T == LinesOf(a, K)
           f == Size(a)
           g == Size(s)
           n == Len(s) + 1
<1>1. /\ a \in Seq(Lines) /\ Len(a) = n /\ a[n] = e /\ n \in Nat /\ n = Len(s) + 1
      /\ \A i \in 1..Len(s) : a[i] = s[i] /\ i \in 1..n
  BY AppendProperties
<1>2. T = IF e.from \in K THEN S \cup {n} ELSE S
  BY LinesOfAppend
<1>3. S \subseteq 1..Len(s) /\ IsFiniteSet(S) /\ IsFiniteSet(T) /\ n \notin S
  <2>1. S \subseteq 1..Len(s) /\ IsFiniteSet(S)
    BY LinesOfType
  <2> HIDE DEF S, n, a
  <2>2. IsFiniteSet(T)
    BY <1>1, LinesOfType
  <2> QED  BY <1>1, <2>1, <2>2
<1>4. /\ BytesOf(s, K) = SumFunctionOnSet(Size(s), S)
      /\ BytesOf(a, K) = SumFunctionOnSet(Size(a), T)
  BY DEF BytesOf, Size
<1>5. \A i \in 1..n : Size(a)[i] = Len(a[i].bytes) /\ Size(a)[i] \in Int
  <2> HIDE DEF a, n
  <2> QED  BY <1>1, SizeType
<1>6. \A i \in S : Size(s)[i] = Size(a)[i] /\ Size(a)[i] \in Int /\ Size(s)[i] \in Int
  BY <1>1, <1>3, <1>5, SizeType
<1>7. Size(a)[n] = Len(e.bytes)
  BY <1>1, <1>5
<1> HIDE DEF S, T, f, g, n, a
<1>8. SumFunctionOnSet(g, S) = SumFunctionOnSet(f, S)
  BY <1>3, <1>6, SumEqual DEF f, g
<1>9. CASE e.from \in K
  <2>1. T \ {n} = S /\ n \in T /\ \A i \in T : f[i] \in Int
    BY <1>1, <1>2, <1>3, <1>6, <1>5, <1>9 DEF f
  <2>2. SumFunctionOnSet(f, T) = f[n] + SumFunctionOnSet(f, S)
    BY <1>3, <2>1, SumRemove
  <2>3. SumFunctionOnSet(f, S) \in Int /\ f[n] \in Int
    BY <1>3, <1>6, <2>1, SumType DEF f
  <2> QED  BY <1>4, <1>7, <1>8, <1>9, <2>2, <2>3 DEF f, g, a
<1>10. CASE e.from \notin K
  BY <1>2, <1>4, <1>8, <1>10 DEF f, g, a
<1> QED  BY <1>9, <1>10

LEMMA BytesOfNone ==
  ASSUME NEW s \in Seq(Lines), NEW K, LinesOf(s, K) = {}
  PROVE  BytesOf(s, K) = 0
BY SumEmpty DEF BytesOf

(* Lines of other sources in front do not count.                           *)
LEMMA BytesOfBehind ==
  ASSUME NEW s \in Seq(Lines), NEW t \in Seq(Lines), NEW K, LinesOf(s, K) = {}
  PROVE  BytesOf(s \o t, K) = BytesOf(t, K)
<1> DEFINE P == {r \in Seq(Lines) : BytesOf(s \o r, K) = BytesOf(r, K)}
<1>1. <<>> \in P
  <2>1. s \o <<>> = s /\ <<>> \in Seq(Lines)
    BY ConcatEmptySeq
  <2>2. LinesOf(<<>>, K) = {}
    BY DEF LinesOf
  <2>3. BytesOf(s, K) = 0
    BY BytesOfNone
  <2>4. BytesOf(<<>>, K) = 0
    BY <2>2, SumEmpty DEF BytesOf
  <2>5. BytesOf(s \o <<>>, K) = BytesOf(<<>>, K)
    BY <2>1, <2>3, <2>4, Zenon
  <2> QED  BY <2>1, <2>5, Zenon
<1>2. ASSUME NEW r \in Seq(Lines), NEW e \in Lines, r \in P PROVE Append(r, e) \in P
  <2> DEFINE c == s \o r
  <2>1. c \in Seq(Lines) /\ s \o Append(r, e) = Append(c, e) /\ Append(r, e) \in Seq(Lines)
    BY ConcatProperties, AppendConcat, AppendProperties
  <2>2. BytesOf(c, K) = BytesOf(r, K)
    BY <1>2
  <2> HIDE DEF c
  <2>3. BytesOf(Append(c, e), K) =
           IF e.from \in K THEN BytesOf(c, K) + Len(e.bytes) ELSE BytesOf(c, K)
    BY <2>1, BytesOfAppend
  <2>4. BytesOf(Append(r, e), K) =
           IF e.from \in K THEN BytesOf(r, K) + Len(e.bytes) ELSE BytesOf(r, K)
    BY BytesOfAppend
  <2>5. BytesOf(s \o Append(r, e), K) = BytesOf(Append(r, e), K)
    BY <2>1, <2>2, <2>3, <2>4
  <2> QED  BY <2>1, <2>5
<1>3. Seq(Lines) \subseteq P
  <2> HIDE DEF P
  <2> QED  BY <1>1, <1>2, ListInduction
<1> QED  BY <1>3

(* The lines of a concatenation.                                           *)
LEMMA ConcatLines ==
  ASSUME NEW s \in Seq(Lines), NEW t \in Seq(Lines)
  PROVE  /\ s \o t \in Seq(Lines)
         /\ \A i \in DOMAIN (s \o t) : \/ i \in DOMAIN s /\ (s \o t)[i] = s[i]
                                       \/ \E j \in DOMAIN t : (s \o t)[i] = t[j]
         /\ \A j \in DOMAIN t : \E i \in DOMAIN (s \o t) : (s \o t)[i] = t[j]
<1> DEFINE c == s \o t
<1>1. /\ c \in Seq(Lines) /\ Len(c) = Len(s) + Len(t)
      /\ \A i \in 1..Len(c) : c[i] = IF i <= Len(s) THEN s[i] ELSE t[i - Len(s)]
  BY ConcatProperties
<1>2. DOMAIN s = 1..Len(s) /\ DOMAIN t = 1..Len(t) /\ DOMAIN c = 1..Len(c)
      /\ Len(s) \in Nat /\ Len(t) \in Nat
  BY <1>1
<1> HIDE DEF c
<1>3. ASSUME NEW i \in DOMAIN c
      PROVE  (i \in DOMAIN s /\ c[i] = s[i]) \/ \E j \in DOMAIN t : c[i] = t[j]
  <2>1. CASE i <= Len(s)
    BY <1>1, <1>2, <2>1
  <2>2. CASE ~(i <= Len(s))
    <3>1. i - Len(s) \in DOMAIN t /\ c[i] = t[i - Len(s)]
      BY <1>1, <1>2, <2>2
    <3> QED  BY <3>1
  <2> QED  BY <2>1, <2>2
<1>4. ASSUME NEW j \in DOMAIN t PROVE \E i \in DOMAIN c : c[i] = t[j]
  <2>1. /\ Len(s) + j \in DOMAIN c /\ ~(Len(s) + j <= Len(s)) /\ (Len(s) + j) - Len(s) = j
    BY <1>1, <1>2
  <2>2. c[Len(s) + j] = t[j]
    BY <1>1, <1>2, <2>1
  <2> QED  BY <2>1, <2>2
<1> QED  BY <1>1, <1>3, <1>4 DEF c

(* sanitize_log_message keeps a part, and all of a short line.             *)
LEMMA SanitizeCuts ==
  ASSUME NEW b \in Seq(Int)
  PROVE  /\ sanitize(b, MaxLine) \in Seq(Int)
         /\ ToSet(sanitize(b, MaxLine)) \subseteq ToSet(b)
         /\ Len(b) <= MaxLine => sanitize(b, MaxLine) = b
<1> DEFINE m == Min({MaxLine, Len(b)})
           c == SubSeq(b, 1, m)
<1>0. MaxLine \in Nat /\ Len(b) \in Nat
  BY OutputAssumption
<1>1. m = IF Len(b) <= MaxLine THEN Len(b) ELSE MaxLine
  <2>1. m = CHOOSE x \in {MaxLine, Len(b)} : \A y \in {MaxLine, Len(b)} : x <= y
    BY DEF Min
  <2>2. \E x \in {MaxLine, Len(b)} : \A y \in {MaxLine, Len(b)} : x <= y
    BY <1>0
  <2>3. m \in {MaxLine, Len(b)} /\ \A y \in {MaxLine, Len(b)} : m <= y
    <3> HIDE DEF m
    <3> QED  BY <2>1, <2>2
  <2> HIDE DEF m
  <2> QED  BY <2>3, <1>0
<1>2. m \in Nat /\ m <= Len(b)
  BY <1>0, <1>1
<1> HIDE DEF m
<1>3. c \in Seq(Int) /\ Len(c) = m /\ \A i \in 1..m : c[i] = b[i]
  BY <1>0, <1>2
<1>4. sanitize(b, MaxLine) = c
  BY DEF sanitize, m
<1> HIDE DEF c
<1>5. DOMAIN c = 1..m /\ DOMAIN b = 1..Len(b)
  BY <1>3, <1>2
<1>6. ToSet(c) \subseteq ToSet(b)
  BY <1>0, <1>2, <1>3, <1>5 DEF ToSet
<1>7. ASSUME Len(b) <= MaxLine PROVE c = b
  <2>1. m = Len(b)
    BY <1>1, <1>7
  <2> QED  BY <1>3, <2>1, SeqEqual
<1> QED  BY <1>3, <1>4, <1>6, <1>7

LEMMA CostOf ==
  ASSUME NEW n \in Nat
  PROVE  Max({1, n}) \in Nat /\ n <= Max({1, n})
<1> DEFINE m == Max({1, n})
<1>1. m = CHOOSE x \in {1, n} : \A y \in {1, n} : x >= y
  BY DEF Max
<1>2. \E x \in {1, n} : \A y \in {1, n} : x >= y
  OBVIOUS
<1> HIDE DEF m
<1>3. m \in {1, n} /\ \A y \in {1, n} : m >= y
  BY <1>1, <1>2
<1> QED  BY <1>3 DEF m

-----------------------------------------------------------------------------
(* What is kept of a guest that speaks under one call: its lines are its   *)
(* own and of the right source, and the two budgets are paid.              *)
Within(s, own) == \A i \in DOMAIN s : ToSet(s[i].bytes) \subseteq own

From(s, sources) == \A i \in DOMAIN s : s[i].from \in sources

Budgeted(g, own) ==
  /\ g \in Guests
  /\ Within(g.logs, own) /\ From(g.logs, {"log", "logs cut"})
  /\ Within(g.pending, own) /\ From(g.pending, Kinds \cup {"stdio cut"})
  /\ Len(g.logs) <= g.count /\ g.count <= MaxLines
  /\ BytesOf(g.pending, Kinds) + g.left <= MaxBytes
  /\ g.warned => LinesOf(g.pending, {"stdio cut"}) # {}

LEMMA GuestShape ==
  ASSUME NEW g \in Guests
  PROVE  /\ g.uses \in Nat /\ g.logs \in Seq(Lines) /\ g.count \in Nat
         /\ g.partial \in [Kinds -> Seq(Int)] /\ g.pending \in Seq(Lines)
         /\ g.left \in Nat /\ g.warned \in BOOLEAN
BY DEF Guests

LEMMA AppendWithin ==
  ASSUME NEW s \in Seq(Lines), NEW e \in Lines, NEW own, NEW sources,
         Within(s, own), ToSet(e.bytes) \subseteq own, From(s, sources), e.from \in sources
  PROVE  /\ Append(s, e) \in Seq(Lines) /\ Len(Append(s, e)) = Len(s) + 1
         /\ Within(Append(s, e), own) /\ From(Append(s, e), sources)
<1> DEFINE a == Append(s, e)
<1>1. /\ a \in Seq(Lines) /\ Len(a) = Len(s) + 1 /\ a[Len(s) + 1] = e
      /\ \A i \in 1..Len(s) : a[i] = s[i]
  BY AppendProperties
<1>2. DOMAIN a = 1..(Len(s) + 1) /\ DOMAIN s = 1..Len(s) /\ Len(s) \in Nat
  BY <1>1
<1> HIDE DEF a
<1>3. \A i \in DOMAIN a : a[i] = e \/ (i \in DOMAIN s /\ a[i] = s[i])
  <2> DEFINE n == Len(s)
  <2>1. n \in Nat /\ \A i \in 1..(n + 1) : i = n + 1 \/ i \in 1..n
    BY <1>2
  <2> HIDE DEF n
  <2> SUFFICES ASSUME NEW i \in DOMAIN a PROVE a[i] = e \/ (i \in DOMAIN s /\ a[i] = s[i])
    OBVIOUS
  <2>2. i = n + 1 \/ i \in 1..n
    BY <1>2, <2>1 DEF n
  <2> QED  BY <1>1, <1>2, <2>2 DEF n
<1>4. Within(a, own)
  BY <1>3 DEF Within
<1>5. From(a, sources)
  BY <1>3 DEF From
<1> QED  BY <1>1, <1>4, <1>5 DEF a

(* The line is paid for, or marks the cut.                                 *)
PaidFor(g, own, e, l, w) ==
  /\ e \in Lines /\ ToSet(e.bytes) \subseteq own /\ e.from \in Kinds \cup {"stdio cut"}
  /\ l \in Nat /\ w \in BOOLEAN
  /\ e.from \in Kinds => Len(e.bytes) + l <= g.left
  /\ e.from \notin Kinds => l <= g.left
  /\ w => g.warned \/ e.from = "stdio cut"

Extended(g, e, l, w) == [g EXCEPT !.pending = Append(g.pending, e), !.left = l, !.warned = w]

(* One more line of the bridge.                                            *)
LEMMA PendingLine ==
  ASSUME NEW g, NEW own, Budgeted(g, own), NEW e, NEW l, NEW w, PaidFor(g, own, e, l, w)
  PROVE  /\ Budgeted(Extended(g, e, l, w), own) /\ Extended(g, e, l, w).partial = g.partial
         /\ Extended(g, e, l, w).pending = Append(g.pending, e)
         /\ Extended(g, e, l, w).warned = w
<1> DEFINE a == Append(g.pending, e)
           h == Extended(g, e, l, w)
<1>0. e \in Lines /\ ToSet(e.bytes) \subseteq own /\ l \in Nat /\ w \in BOOLEAN
  BY DEF PaidFor
<1>1. /\ g \in Guests /\ Within(g.logs, own) /\ From(g.logs, {"log", "logs cut"})
      /\ Within(g.pending, own) /\ From(g.pending, Kinds \cup {"stdio cut"})
      /\ Len(g.logs) <= g.count /\ g.count <= MaxLines
      /\ BytesOf(g.pending, Kinds) + g.left <= MaxBytes
      /\ g.warned => LinesOf(g.pending, {"stdio cut"}) # {}
  BY Zenon DEF Budgeted
<1>2. /\ g.logs \in Seq(Lines) /\ g.count \in Nat /\ g.pending \in Seq(Lines)
      /\ g.left \in Nat /\ g.warned \in BOOLEAN
  BY <1>1, GuestShape
<1>3. /\ a \in Seq(Lines) /\ Within(a, own) /\ From(a, Kinds \cup {"stdio cut"})
  <2>1. e.from \in Kinds \cup {"stdio cut"}
    BY DEF PaidFor
  <2> QED  BY <1>0, <1>1, <1>2, <2>1, AppendWithin
<1>4. BytesOf(a, Kinds) = IF e.from \in Kinds THEN BytesOf(g.pending, Kinds) + Len(e.bytes)
                          ELSE BytesOf(g.pending, Kinds)
  BY <1>0, <1>2, BytesOfAppend
<1>5. BytesOf(g.pending, Kinds) \in Nat /\ MaxBytes \in Nat /\ Len(e.bytes) \in Nat
  <2>1. e.bytes \in Seq(Int)
    BY <1>0 DEF Lines
  <2>2. BytesOf(g.pending, Kinds) \in Nat
    BY <1>2, BytesOfType, Zenon
  <2> QED  BY <2>1, <2>2, OutputAssumption
<1>6. BytesOf(a, Kinds) + l <= MaxBytes
  <2> DEFINE x == BytesOf(a, Kinds)
             y == BytesOf(g.pending, Kinds)
             z == Len(e.bytes)
             v == g.left
  <2>1. y \in Nat /\ z \in Nat /\ v \in Nat /\ MaxBytes \in Nat /\ y + v <= MaxBytes
    BY <1>1, <1>2, <1>5
  <2>2. \/ x = y + z /\ z + l <= v
        \/ x = y /\ l <= v
    BY <1>4 DEF PaidFor
  <2> HIDE DEF x, y, z, v
  <2> QED  BY <1>0, <2>1, <2>2 DEF x
<1>7. w => LinesOf(a, {"stdio cut"}) # {}
  <2>1. LinesOf(a, {"stdio cut"}) = IF e.from \in {"stdio cut"}
          THEN LinesOf(g.pending, {"stdio cut"}) \cup {Len(g.pending) + 1}
          ELSE LinesOf(g.pending, {"stdio cut"})
    <3> DEFINE p == g.pending
               K == {"stdio cut"}
    <3>1. p \in Seq(Lines)
      BY <1>2
    <3> HIDE DEF p, K
    <3>2. LinesOf(Append(p, e), K) = IF e.from \in K THEN LinesOf(p, K) \cup {Len(p) + 1}
                                     ELSE LinesOf(p, K)
      BY <1>0, <3>1, LinesOfAppend
    <3> QED  BY <3>2 DEF p, K
  <2> QED  BY <1>1, <2>1 DEF PaidFor
<1> HIDE DEF a, h
<1>8. h = [g EXCEPT !.pending = a, !.left = l, !.warned = w]
  BY DEF a, h, Extended
<1>9. h \in Guests /\ h.logs = g.logs /\ h.count = g.count /\ h.partial = g.partial
      /\ h.pending = a /\ h.left = l /\ h.warned = w
  BY <1>0, <1>1, <1>3, <1>8 DEF Guests
<1>10. Budgeted(h, own)
  BY <1>1, <1>3, <1>6, <1>7, <1>9, Zenon DEF Budgeted
<1> QED  BY <1>9, <1>10 DEF a, h

(* What admit_line makes of the bytes heard per stream.                    *)
Adds(old, new, kind, n) ==
  \A k \in Kinds : BytesOf(new, {k}) = BytesOf(old, {k}) + IF k = kind THEN n ELSE 0

LEMMA AdmitLine ==
  ASSUME NEW g, NEW own, Budgeted(g, own), NEW kind \in Kinds, NEW raw \in Seq(Int),
         ToSet(raw) \subseteq own
  PROVE  /\ Budgeted(admit_line(g, kind, raw), own)
         /\ admit_line(g, kind, raw).partial = g.partial
         /\ ~admit_line(g, kind, raw).warned => ~g.warned
         /\ ~admit_line(g, kind, raw).warned /\ Len(raw) <= MaxLine =>
              Adds(g.pending, admit_line(g, kind, raw).pending, kind, Len(raw))
<1> DEFINE text == sanitize(raw, MaxLine)
           cost == Max({1, Len(text)})
           h == admit_line(g, kind, raw)
<1>1. g \in Guests /\ g.pending \in Seq(Lines) /\ g.left \in Nat /\ g.warned \in BOOLEAN
  BY GuestShape DEF Budgeted
<1>2. /\ text \in Seq(Int) /\ ToSet(text) \subseteq own /\ Len(text) \in Nat
      /\ Len(raw) <= MaxLine => text = raw
  BY SanitizeCuts
<1>3. cost \in Nat /\ Len(text) <= cost
  BY <1>2, CostOf
<1>4. /\ g.warned => h = g
      /\ ~g.warned /\ cost > g.left =>
           h = [g EXCEPT !.warned = TRUE, !.pending = Append(@, Line("stdio cut", <<>>))]
      /\ ~g.warned /\ ~(cost > g.left) =>
           h = [g EXCEPT !.left = @ - cost, !.pending = Append(@, Line(kind, text))]
  BY DEF admit_line
<1> HIDE DEF text, cost, h
<1>5. CASE g.warned
  <2>1. Budgeted(h, own) /\ h.partial = g.partial /\ h.warned
    BY <1>4, <1>5
  <2> QED  BY <2>1 DEF h
<1>6. CASE ~g.warned /\ cost > g.left
  <2> DEFINE e == Line("stdio cut", <<>>)
  <2>1. e \in Lines /\ ToSet(e.bytes) \subseteq own /\ e.from = "stdio cut"
    <3>1. e.bytes = <<>> /\ e.from = "stdio cut" /\ <<>> \in Seq(Int) /\ DOMAIN <<>> = {}
      BY DEF Line
    <3>2. e \in Lines
      BY <3>1 DEF Line, Lines, Sources
    <3>3. ToSet(<<>>) = {}
      BY <3>1 DEF ToSet
    <3> QED  BY <3>1, <3>2, <3>3
  <2>4. PaidFor(g, own, e, g.left, TRUE)
    <3>1. e.from \notin Kinds
      BY <2>1 DEF Kinds
    <3>2. g.left <= g.left
      BY <1>1
    <3> HIDE DEF e
    <3> QED  BY <1>1, <2>1, <3>1, <3>2, Zenon DEF PaidFor
  <2>2. h = Extended(g, e, g.left, TRUE)
    <3> HIDE DEF e
    <3>1. h = [g EXCEPT !.warned = TRUE, !.pending = Append(g.pending, e)]
      BY <1>4, <1>6 DEF e
    <3> QED  BY <3>1, <1>1 DEF Guests, Extended
  <2> HIDE DEF e
  <2>3. Budgeted(h, own) /\ h.partial = g.partial /\ h.warned
    <3> DEFINE w == TRUE
    <3>1. h = Extended(g, e, g.left, w) /\ PaidFor(g, own, e, g.left, w)
      BY <2>2, <2>4
    <3> HIDE DEF w
    <3>2. Budgeted(h, own) /\ h.partial = g.partial /\ h.warned = w
      BY <3>1, PendingLine
    <3> QED  BY <3>2 DEF w
  <2> QED  BY <2>3 DEF h
<1>7. CASE ~g.warned /\ ~(cost > g.left)
  <2> DEFINE e == Line(kind, text)
             l == g.left - cost
  <2>1. e \in Lines /\ e.bytes = text /\ e.from = kind
    <3>1. kind \in Sources
      BY DEF Sources
    <3> QED  BY <1>2, <3>1 DEF Line, Lines
  <2>2. l \in Nat /\ Len(text) + l <= g.left
    BY <1>1, <1>2, <1>3, <1>7
  <2>3. h = Extended(g, e, l, FALSE)
    <3> DEFINE z == Append(g.pending, e)
    <3>1. h = [g EXCEPT !.left = l, !.pending = z]
      BY <1>4, <1>7
    <3> HIDE DEF e, l, z
    <3>2. h = [g EXCEPT !.pending = z, !.left = l, !.warned = FALSE]
      BY <3>1, <1>1, <1>7 DEF Guests
    <3> QED  BY <3>2 DEF z, Extended
  <2> HIDE DEF e, l
  <2>4. /\ Budgeted(h, own) /\ h.partial = g.partial
        /\ h.pending = Append(g.pending, e) /\ h.warned = FALSE
    <3>1. PaidFor(g, own, e, l, FALSE)
      BY <1>2, <2>1, <2>2 DEF PaidFor
    <3> DEFINE w == FALSE
    <3>2. h = Extended(g, e, l, w) /\ PaidFor(g, own, e, l, w)
      BY <2>3, <3>1
    <3> HIDE DEF w
    <3>3. /\ Budgeted(h, own) /\ h.partial = g.partial
          /\ h.pending = Append(g.pending, e) /\ h.warned = w
      BY <3>2, PendingLine
    <3> QED  BY <3>3 DEF w
  <2>5. ASSUME Len(raw) <= MaxLine PROVE Adds(g.pending, h.pending, kind, Len(raw))
    <3> SUFFICES ASSUME NEW k \in Kinds
                 PROVE  BytesOf(h.pending, {k})
                          = BytesOf(g.pending, {k}) + IF k = kind THEN Len(raw) ELSE 0
      BY DEF Adds
    <3>1. BytesOf(h.pending, {k}) = IF e.from \in {k} THEN BytesOf(g.pending, {k}) + Len(e.bytes)
                                    ELSE BytesOf(g.pending, {k})
      BY <1>1, <2>1, <2>4, BytesOfAppend
    <3>2. BytesOf(g.pending, {k}) \in Nat /\ e.bytes = raw
      BY <1>1, <1>2, <2>1, <2>5, BytesOfType
    <3> QED  BY <2>1, <3>1, <3>2
  <2> QED  BY <1>7, <2>4, <2>5 DEF h
<1> QED  BY <1>5, <1>6, <1>7

-----------------------------------------------------------------------------
(* StdioBridgeInner::write, byte by byte.                                  *)
Splits(g, own) ==
  {acc \in [g : Guests, cur : Seq(Int)] :
     Budgeted(acc.g, own) /\ acc.g.partial = g.partial /\ ToSet(acc.cur) \subseteq own}

LEMMA AppendToSet ==
  ASSUME NEW U, NEW s \in Seq(U), NEW e \in U
  PROVE  ToSet(Append(s, e)) = ToSet(s) \cup {e}
<1> DEFINE a == Append(s, e)
           n == Len(s)
<1>1. /\ a \in Seq(U) /\ Len(a) = n + 1 /\ a[n + 1] = e /\ n \in Nat
      /\ \A i \in 1..n : a[i] = s[i]
  BY AppendProperties
<1>2. DOMAIN a = 1..(n + 1) /\ DOMAIN s = 1..n
  BY <1>1
<1> HIDE DEF a, n
<1>3. 1..(n + 1) = 1..n \cup {n + 1}
  BY <1>1
<1>4. ToSet(a) = ToSet(s) \cup {e}
  BY <1>1, <1>2, <1>3 DEF ToSet
<1> QED  BY <1>4 DEF a

LEMMA ScanStays ==
  ASSUME NEW g, NEW own \in SUBSET Int, NEW kind \in Kinds, NEW acc \in Splits(g, own),
         NEW b \in own \cup {NL}
  PROVE  Scan(kind, acc, b) \in Splits(g, own)
<1>1. /\ acc \in [g : Guests, cur : Seq(Int)] /\ Budgeted(acc.g, own) /\ acc.g.partial = g.partial
      /\ ToSet(acc.cur) \subseteq own /\ acc.cur \in Seq(Int)
  BY DEF Splits
<1>2. CASE b = NL
  <2> DEFINE h == admit_line(acc.g, kind, acc.cur)
  <2>1. Budgeted(h, own) /\ h.partial = g.partial
    BY <1>1, AdmitLine
  <2>2. h \in Guests
    BY <2>1 DEF Budgeted
  <2>3. Scan(kind, acc, b) = [g |-> h, cur |-> <<>>]
    BY <1>2 DEF Scan
  <2>4. ToSet(<<>>) = {} /\ <<>> \in Seq(Int)
    BY DEF ToSet
  <2> HIDE DEF h
  <2> QED  BY <2>1, <2>2, <2>3, <2>4 DEF Splits
<1>3. CASE b # NL
  <2> DEFINE c == Append(acc.cur, b)
  <2>1. b \in Int /\ b \in own
    BY <1>3
  <2>2. c \in Seq(Int) /\ ToSet(c) = ToSet(acc.cur) \cup {b}
    BY <1>1, <2>1, AppendToSet, AppendProperties
  <2>3. Scan(kind, acc, b) = [acc EXCEPT !.cur = c]
    BY <1>3 DEF Scan
  <2> HIDE DEF c
  <2>4. [acc EXCEPT !.cur = c] \in [g : Guests, cur : Seq(Int)]
        /\ [acc EXCEPT !.cur = c].g = acc.g /\ [acc EXCEPT !.cur = c].cur = c
    BY <1>1, <2>2
  <2> QED  BY <1>1, <2>1, <2>2, <2>3, <2>4 DEF Splits
<1> QED  BY <1>2, <1>3

LEMMA SplitPath ==
  ASSUME NEW g, NEW own \in SUBSET Int, NEW kind \in Kinds, Budgeted(g, own),
         NEW s \in Seq(Int), ToSet(s) \subseteq own \cup {NL}
  PROVE  \E p \in [0..Len(s) -> Splits(g, own)] :
           /\ p[0] = [g |-> g, cur |-> <<>>] /\ Split(g, kind, s) = p[Len(s)]
           /\ \A j \in 1..Len(s) : p[j] = Scan(kind, p[j - 1], s[j])
<1> DEFINE n == Len(s)
           D == Splits(g, own)
           base == [g |-> g, cur |-> <<>>]
           o == [q \in D \X (1..n) |-> Scan(kind, q[1], s[q[2]])]
           Solves(h) == h = [t \in SUBSET DOMAIN s |->
                              IF t = {} THEN base ELSE Scan(kind, h[t \ {Max(t)}], s[Max(t)])]
<1>1. n \in Nat /\ DOMAIN s = 1..n /\ \A i \in 1..n : s[i] \in own \cup {NL}
  BY DEF ToSet
<1>2. \A x \in D : \A i \in 1..n : Scan(kind, x, s[i]) \in D
  BY <1>1, ScanStays
<1>3. Split(g, kind, s) = (CHOOSE h : Solves(h))[DOMAIN s]
  BY Zenon DEF Split, FoldLeft, MapThenFoldSet
<1>5. base \in D
  <2>1. g \in Guests /\ <<>> \in Seq(Int) /\ ToSet(<<>>) = {}
    <3>1. g \in Guests
      BY DEF Budgeted
    <3>2. ToSet(<<>>) = {}
      BY DEF ToSet
    <3> QED  BY <3>1, <3>2
  <2> QED  BY <2>1 DEF Splits
<1> HIDE DEF n, D, base
<1>4. o \in [D \X (1..n) -> D] /\ \A x \in D : \A i \in 1..n : o[<<x, i>>] = Scan(kind, x, s[i])
  BY <1>2
<1> HIDE DEF o
<1>0. PICK k \in [SUBSET (1..n) -> D] : Folds(n, base, o, k)
  BY <1>1, <1>4, <1>5, FoldExists
<1>6. \A t \in SUBSET (1..n) :
        k[t] = IF t = {} THEN base ELSE o[<<k[t \ {Max(t)}], Max(t)>>]
  BY <1>0 DEF Folds
<1>7. ASSUME NEW t \in SUBSET (1..n), t # {}
      PROVE  Max(t) \in 1..n /\ t \ {Max(t)} \in SUBSET (1..n)
  <2>1. Max(t) \in t
    BY <1>1, <1>7, MaxIsIn
  <2> QED  BY <2>1
<1>8. \A t \in SUBSET (1..n) :
        k[t] = IF t = {} THEN base ELSE Scan(kind, k[t \ {Max(t)}], s[Max(t)])
  <2> SUFFICES ASSUME NEW t \in SUBSET (1..n), t # {}
               PROVE  k[t] = Scan(kind, k[t \ {Max(t)}], s[Max(t)])
    BY <1>6
  <2>1. k[t \ {Max(t)}] \in D /\ Max(t) \in 1..n
    BY <1>0, <1>7
  <2>2. k[t] = o[<<k[t \ {Max(t)}], Max(t)>>]
    BY <1>6
  <2> QED  BY <1>4, <2>1, <2>2
<1>9. Solves(k)
  BY <1>1, <1>6, <1>8
<1> DEFINE h == CHOOSE x : Solves(x)
<1>10. Solves(h)
  BY <1>9
<1> HIDE DEF h
<1>11. \A t \in SUBSET (1..n) :
         h[t] = IF t = {} THEN base ELSE Scan(kind, h[t \ {Max(t)}], s[Max(t)])
  BY <1>1, <1>10
<1> HIDE DEF Solves
<1> DEFINE p == [j \in 0..n |-> h[1..j]]
<1>12. p[0] = base
  <2>1. 1..0 = {} /\ 0 \in 0..n
    BY <1>1
  <2> QED  BY <1>11, <2>1
<1>13. ASSUME NEW j \in 1..n PROVE p[j] = Scan(kind, p[j - 1], s[j])
  <2>0. j \in Nat /\ j >= 1 /\ j <= n /\ j \in 0..n /\ j - 1 \in 0..n
    BY <1>1
  <2>1. 1..j \in SUBSET (1..n) /\ 1..j # {}
    <3>1. j \in 1..j
      BY <2>0
    <3>2. ASSUME NEW i \in 1..j PROVE i \in 1..n
      BY <1>1, <2>0
    <3> QED  BY <3>1, <3>2
  <2>2. Max(1..j) = j /\ (1..j) \ {j} = 1..(j - 1)
    BY <1>1, MaxOfInterval
  <2>3. h[1..j] = Scan(kind, h[(1..j) \ {Max(1..j)}], s[Max(1..j)])
    BY <1>11, <2>1
  <2>4. h[1..j] = Scan(kind, h[1..(j - 1)], s[j])
    BY <2>2, <2>3
  <2> QED  BY <2>0, <2>4
<1>14. p[n] = Split(g, kind, s)
  BY <1>1, <1>3 DEF h
<1> HIDE DEF p
<1> DEFINE N == {j \in Nat : j <= n => p[j] \in D}
<1>15. 0 \in N
  BY <1>5, <1>12
<1>16. ASSUME NEW j \in Nat, j \in N PROVE j + 1 \in N
  <2>1. CASE j + 1 <= n
    <3>1. j + 1 \in 1..n /\ (j + 1) - 1 = j /\ j <= n
      BY <1>1, <2>1
    <3>2. p[j + 1] = Scan(kind, p[j], s[j + 1])
      BY <1>13, <3>1
    <3> QED  BY <1>2, <1>16, <3>1, <3>2
  <2>2. CASE ~(j + 1 <= n)
    BY <2>2
  <2> QED  BY <2>1, <2>2
<1>17. Nat \subseteq N
  <2> HIDE DEF N
  <2> QED  BY <1>15, <1>16, InductionSet
<1>18. \A j \in 0..n : p[j] \in D
  BY <1>1, <1>17
<1>19. p \in [0..n -> D]
  BY <1>18 DEF p
<1> QED  BY <1>12, <1>13, <1>14, <1>19 DEF n, D, base

(* How many of the first j bytes are text.                                 *)
TextTo(s, j) == Cardinality({i \in 1..j : s[i] # NL})

LEMMA TextGrows ==
  ASSUME NEW s, NEW j \in Nat
  PROVE  /\ TextTo(s, j) \in Nat /\ TextTo(s, 0) = 0
         /\ TextTo(s, j + 1) = TextTo(s, j) + IF s[j + 1] = NL THEN 0 ELSE 1
<1> DEFINE T(m) == {i \in 1..m : s[i] # NL}
<1>1. IsFiniteSet(T(j)) /\ IsFiniteSet(1..j)
  <2>1. IsFiniteSet(1..j) /\ T(j) \subseteq 1..j
    BY FS_Interval
  <2> QED  BY <2>1, FS_Subset
<1>2. T(0) = {}
  OBVIOUS
<1>3. T(j + 1) = IF s[j + 1] = NL THEN T(j) ELSE T(j) \cup {j + 1}
  <2>1. 1..(j + 1) = 1..j \cup {j + 1}
    OBVIOUS
  <2> QED  BY <2>1
<1>4. j + 1 \notin T(j)
  OBVIOUS
<1>5. TextTo(s, j) = Cardinality(T(j)) /\ TextTo(s, 0) = Cardinality(T(0))
      /\ TextTo(s, j + 1) = Cardinality(T(j + 1))
  BY DEF TextTo
<1> HIDE DEF T
<1>6. Cardinality(T(j)) \in Nat /\ Cardinality(T(j) \cup {j + 1}) = Cardinality(T(j)) + 1
  BY <1>1, <1>4, FS_CardinalityType, FS_AddElement
<1>7. Cardinality(T(0)) = 0
  BY <1>2, FS_EmptySet
<1> QED  BY <1>3, <1>5, <1>6, <1>7

LEMMA TextRises ==
  ASSUME NEW s, NEW n \in Nat
  PROVE  \A j \in 0..n : TextTo(s, j) \in Nat /\ TextTo(s, j) <= TextTo(s, n)
<1> SUFFICES ASSUME NEW j \in 0..n PROVE TextTo(s, j) \in Nat /\ TextTo(s, j) <= TextTo(s, n)
  OBVIOUS
<1> DEFINE S == {i \in 1..j : s[i] # NL}
           T == {i \in 1..n : s[i] # NL}
<1>1. S \subseteq T /\ T \subseteq 1..n
  OBVIOUS
<1>2. IsFiniteSet(1..n)
  BY FS_Interval
<1>3. TextTo(s, j) = Cardinality(S) /\ TextTo(s, n) = Cardinality(T)
  BY DEF TextTo
<1> HIDE DEF S, T
<1>4. IsFiniteSet(T)
  BY <1>1, <1>2, FS_Subset
<1>5. IsFiniteSet(S) /\ Cardinality(S) <= Cardinality(T)
  BY <1>1, <1>4, FS_Subset
<1> QED  BY <1>3, <1>5, FS_CardinalityType

LEMMA TextOfAppend ==
  ASSUME NEW s \in Seq(Int), NEW e \in Int
  PROVE  Text(s) \in Nat /\ Text(Append(s, e)) = Text(s) + IF e = NL THEN 0 ELSE 1
<1> DEFINE a == Append(s, e)
           n == Len(s)
<1>1. /\ a \in Seq(Int) /\ Len(a) = n + 1 /\ a[n + 1] = e /\ n \in Nat
      /\ \A i \in 1..n : a[i] = s[i]
  BY AppendProperties
<1>2. DOMAIN a = 1..(n + 1) /\ DOMAIN s = 1..n
  BY <1>1
<1> HIDE DEF a, n
<1>3. {i \in DOMAIN s : s[i] # NL} = {i \in 1..n : a[i] # NL}
  BY <1>1, <1>2
<1>4. Text(s) = TextTo(a, n) /\ Text(a) = TextTo(a, n + 1)
  BY <1>2, <1>3 DEF Text, TextTo
<1>5. /\ TextTo(a, n) \in Nat
      /\ TextTo(a, n + 1) = TextTo(a, n) + IF a[n + 1] = NL THEN 0 ELSE 1
  BY <1>1, TextGrows
<1> QED  BY <1>1, <1>4, <1>5 DEF a

(* The buffered line has no newline, so all of it is text.                 *)
LEMMA TextOfBoth ==
  ASSUME NEW s \in Seq(Int), NL \notin ToSet(s), NEW t \in Seq(Int)
  PROVE  Text(s \o t) = Len(s) + Text(t)
<1> DEFINE P == {r \in Seq(Int) : Text(s \o r) = Len(s) + Text(r)}
           n == Len(s)
<1>1. <<>> \in P
  <2>1. s \o <<>> = s /\ <<>> \in Seq(Int) /\ n \in Nat
    BY ConcatEmptySeq
  <2>2. {i \in DOMAIN s : s[i] # NL} = 1..n
    BY DEF ToSet
  <2> HIDE DEF n
  <2>3. Cardinality(1..n) = n
    <3>1. n \in Int /\ 1 \in Int /\ n >= 0
      BY <2>1
    <3> QED  BY <3>1, FS_Interval
  <2>4. Text(s) = n
    BY <2>2, <2>3 DEF Text
  <2>5. {i \in DOMAIN <<>> : <<>>[i] # NL} = {}
    OBVIOUS
  <2>6. Text(<<>>) = 0
    BY <2>5, FS_EmptySet DEF Text
  <2>7. Text(s \o <<>>) = Text(s)
    BY <2>1, Zenon
  <2>8. Text(s \o <<>>) = n + Text(<<>>)
    BY <2>1, <2>4, <2>6, <2>7
  <2> QED  BY <2>1, <2>8, Zenon DEF n
<1>2. ASSUME NEW r \in Seq(Int), NEW e \in Int, r \in P PROVE Append(r, e) \in P
  <2> DEFINE c == s \o r
  <2>1. c \in Seq(Int) /\ s \o Append(r, e) = Append(c, e) /\ Append(r, e) \in Seq(Int)
    BY ConcatProperties, AppendConcat, AppendProperties
  <2>2. Text(c) = Len(s) + Text(r) /\ Len(s) \in Nat
    BY <1>2
  <2> HIDE DEF c
  <2>3. Text(c) \in Nat /\ Text(Append(c, e)) = Text(c) + IF e = NL THEN 0 ELSE 1
    BY <2>1, TextOfAppend
  <2>4. Text(r) \in Nat /\ Text(Append(r, e)) = Text(r) + IF e = NL THEN 0 ELSE 1
    BY TextOfAppend
  <2>5. Text(s \o Append(r, e)) = Len(s) + Text(Append(r, e))
    BY <2>1, <2>2, <2>3, <2>4
  <2> QED  BY <2>1, <2>5
<1>3. Seq(Int) \subseteq P
  <2> HIDE DEF P
  <2> QED  BY <1>1, <1>2, ListInduction
<1> QED  BY <1>3

(* What was said so far is in lines or in the line under way.              *)
OfKind(kind, k, n) == IF k = kind THEN n ELSE 0

AllThere(old, kind, acc, n) ==
  \A k \in Kinds : BytesOf(acc.g.pending, {k}) + OfKind(kind, k, Len(acc.cur))
                     = BytesOf(old, {k}) + OfKind(kind, k, n)

LEMMA ScanKeeps ==
  ASSUME NEW g, NEW own \in SUBSET Int, NEW kind \in Kinds, NEW acc \in Splits(g, own),
         NEW b \in own \cup {NL}, NEW n \in Nat, Len(acc.cur) <= n, NEW old \in Seq(Lines)
  PROVE  /\ Len(Scan(kind, acc, b).cur) <= n + IF b = NL THEN 0 ELSE 1
         /\ ~Scan(kind, acc, b).g.warned => ~acc.g.warned
         /\ ~Scan(kind, acc, b).g.warned /\ n <= MaxLine /\ AllThere(old, kind, acc, n) =>
              AllThere(old, kind, Scan(kind, acc, b), n + IF b = NL THEN 0 ELSE 1)
<1>1. /\ acc \in [g : Guests, cur : Seq(Int)] /\ Budgeted(acc.g, own)
      /\ ToSet(acc.cur) \subseteq own /\ acc.cur \in Seq(Int) /\ Len(acc.cur) \in Nat
      /\ acc.g.pending \in Seq(Lines) /\ MaxLine \in Nat
  BY OutputAssumption DEF Splits, Guests
<1>0. \A k : BytesOf(old, {k}) \in Nat /\ BytesOf(acc.g.pending, {k}) \in Nat
  BY <1>1, BytesOfType
<1>2. CASE b = NL
  <2> DEFINE h == admit_line(acc.g, kind, acc.cur)
             v == acc.cur
             q == acc.g.pending
  <2>1. /\ ~h.warned => ~acc.g.warned
        /\ ~h.warned /\ Len(v) <= MaxLine => Adds(q, h.pending, kind, Len(v))
    BY <1>1, AdmitLine
  <2>2. Scan(kind, acc, b) = [g |-> h, cur |-> <<>>]
    BY <1>2 DEF Scan
  <2>3. v \in Seq(Int) /\ Len(v) \in Nat /\ Len(v) <= n
    BY <1>1
  <2>4. \A k : BytesOf(q, {k}) \in Nat
    BY <1>0
  <2> HIDE DEF h, v, q
  <2>5. Scan(kind, acc, b).g = h /\ Len(Scan(kind, acc, b).cur) = 0
    BY <2>2
  <2>6. ASSUME ~h.warned, n <= MaxLine, AllThere(old, kind, acc, n)
        PROVE  AllThere(old, kind, Scan(kind, acc, b), n)
    <3>1. Adds(q, h.pending, kind, Len(v))
      BY <1>1, <2>1, <2>3, <2>6
    <3> SUFFICES ASSUME NEW k \in Kinds
                 PROVE  BytesOf(h.pending, {k}) + OfKind(kind, k, 0)
                          = BytesOf(old, {k}) + OfKind(kind, k, n)
      BY <2>5 DEF AllThere
    <3>2. BytesOf(h.pending, {k}) = BytesOf(q, {k}) + IF k = kind THEN Len(v) ELSE 0
      BY <3>1 DEF Adds
    <3>3. BytesOf(q, {k}) + OfKind(kind, k, Len(v)) = BytesOf(old, {k}) + OfKind(kind, k, n)
      BY <2>6 DEF AllThere, v, q
    <3> DEFINE x == BytesOf(h.pending, {k})
               y == BytesOf(q, {k})
               w == BytesOf(old, {k})
               m == Len(v)
    <3>4. x = y + (IF k = kind THEN m ELSE 0)
          /\ y + (IF k = kind THEN m ELSE 0) = w + (IF k = kind THEN n ELSE 0)
      BY <3>2, <3>3 DEF OfKind
    <3>5. y \in Nat /\ w \in Nat /\ m \in Nat
      BY <2>3, <2>4, <1>0
    <3> HIDE DEF x, y, w, m
    <3>6. x + (IF k = kind THEN 0 ELSE 0) = w + (IF k = kind THEN n ELSE 0)
      BY <3>4, <3>5
    <3> QED  BY <3>6 DEF OfKind, x, w
  <2> QED  BY <1>2, <2>1, <2>5, <2>6
<1>3. CASE b # NL
  <2> DEFINE c == Append(acc.cur, b)
             z == Scan(kind, acc, b)
  <2>1. b \in Int
    BY <1>3
  <2>2. c \in Seq(Int) /\ Len(c) = Len(acc.cur) + 1
    BY <1>1, <2>1, AppendProperties
  <2>3. z = [acc EXCEPT !.cur = c]
    BY <1>3 DEF Scan
  <2> HIDE DEF c, z
  <2>4. z.g = acc.g /\ z.cur = c
    BY <1>1, <2>3
  <2>5. ASSUME AllThere(old, kind, acc, n) PROVE AllThere(old, kind, z, n + 1)
    <3> SUFFICES ASSUME NEW k \in Kinds
                 PROVE  BytesOf(acc.g.pending, {k}) + OfKind(kind, k, Len(c))
                          = BytesOf(old, {k}) + OfKind(kind, k, n + 1)
      BY <2>4 DEF AllThere
    <3>1. BytesOf(acc.g.pending, {k}) + OfKind(kind, k, Len(acc.cur))
            = BytesOf(old, {k}) + OfKind(kind, k, n)
      BY <2>5 DEF AllThere
    <3> DEFINE y == BytesOf(acc.g.pending, {k})
               w == BytesOf(old, {k})
               m == Len(acc.cur)
    <3>2. y + (IF k = kind THEN m ELSE 0) = w + (IF k = kind THEN n ELSE 0)
      BY <3>1 DEF OfKind
    <3>3. y \in Nat /\ w \in Nat /\ m \in Nat /\ Len(c) = m + 1
      BY <2>2, <1>0, <1>1
    <3> HIDE DEF y, w, m
    <3>4. y + (IF k = kind THEN m + 1 ELSE 0) = w + (IF k = kind THEN n + 1 ELSE 0)
      BY <3>2, <3>3
    <3> QED  BY <3>3, <3>4 DEF OfKind, y, w
  <2> QED  BY <1>1, <1>3, <2>2, <2>4, <2>5 DEF z
<1> QED  BY <1>2, <1>3

(* All of a chunk, newline or not, is in lines or in the line under way,   *)
(* unless the byte budget or the cap of a line cut it.                     *)
LEMMA SplitKeeps ==
  ASSUME NEW g, NEW own \in SUBSET Int, NEW kind \in Kinds, Budgeted(g, own),
         NEW s \in Seq(Int), ToSet(s) \subseteq own \cup {NL}
  PROVE  /\ Split(g, kind, s) \in Splits(g, own)
         /\ Len(Split(g, kind, s).cur) <= Text(s)
         /\ ~Split(g, kind, s).g.warned => ~g.warned
         /\ ~Split(g, kind, s).g.warned /\ Text(s) <= MaxLine =>
              AllThere(g.pending, kind, Split(g, kind, s), Text(s))
<1> DEFINE n == Len(s)
           end == Split(g, kind, s)
           old == g.pending
           D == Splits(g, own)
<1>0. n \in Nat /\ DOMAIN s = 1..n /\ \A i \in 1..n : s[i] \in own \cup {NL}
  BY DEF ToSet
<1>1. PICK p \in [0..n -> D] :
           /\ p[0] = [g |-> g, cur |-> <<>>] /\ end = p[n]
           /\ \A j \in 1..n : p[j] = Scan(kind, p[j - 1], s[j])
  BY SplitPath
<1>2. old \in Seq(Lines) /\ MaxLine \in Nat
  BY OutputAssumption DEF Budgeted, Guests
<1>3. Text(s) = TextTo(s, n)
  BY <1>0 DEF Text, TextTo
<1> HIDE DEF n, end, old
<1> DEFINE Good(j) ==
             /\ Len(p[j].cur) <= TextTo(s, j)
             /\ ~p[j].g.warned => ~g.warned
             /\ ~p[j].g.warned /\ Text(s) <= MaxLine => AllThere(old, kind, p[j], TextTo(s, j))
           N == {j \in Nat : j <= n => Good(j)}
<1>4. 0 \in N
  <2>1. p[0].g = g /\ p[0].cur = <<>> /\ Len(<<>>) = 0 /\ TextTo(s, 0) = 0
    BY <1>1, TextGrows
  <2>2. AllThere(old, kind, p[0], 0)
    BY <2>1 DEF AllThere, old
  <2> QED  BY <2>1, <2>2
<1>5. ASSUME NEW j \in Nat, j \in N PROVE j + 1 \in N
  <2> SUFFICES ASSUME j + 1 <= n PROVE Good(j + 1)
    OBVIOUS
  <2>1. Good(j) /\ j + 1 \in 1..n /\ (j + 1) - 1 = j /\ j \in 0..n
    BY <1>0, <1>5
  <2> HIDE DEF Good
  <2> DEFINE acc == p[j]
             b == s[j + 1]
             m == TextTo(s, j)
             k == m + IF b = NL THEN 0 ELSE 1
  <2>2. acc \in D /\ p[j + 1] = Scan(kind, acc, b) /\ b \in own \cup {NL}
    BY <1>0, <1>1, <2>1
  <2>3. m \in Nat /\ TextTo(s, j + 1) = k /\ m <= TextTo(s, n) /\ TextTo(s, n) \in Nat
    <3>1. m \in Nat /\ TextTo(s, j + 1) = k
      BY TextGrows
    <3>2. n \in 0..n
      BY <1>0
    <3> QED  BY <1>0, <2>1, <3>1, <3>2, TextRises
  <2>4. Len(acc.cur) <= m
    BY <2>1 DEF Good
  <2> HIDE DEF acc, b, m
  <2>5. /\ Len(Scan(kind, acc, b).cur) <= m + IF b = NL THEN 0 ELSE 1
        /\ ~Scan(kind, acc, b).g.warned => ~acc.g.warned
        /\ ~Scan(kind, acc, b).g.warned /\ m <= MaxLine /\ AllThere(old, kind, acc, m) =>
             AllThere(old, kind, Scan(kind, acc, b), m + IF b = NL THEN 0 ELSE 1)
    BY <1>2, <2>2, <2>3, <2>4, ScanKeeps
  <2>6. ASSUME ~p[j + 1].g.warned, Text(s) <= MaxLine PROVE AllThere(old, kind, p[j + 1], k)
    <3>1. ~acc.g.warned
      BY <2>2, <2>5, <2>6
    <3>2. AllThere(old, kind, acc, m)
      BY <2>1, <2>6, <3>1 DEF Good, acc, m
    <3>3. m <= MaxLine
      BY <1>2, <1>3, <2>3, <2>6
    <3> QED  BY <2>2, <2>5, <2>6, <3>2, <3>3
  <2>7. ~p[j + 1].g.warned => ~g.warned
    BY <2>1, <2>2, <2>5 DEF Good, acc
  <2>8. Len(p[j + 1].cur) <= k
    BY <2>2, <2>5
  <2> HIDE DEF k
  <2> QED  BY <2>3, <2>6, <2>7, <2>8 DEF Good
<1>6. Nat \subseteq N
  <2> HIDE DEF N
  <2> QED  BY <1>4, <1>5, InductionSet
<1>7. Good(n)
  BY <1>0, <1>6
<1>8. end \in D
  BY <1>0, <1>1
<1> QED  BY <1>1, <1>3, <1>7, <1>8 DEF end, old

-----------------------------------------------------------------------------
(* A guest under a call: what the call has heard is in its lines and in    *)
(* the two unfinished ones.                                                *)
HasAll(g, c) == \A k \in Kinds : BytesOf(g.pending, {k}) + Len(g.partial[k]) = c.text[k]

Unfinished(g, own) == \A k \in Kinds : ToSet(g.partial[k]) \subseteq own /\ Len(g.partial[k]) <= MaxLine

Telling(g, c, own) ==
  /\ Budgeted(g, own) /\ Unfinished(g, own) /\ c \in Heard
  /\ c.cut \/ g.warned \/ HasAll(g, c)

WithPartial(g, kind, v) == [g EXCEPT !.partial[kind] = v]

LEMMA SetPartial ==
  ASSUME NEW g, NEW own, Budgeted(g, own), NEW kind \in Kinds, NEW v \in Seq(Int)
  PROVE  /\ Budgeted(WithPartial(g, kind, v), own)
         /\ WithPartial(g, kind, v).pending = g.pending
         /\ WithPartial(g, kind, v).warned = g.warned
         /\ \A k \in Kinds : WithPartial(g, kind, v).partial[k]
                               = IF k = kind THEN v ELSE g.partial[k]
<1> DEFINE h == WithPartial(g, kind, v)
           q == [g.partial EXCEPT ![kind] = v]
<1>1. g \in Guests /\ g.partial \in [Kinds -> Seq(Int)]
  BY GuestShape DEF Budgeted
<1>2. q \in [Kinds -> Seq(Int)] /\ \A k \in Kinds : q[k] = IF k = kind THEN v ELSE g.partial[k]
  BY <1>1
<1>3. h = [g EXCEPT !.partial = q]
  BY DEF WithPartial
<1> HIDE DEF h, q
<1>4. h \in Guests /\ h.logs = g.logs /\ h.count = g.count /\ h.partial = q
      /\ h.pending = g.pending /\ h.left = g.left /\ h.warned = g.warned
  BY <1>1, <1>2, <1>3 DEF Guests
<1>5. Budgeted(h, own)
  BY <1>4, Zenon DEF Budgeted
<1>6. \A k \in Kinds : h.partial[k] = IF k = kind THEN v ELSE g.partial[k]
  BY <1>2, <1>4
<1> QED  BY <1>4, <1>5, <1>6 DEF h

LEMMA PartialShape ==
  ASSUME NEW g, NEW own, Budgeted(g, own), NEW k \in Kinds
  PROVE  g.partial[k] \in Seq(Int) /\ Len(g.partial[k]) \in Nat
<1>1. g.partial \in [Kinds -> Seq(Int)]
  BY GuestShape DEF Budgeted
<1> QED  BY <1>1

LEMMA FlushTells ==
  ASSUME NEW g, NEW c, NEW own, Telling(g, c, own), NEW kind \in Kinds
  PROVE  /\ Telling(flush_partial(g, kind), c, own)
         /\ flush_partial(g, kind).partial[kind] = <<>>
         /\ \A k \in Kinds \ {kind} : flush_partial(g, kind).partial[k] = g.partial[k]
<1> DEFINE v == g.partial[kind]
           f == flush_partial(g, kind)
           h == admit_line(g, kind, v)
<1>1. /\ Budgeted(g, own) /\ Unfinished(g, own) /\ c \in Heard
      /\ c.cut \/ g.warned \/ HasAll(g, c)
  BY DEF Telling
<1>2. v \in Seq(Int) /\ Len(v) \in Nat /\ ToSet(v) \subseteq own /\ Len(v) <= MaxLine
  BY <1>1, PartialShape DEF Unfinished
<1>3. CASE v = <<>>
  BY <1>3 DEF flush_partial
<1>4. CASE v # <<>>
  <2>1. f = [h EXCEPT !.partial[kind] = <<>>]
    BY <1>4 DEF flush_partial
  <2>2. /\ Budgeted(h, own) /\ h.partial = g.partial
        /\ ~h.warned => ~g.warned
        /\ ~h.warned => Adds(g.pending, h.pending, kind, Len(v))
    <3> HIDE DEF v
    <3>1. /\ Budgeted(h, own) /\ h.partial = g.partial
          /\ ~h.warned => ~g.warned
          /\ ~h.warned /\ Len(v) <= MaxLine => Adds(g.pending, h.pending, kind, Len(v))
      BY <1>1, <1>2, AdmitLine
    <3> QED  BY <1>2, <3>1
  <2>3. <<>> \in Seq(Int) /\ Len(<<>>) = 0 /\ ToSet(<<>>) = {} /\ 0 <= MaxLine
    <3>1. ToSet(<<>>) = {}
      BY DEF ToSet
    <3> QED  BY <3>1, OutputAssumption
  <2> HIDE DEF h, v, f
  <2>4. /\ Budgeted(f, own) /\ f.pending = h.pending /\ f.warned = h.warned
        /\ \A k \in Kinds : f.partial[k] = IF k = kind THEN <<>> ELSE h.partial[k]
    <3> DEFINE e == <<>>
    <3>1. e \in Seq(Int) /\ f = WithPartial(h, kind, e)
      BY <2>1, <2>3 DEF WithPartial
    <3> HIDE DEF e
    <3>2. /\ Budgeted(f, own) /\ f.pending = h.pending /\ f.warned = h.warned
          /\ \A k \in Kinds : f.partial[k] = IF k = kind THEN e ELSE h.partial[k]
      BY <2>2, <3>1, SetPartial
    <3> QED  BY <3>2 DEF e
  <2>5. /\ f.partial[kind] = <<>>
        /\ \A k \in Kinds \ {kind} : f.partial[k] = g.partial[k]
    BY <2>2, <2>4
  <2>6. Unfinished(f, own)
    <3> SUFFICES ASSUME NEW k \in Kinds
                 PROVE  ToSet(f.partial[k]) \subseteq own /\ Len(f.partial[k]) <= MaxLine
      BY DEF Unfinished
    <3>1. CASE k = kind
      BY <3>1, <2>3, <2>5
    <3>2. CASE k # kind
      BY <3>2, <1>1, <2>5 DEF Unfinished
    <3> QED  BY <3>1, <3>2
  <2>7. ASSUME ~c.cut, ~f.warned PROVE HasAll(f, c)
    <3>1. HasAll(g, c) /\ Adds(g.pending, h.pending, kind, Len(v))
      BY <1>1, <2>2, <2>4, <2>7
    <3> SUFFICES ASSUME NEW k \in Kinds
                 PROVE  BytesOf(h.pending, {k}) + Len(f.partial[k]) = c.text[k]
      BY <2>4 DEF HasAll
    <3> DEFINE x == BytesOf(h.pending, {k})
               y == BytesOf(g.pending, {k})
               m == Len(g.partial[k])
               z == Len(f.partial[k])
               u == c.text[k]
    <3>2. y + m = u /\ x = y + (IF k = kind THEN Len(v) ELSE 0)
      BY <3>1 DEF HasAll, Adds
    <3>3. y \in Nat /\ m \in Nat
      BY <1>1, PartialShape, BytesOfType, GuestShape DEF Budgeted
    <3>4. (k = kind => z = 0 /\ m = Len(v)) /\ (k # kind => z = m)
      BY <2>3, <2>5 DEF v
    <3> HIDE DEF x, y, m, z, u
    <3>5. x + z = u
      BY <1>2, <3>2, <3>3, <3>4
    <3> QED  BY <3>5 DEF x, z, u
  <2>8. Telling(f, c, own)
    BY <1>1, <2>4, <2>6, <2>7 DEF Telling
  <2> QED  BY <2>5, <2>8 DEF f
<1> QED  BY <1>3, <1>4

(* What a call has heard after one more chunk.                             *)
Hears(c, g, kind, bytes) ==
  [c EXCEPT !.text[kind] = @ + Text(bytes), !.cut = @ \/ Len(g.partial[kind]) + Text(bytes) > MaxLine]

LEMMA TextType ==
  ASSUME NEW s \in Seq(Int)
  PROVE  Text(s) \in Nat
<1>1. 0 \in Int
  OBVIOUS
<1> QED  BY <1>1, TextOfAppend

LEMMA ConcatToSet ==
  ASSUME NEW U, NEW s \in Seq(U), NEW t \in Seq(U)
  PROVE  s \o t \in Seq(U) /\ ToSet(s \o t) = ToSet(s) \cup ToSet(t)
<1> DEFINE P == {r \in Seq(U) : ToSet(s \o r) = ToSet(s) \cup ToSet(r)}
<1>1. <<>> \in P
  <2>1. s \o <<>> = s /\ <<>> \in Seq(U)
    BY ConcatEmptySeq
  <2>2. ToSet(<<>>) = {}
    BY DEF ToSet
  <2>3. ToSet(s \o <<>>) = ToSet(s)
    BY <2>1, Zenon
  <2>4. ToSet(s \o <<>>) = ToSet(s) \cup ToSet(<<>>)
    BY <2>2, <2>3
  <2> QED  BY <2>1, <2>4, Zenon
<1>2. ASSUME NEW r \in Seq(U), NEW e \in U, r \in P PROVE Append(r, e) \in P
  <2> DEFINE c == s \o r
  <2>1. c \in Seq(U) /\ s \o Append(r, e) = Append(c, e) /\ Append(r, e) \in Seq(U)
    BY ConcatProperties, AppendConcat, AppendProperties
  <2>2. ToSet(c) = ToSet(s) \cup ToSet(r)
    BY <1>2
  <2> HIDE DEF c
  <2>3. ToSet(Append(c, e)) = ToSet(c) \cup {e} /\ ToSet(Append(r, e)) = ToSet(r) \cup {e}
    BY <2>1, AppendToSet
  <2>4. ToSet(s \o Append(r, e)) = ToSet(s) \cup ToSet(Append(r, e))
    BY <2>1, <2>2, <2>3
  <2> QED  BY <2>1, <2>4
<1>3. Seq(U) \subseteq P
  <2> HIDE DEF P
  <2> QED  BY <1>1, <1>2, ListInduction
<1> QED  BY <1>3, ConcatProperties

LEMMA WriteTells ==
  ASSUME NEW g, NEW c, NEW own \in SUBSET Nat, Telling(g, c, own), NEW kind \in Kinds,
         NEW bytes \in Seq(Int), ToSet(bytes) \subseteq own \cup {NL}
  PROVE  Telling(write(g, kind, bytes), Hears(c, g, kind, bytes), own)
<1> DEFINE v == g.partial[kind]
           s == v \o bytes
           end == Split(g, kind, s)
           w == write(g, kind, bytes)
           d == Hears(c, g, kind, bytes)
           m == Text(bytes)
<1>1. /\ Budgeted(g, own) /\ Unfinished(g, own) /\ c \in Heard
      /\ c.cut \/ g.warned \/ HasAll(g, c)
  BY DEF Telling
<1>2. v \in Seq(Int) /\ Len(v) \in Nat /\ ToSet(v) \subseteq own /\ Len(v) <= MaxLine
  BY <1>1, PartialShape DEF Unfinished
<1>3. m \in Nat /\ MaxLine \in Nat /\ NL \notin own
  BY TextType, OutputAssumption DEF NL
<1>4. /\ s \in Seq(Int) /\ ToSet(s) \subseteq own \cup {NL}
      /\ Text(s) = Len(v) + m
  <2> HIDE DEF v
  <2>1. s \in Seq(Int) /\ ToSet(s) = ToSet(v) \cup ToSet(bytes)
    BY <1>2, ConcatToSet
  <2>2. Text(s) = Len(v) + m
    BY <1>2, <1>3, TextOfBoth
  <2> QED  BY <1>2, <2>1, <2>2
<1>5. c.text \in [Kinds -> Nat] /\ c.cut \in BOOLEAN /\ c.kept \in BOOLEAN
  BY <1>1 DEF Heard
<1>6. /\ d \in Heard /\ (c.cut => d.cut) /\ (Len(v) + m > MaxLine => d.cut)
      /\ \A k \in Kinds : d.text[k] = c.text[k] + OfKind(kind, k, m)
  <2> DEFINE tx == [c.text EXCEPT ![kind] = @ + m]
             ct == (c.cut \/ Len(v) + m > MaxLine)
  <2>1. d = [c EXCEPT !.text = tx, !.cut = ct]
    BY DEF Hears
  <2>2. /\ tx \in [Kinds -> Nat] /\ ct \in BOOLEAN
        /\ \A k \in Kinds : tx[k] = IF k = kind THEN c.text[k] + m ELSE c.text[k]
    BY <1>3, <1>5
  <2> HIDE DEF d, tx, m, v
  <2>3. \A k \in Kinds : tx[k] = c.text[k] + OfKind(kind, k, m)
    BY <1>3, <1>5, <2>2 DEF OfKind
  <2> HIDE DEF ct
  <2>4. d \in Heard /\ d.cut = ct /\ d.text = tx
    BY <1>1, <2>1, <2>2 DEF Heard
  <2> QED  BY <2>3, <2>4 DEF ct
<1>7. /\ end \in Splits(g, own) /\ Len(end.cur) <= Text(s)
      /\ ~end.g.warned => ~g.warned
      /\ ~end.g.warned /\ Text(s) <= MaxLine => AllThere(g.pending, kind, end, Text(s))
  <2>1. own \in SUBSET Int
    OBVIOUS
  <2> HIDE DEF s
  <2> QED  BY <1>1, <1>4, <2>1, SplitKeeps
<1>8. /\ Budgeted(end.g, own) /\ end.g.partial = g.partial /\ end.cur \in Seq(Int)
      /\ Len(end.cur) \in Nat /\ ToSet(end.cur) \subseteq own
  BY <1>7 DEF Splits
<1>9. w = IF Len(end.cur) > MaxLine
          THEN WithPartial(admit_line(end.g, kind, end.cur), kind, <<>>)
          ELSE WithPartial(end.g, kind, end.cur)
  BY Zenon DEF write, WithPartial
<1> HIDE DEF s, end, w, d, m, v
<1>10. ASSUME NEW h, Budgeted(h, own), h.partial = g.partial, NEW x \in Seq(Int),
              ToSet(x) \subseteq own, Len(x) <= MaxLine, w = WithPartial(h, kind, x)
       PROVE  /\ Budgeted(w, own) /\ Unfinished(w, own) /\ w.pending = h.pending
              /\ w.warned = h.warned
              /\ \A k \in Kinds : w.partial[k] = IF k = kind THEN x ELSE g.partial[k]
  <2>1. /\ Budgeted(w, own) /\ w.pending = h.pending /\ w.warned = h.warned
        /\ \A k \in Kinds : w.partial[k] = IF k = kind THEN x ELSE h.partial[k]
    BY <1>10, SetPartial
  <2>2. Unfinished(w, own)
    BY <1>1, <1>10, <2>1 DEF Unfinished
  <2> QED  BY <1>10, <2>1, <2>2
<1>11. CASE Len(end.cur) > MaxLine
  <2> DEFINE h == admit_line(end.g, kind, end.cur)
  <2>1. Budgeted(h, own) /\ h.partial = g.partial
    BY <1>8, AdmitLine
  <2>2. <<>> \in Seq(Int) /\ Len(<<>>) <= MaxLine /\ ToSet(<<>>) \subseteq own
    <3>1. ToSet(<<>>) = {}
      BY DEF ToSet
    <3> QED  BY <1>3, <3>1
  <2>3. w = WithPartial(h, kind, <<>>)
    BY <1>9, <1>11
  <2> HIDE DEF h
  <2>4. Budgeted(w, own) /\ Unfinished(w, own)
    <3> DEFINE e == <<>>
    <3>1. e \in Seq(Int) /\ Len(e) <= MaxLine /\ ToSet(e) \subseteq own /\ w = WithPartial(h, kind, e)
      BY <2>2, <2>3
    <3> HIDE DEF e
    <3> QED  BY <1>10, <2>1, <3>1
  <2>5. d.cut
    <3>1. Len(v) + m > MaxLine
      BY <1>2, <1>3, <1>4, <1>7, <1>8, <1>11
    <3> QED  BY <1>6, <3>1
  <2> QED  BY <1>6, <2>4, <2>5 DEF Telling, w, d
<1>12. CASE ~(Len(end.cur) > MaxLine)
  <2>1. Len(end.cur) <= MaxLine
    BY <1>3, <1>8, <1>12
  <2>2. w = WithPartial(end.g, kind, end.cur)
    BY <1>9, <1>12
  <2>3. /\ Budgeted(w, own) /\ Unfinished(w, own) /\ w.pending = end.g.pending
        /\ w.warned = end.g.warned
        /\ \A k \in Kinds : w.partial[k] = IF k = kind THEN end.cur ELSE g.partial[k]
    BY <1>8, <1>10, <2>1, <2>2
  <2>4. ASSUME ~d.cut, ~w.warned PROVE HasAll(w, d)
    <3>1. ~c.cut /\ Text(s) <= MaxLine /\ ~end.g.warned
      <4>1. ~c.cut /\ ~(Len(v) + m > MaxLine)
        BY <1>6, <2>4
      <4>2. ~end.g.warned
        BY <2>3, <2>4
      <4> QED  BY <1>2, <1>3, <1>4, <4>1, <4>2
    <3>2. HasAll(g, c) /\ AllThere(g.pending, kind, end, Text(s))
      BY <1>1, <1>7, <3>1
    <3> SUFFICES ASSUME NEW k \in Kinds
                 PROVE  BytesOf(w.pending, {k}) + Len(w.partial[k]) = d.text[k]
      BY DEF HasAll
    <3> DEFINE x == BytesOf(w.pending, {k})
               y == BytesOf(g.pending, {k})
               z == Len(w.partial[k])
               u == Len(g.partial[k])
               o == Len(end.cur)
               l == Len(v)
    <3>3. y + u = c.text[k] /\ x + OfKind(kind, k, o) = y + OfKind(kind, k, l + m)
      BY <1>4, <2>3, <3>2 DEF HasAll, AllThere
    <3>4. d.text[k] = c.text[k] + OfKind(kind, k, m)
      BY <1>6
    <3>5. (k = kind => z = o /\ u = l) /\ (k # kind => z = u)
      BY <2>3 DEF v
    <3>6. x \in Nat /\ y \in Nat /\ u \in Nat /\ o \in Nat /\ l \in Nat
      BY <1>1, <1>2, <1>8, <2>3, PartialShape, BytesOfType, GuestShape DEF Budgeted
    <3> HIDE DEF x, y, z, u, o, l
    <3>7. CASE k = kind
      <4>1. y + u = c.text[k] /\ x + o = y + (l + m) /\ d.text[k] = c.text[k] + m /\ z = o /\ u = l
        BY <3>3, <3>4, <3>5, <3>7 DEF OfKind
      <4> QED  BY <1>3, <3>6, <4>1 DEF x, z
    <3>8. CASE k # kind
      <4>1. y + u = c.text[k] /\ x + 0 = y + 0 /\ d.text[k] = c.text[k] + 0 /\ z = u
        BY <3>3, <3>4, <3>5, <3>8 DEF OfKind
      <4> QED  BY <3>6, <4>1 DEF x, z
    <3> QED  BY <3>7, <3>8
  <2> QED  BY <1>6, <2>3, <2>4 DEF Telling, w, d
<1> QED  BY <1>11, <1>12

LEMMA LogTells ==
  ASSUME NEW g, NEW c, NEW own, Telling(g, c, own), NEW b \in Seq(Int), ToSet(b) \subseteq own
  PROVE  Telling(LogAdmit(g, b), c, own)
<1> DEFINE h == LogAdmit(g, b)
<1>1. /\ Budgeted(g, own) /\ Unfinished(g, own) /\ c \in Heard
      /\ c.cut \/ g.warned \/ HasAll(g, c)
  BY DEF Telling
<1>2. /\ g \in Guests /\ Within(g.logs, own) /\ From(g.logs, {"log", "logs cut"})
      /\ Within(g.pending, own) /\ From(g.pending, Kinds \cup {"stdio cut"})
      /\ Len(g.logs) <= g.count /\ g.count <= MaxLines
      /\ BytesOf(g.pending, Kinds) + g.left <= MaxBytes
      /\ g.warned => LinesOf(g.pending, {"stdio cut"}) # {}
  BY <1>1, Zenon DEF Budgeted
<1>3. g.logs \in Seq(Lines) /\ g.count \in Nat /\ MaxLines \in Nat /\ MaxLines > 0
  <2>1. g.logs \in Seq(Lines) /\ g.count \in Nat
    BY <1>2, GuestShape
  <2>2. MaxLines \in Nat /\ MaxLines > 0
    BY OutputAssumption
  <2> QED  BY <2>1, <2>2
<1>4. /\ g.count < MaxLines - 1 =>
           h = [g EXCEPT !.count = g.count + 1, !.logs = Append(g.logs, Line("log", b))]
      /\ ~(g.count < MaxLines - 1) /\ g.count = MaxLines - 1 =>
           h = [g EXCEPT !.count = g.count + 1, !.logs = Append(g.logs, Line("logs cut", <<>>))]
      /\ ~(g.count < MaxLines - 1) /\ g.count # MaxLines - 1 => h = g
  <2> DEFINE A == g.count < MaxLines - 1
             B == g.count = MaxLines - 1
             x == [g EXCEPT !.count = @ + 1, !.logs = Append(@, Line("log", b))]
             y == [g EXCEPT !.count = @ + 1, !.logs = Append(@, Line("logs cut", <<>>))]
  <2>1. h = CASE A -> x [] B -> y [] OTHER -> g
    BY Zenon DEF LogAdmit
  <2>2. ~(A /\ B)
    BY <1>3
  <2> HIDE DEF A, B, x, y, h
  <2>3. /\ A => h = x
        /\ ~A /\ B => h = y
        /\ ~A /\ ~B => h = g
    BY <2>1, <2>2
  <2> QED  BY <2>3, Zenon DEF A, B, x, y
<1>5. ASSUME NEW e \in Lines, ToSet(e.bytes) \subseteq own, e.from \in {"log", "logs cut"},
             g.count <= MaxLines - 1,
             h = [g EXCEPT !.count = g.count + 1, !.logs = Append(g.logs, e)]
      PROVE  Telling(h, c, own)
  <2> DEFINE a == Append(g.logs, e)
             n == g.count + 1
  <2>1. a \in Seq(Lines) /\ Len(a) = Len(g.logs) + 1 /\ Within(a, own) /\ From(a, {"log", "logs cut"})
    BY <1>2, <1>3, <1>5, AppendWithin
  <2>2. n \in Nat /\ Len(a) <= n /\ n <= MaxLines
    <3> DEFINE x == Len(g.logs)
               y == g.count
               z == Len(a)
    <3>1. x \in Nat /\ y \in Nat /\ MaxLines \in Nat
      BY <1>3
    <3>2. x <= y /\ z = x + 1
      BY <1>2, <2>1
    <3>3. y <= MaxLines - 1
      BY <1>5
    <3> HIDE DEF x, y, z
    <3>4. y + 1 \in Nat /\ z <= y + 1 /\ y + 1 <= MaxLines
      BY <3>1, <3>2, <3>3
    <3> QED  BY <3>4 DEF y, z
  <2>3. h = [g EXCEPT !.count = n, !.logs = a]
    BY <1>5
  <2> HIDE DEF a, n, h
  <2>4. h \in Guests /\ h.logs = a /\ h.count = n /\ h.partial = g.partial
        /\ h.pending = g.pending /\ h.left = g.left /\ h.warned = g.warned
    BY <1>2, <2>1, <2>2, <2>3 DEF Guests
  <2>5. Budgeted(h, own)
    BY <1>2, <2>1, <2>2, <2>4, Zenon DEF Budgeted
  <2>6. Unfinished(h, own) /\ (HasAll(g, c) => HasAll(h, c))
    BY <1>1, <2>4, Zenon DEF Unfinished, HasAll
  <2>7. c.cut \/ h.warned \/ HasAll(h, c)
    BY <1>1, <2>4, <2>6
  <2> QED  BY <1>1, <2>5, <2>6, <2>7 DEF Telling
<1> HIDE DEF h
<1>6. CASE g.count < MaxLines - 1
  <2> DEFINE e == Line("log", b)
  <2>1. e \in Lines /\ e.bytes = b /\ e.from \in {"log", "logs cut"}
    BY DEF Line, Lines, Sources
  <2>2. h = [g EXCEPT !.count = g.count + 1, !.logs = Append(g.logs, e)]
    BY <1>4, <1>6
  <2>3. g.count <= MaxLines - 1
    BY <1>3, <1>6
  <2> HIDE DEF e
  <2> QED  BY <1>5, <2>1, <2>2, <2>3 DEF h
<1>7. CASE g.count = MaxLines - 1
  <2> DEFINE e == Line("logs cut", <<>>)
  <2>1. e \in Lines /\ ToSet(e.bytes) \subseteq own /\ e.from \in {"log", "logs cut"}
    <3>1. e.bytes = <<>> /\ e.from = "logs cut" /\ <<>> \in Seq(Int)
      BY DEF Line
    <3>2. e \in Lines
      BY <3>1 DEF Line, Lines, Sources
    <3>3. ToSet(<<>>) = {}
      BY DEF ToSet
    <3> QED  BY <3>1, <3>2, <3>3
  <2>2. g.count <= MaxLines - 1 /\ ~(g.count < MaxLines - 1)
    BY <1>3, <1>7
  <2>3. h = [g EXCEPT !.count = g.count + 1, !.logs = Append(g.logs, e)]
    BY <1>4, <1>7, <2>2
  <2> HIDE DEF e
  <2> QED  BY <1>5, <2>1, <2>2, <2>3 DEF h
<1>8. CASE ~(g.count < MaxLines - 1) /\ g.count # MaxLines - 1
  BY <1>4, <1>8 DEF h
<1> QED  BY <1>6, <1>7, <1>8

(* The span of a call that tells what its guest has.                       *)
Own(n) == {n} \cup IF lent.trusted THEN {} ELSE {0}

LEMMA SpanTells ==
  ASSUME NEW g, NEW c, NEW n, Telling(g, c, Own(n)), NEW o,
         NEW d, d.cut = c.cut, d.text = c.text,
         d.kept \/ \A k \in Kinds : g.partial[k] = <<>>
  PROVE  TellsOne(build_filter_span(n, o, g.logs \o g.pending, d))
<1> DEFINE own == Own(n)
           l == g.logs
           p == g.pending
           ev == l \o p
           span == build_filter_span(n, o, ev, d)
<1>1. /\ g \in Guests /\ Within(l, own) /\ From(l, {"log", "logs cut"})
      /\ Within(p, own) /\ From(p, Kinds \cup {"stdio cut"})
      /\ Len(l) <= g.count /\ g.count <= MaxLines
      /\ BytesOf(p, Kinds) + g.left <= MaxBytes
      /\ g.warned => LinesOf(p, {"stdio cut"}) # {}
  BY Zenon DEF Telling, Budgeted
<1>2. l \in Seq(Lines) /\ p \in Seq(Lines) /\ g.left \in Nat /\ g.count \in Nat
  BY <1>1, GuestShape
<1>3. span.call = n /\ span.events = ev /\ span.heard = d
  BY DEF build_filter_span
<1> HIDE DEF own, l, p
<1>4. /\ ev \in Seq(Lines)
      /\ \A i \in DOMAIN ev : (i \in DOMAIN l /\ ev[i] = l[i]) \/ \E j \in DOMAIN p : ev[i] = p[j]
      /\ \A j \in DOMAIN p : \E i \in DOMAIN ev : ev[i] = p[j]
  BY <1>2, ConcatLines
<1>5. \A j \in DOMAIN ev : ToSet(ev[j].bytes) \subseteq own
  BY <1>1, <1>4 DEF Within
<1>6. \A K : LinesOf(l, K) = {} => BytesOf(ev, K) = BytesOf(p, K)
  BY <1>2, BytesOfBehind
<1>7. LinesOf(l, Kinds) = {} /\ \A k \in Kinds : LinesOf(l, {k}) = {}
  BY <1>1 DEF LinesOf, From, Kinds
<1>8. BytesOf(ev, Kinds) <= MaxBytes
  <2> DEFINE x == BytesOf(p, Kinds)
             y == g.left
  <2>1. x \in Nat /\ y \in Nat /\ MaxBytes \in Nat /\ x + y <= MaxBytes
    BY <1>1, <1>2, BytesOfType, OutputAssumption
  <2>2. BytesOf(ev, Kinds) = x
    BY <1>6, <1>7
  <2> HIDE DEF x, y
  <2> QED  BY <2>1, <2>2
<1>9. Cardinality(LinesOf(ev, {"log", "logs cut"})) <= MaxLines
  <2> DEFINE L == LinesOf(ev, {"log", "logs cut"})
             m == Len(l)
  <2>1. L \subseteq 1..m /\ m \in Nat
    <3>1. \A j \in DOMAIN p : p[j].from \notin {"log", "logs cut"}
      BY <1>1 DEF From, Kinds
    <3>2. DOMAIN l = 1..m /\ m \in Nat
      BY <1>2
    <3> QED  BY <1>4, <3>1, <3>2 DEF LinesOf
  <2>2. m <= g.count
    BY <1>1
  <2> HIDE DEF L, m
  <2>3. IsFiniteSet(1..m) /\ Cardinality(1..m) = m
    <3>1. m \in Int /\ 1 \in Int /\ m >= 0
      BY <2>1
    <3> QED  BY <3>1, FS_Interval
  <2>4. IsFiniteSet(L) /\ Cardinality(L) <= m
    BY <2>1, <2>3, FS_Subset
  <2>5. Cardinality(L) \in Nat /\ MaxLines \in Nat
    BY <2>4, FS_CardinalityType, OutputAssumption
  <2>6. Cardinality(L) <= MaxLines
    <3> DEFINE x == Cardinality(L)
               y == g.count
    <3>1. /\ x \in Nat /\ m \in Nat /\ y \in Nat /\ MaxLines \in Nat
          /\ x <= m /\ m <= y /\ y <= MaxLines
      BY <1>1, <1>2, <2>1, <2>2, <2>4, <2>5
    <3> HIDE DEF x, y
    <3> QED  BY <3>1 DEF x
  <2> QED  BY <2>6 DEF L
<1>10. ASSUME g.warned PROVE LinesOf(ev, {"stdio cut"}) # {}
  BY <1>1, <1>4, <1>10 DEF LinesOf
<1>11. ASSUME HasAll(g, c), ~d.kept PROVE \A k \in Kinds : BytesOf(ev, {k}) = d.text[k]
  <2> SUFFICES ASSUME NEW k \in Kinds PROVE BytesOf(ev, {k}) = d.text[k]
    OBVIOUS
  <2>1. BytesOf(p, {k}) + Len(g.partial[k]) = c.text[k]
    BY <1>11 DEF HasAll, p
  <2>2. Len(g.partial[k]) = 0
    BY <1>11
  <2>3. BytesOf(ev, {k}) = BytesOf(p, {k}) /\ BytesOf(p, {k}) \in Nat
    BY <1>2, <1>6, <1>7, BytesOfType
  <2> QED  BY <2>1, <2>2, <2>3
<1>12. \/ d.kept \/ d.cut \/ LinesOf(ev, {"stdio cut"}) # {}
       \/ \A kind \in Kinds : BytesOf(ev, {kind}) = d.text[kind]
  BY <1>10, <1>11 DEF Telling
<1> HIDE DEF ev, span
<1> QED  BY <1>3, <1>5, <1>8, <1>9, <1>12 DEF TellsOne, own, Own, span, ev, l, p

-----------------------------------------------------------------------------
(* A HostState that has said nothing.                                      *)
Silent(u) == [uses |-> u, logs |-> <<>>, count |-> 0, partial |-> [k \in Kinds |-> <<>>],
              pending |-> <<>>, left |-> MaxBytes, warned |-> FALSE]

LEMMA FreshIsSilent ==
  ASSUME NEW u
  PROVE  NewHostState = Silent(0) /\ [NewHostState EXCEPT !.uses = u] = Silent(u)
<1> DEFINE w == FALSE
           e == <<>>
           pt == [k \in Kinds |-> <<>>]
           s(x) == [uses |-> x, logs |-> e, count |-> 0, partial |-> pt, pending |-> e,
                    left |-> MaxBytes, warned |-> w]
<1>1. NewHostState = s(0) /\ Silent(0) = s(0) /\ Silent(u) = s(u)
  BY Zenon DEF NewHostState, Silent
<1> HIDE DEF e, pt, w
<1>2. [s(0) EXCEPT !.uses = u] = s(u)
  OBVIOUS
<1> HIDE DEF s
<1> QED  BY <1>1, <1>2

LEMMA FreshTells ==
  ASSUME NEW u \in Nat, NEW own
  PROVE  Telling(Silent(u), Unheard, own)
<1> DEFINE g == Silent(u)
           e == <<>>
           pt == [k \in Kinds |-> e]
<1>1. /\ e \in Seq(Lines) /\ e \in Seq(Int) /\ Len(e) = 0 /\ DOMAIN e = {}
  OBVIOUS
<1>2. ToSet(e) = {}
  BY DEF ToSet
<1>3. \A K : LinesOf(e, K) = {}
  BY DEF LinesOf
<1>4. g = [uses |-> u, logs |-> e, count |-> 0, partial |-> pt, pending |-> e,
           left |-> MaxBytes, warned |-> FALSE]
  BY Zenon DEF Silent
<1> HIDE DEF e, g
<1>5. \A K : BytesOf(e, K) = 0
  BY <1>1, <1>3, BytesOfNone
<1>6. pt \in [Kinds -> Seq(Int)] /\ \A k \in Kinds : pt[k] = e
  BY <1>1
<1> HIDE DEF pt
<1>7. /\ g \in Guests /\ g.logs = e /\ g.count = 0 /\ g.partial = pt /\ g.pending = e
      /\ g.left = MaxBytes /\ g.warned = FALSE
  BY <1>1, <1>4, <1>6, OutputAssumption DEF Guests
<1>8. \A S : Within(e, own) /\ From(e, S)
  BY <1>1 DEF Within, From
<1>9. 0 <= MaxLines /\ 0 + MaxBytes <= MaxBytes /\ 0 <= MaxLine
  BY OutputAssumption
<1>10. Budgeted(g, own)
  <2>1. Len(e) <= 0
    BY <1>1
  <2> QED  BY <1>1, <1>5, <1>7, <1>8, <1>9, <2>1, Zenon DEF Budgeted
<1>11. Unfinished(g, own)
  BY <1>1, <1>2, <1>6, <1>7, <1>9 DEF Unfinished
<1>12. Unheard \in Heard /\ \A k \in Kinds : Unheard.text[k] = 0
  BY DEF Unheard, Heard
<1>13. HasAll(g, Unheard)
  BY <1>1, <1>5, <1>6, <1>7, <1>12 DEF HasAll
<1> QED  BY <1>10, <1>11, <1>12, <1>13 DEF Telling, g

(* What init may leave of a single-use instance.                           *)
LEMMA InitTells ==
  ASSUME NEW g \in InitOutput, NEW own \in SUBSET Nat, 0 \in own
  PROVE  \E c : Telling(g, c, own)
<1> DEFINE z == NewHostState
<1>1. Telling(z, Unheard, own)
  BY FreshIsSilent, FreshTells
<1>2. /\ <<0>> \in Seq(Int) /\ ToSet(<<0>>) \subseteq own /\ ToSet(<<0>>) \subseteq own \cup {NL}
  <2>1. ToSet(<<0>>) = {0}
    BY DEF ToSet
  <2> QED  BY <2>1
<1>3. "stdout" \in Kinds
  BY DEF Kinds
<1>4. g = z \/ g = LogAdmit(z, <<0>>) \/ g = write(z, "stdout", <<0>>)
  BY DEF InitOutput
<1> DEFINE b == <<0>>
           k == "stdout"
<1>5. g = z \/ g = LogAdmit(z, b) \/ g = write(z, k, b)
  BY <1>4
<1>6. b \in Seq(Int) /\ ToSet(b) \subseteq own /\ ToSet(b) \subseteq own \cup {NL} /\ k \in Kinds
  BY <1>2, <1>3
<1> HIDE DEF z, b, k
<1>7. Telling(LogAdmit(z, b), Unheard, own)
  BY <1>1, <1>6, LogTells
<1>8. Telling(write(z, k, b), Hears(Unheard, z, k, b), own)
  BY <1>1, <1>6, WriteTells
<1> QED  BY <1>1, <1>5, <1>7, <1>8

(* A call that starts hears what its guest has in hand.                    *)
LEMMA StartTells ==
  ASSUME NEW g, NEW c, NEW own, Telling(g, c, own)
  PROVE  Telling(g, [Unheard EXCEPT !.text = InHand(g)], own)
<1> DEFINE d == [Unheard EXCEPT !.text = InHand(g)]
<1>1. Budgeted(g, own) /\ Unfinished(g, own)
  BY DEF Telling
<1>2. \A k \in Kinds : InHand(g)[k] = BytesOf(g.pending, {k}) + Len(g.partial[k])
  BY DEF InHand
<1>3. InHand(g) \in [Kinds -> Nat]
  <2>1. g.pending \in Seq(Lines)
    BY <1>1, GuestShape DEF Budgeted
  <2>2. \A k \in Kinds : BytesOf(g.pending, {k}) \in Nat /\ Len(g.partial[k]) \in Nat
    BY <1>1, <2>1, BytesOfType, PartialShape
  <2>3. \A k \in Kinds : BytesOf(g.pending, {k}) + Len(g.partial[k]) \in Nat
    BY <2>2
  <2> QED  BY <2>3 DEF InHand
<1>4. d \in Heard /\ d.text = InHand(g)
  BY <1>3 DEF Unheard, Heard
<1> HIDE DEF d
<1>5. HasAll(g, d)
  BY <1>2, <1>4 DEF HasAll
<1> QED  BY <1>1, <1>4, <1>5 DEF Telling, d

-----------------------------------------------------------------------------
Outcomes == Decisions \cup Errors

Spans == [call : Nat, outcome : Outcomes, events : Seq(Lines), heard : Heard]

Told == {s \in Spans : TellsOne(s)}

OutputInv ==
  /\ made \in Nat /\ ring \in Seq(Told)
  /\ guest = NoGuest \/ guest \in Guests
  /\ ~lent.trusted /\ call = NoCall => guest = NoGuest
  /\ call # NoCall => Telling(guest, call, Own(made))

LEMMA EmitTold ==
  ASSUME ring \in Seq(Told), NEW n, NEW o, NEW ev, NEW d, Emit(n, o, ev, d),
         build_filter_span(n, o, ev, d) \in Told
  PROVE  ring' \in Seq(Told)
<1> DEFINE s == build_filter_span(n, o, ev, d)
           q == IF Len(ring) >= Retained THEN Tail(ring) ELSE ring
<1>1. q \in Seq(Told)
  <2>1. CASE Len(ring) >= Retained
    <3>1. ring # <<>>
      BY <2>1, OutputAssumption
    <3> QED  BY <2>1, <3>1, HeadTailProperties
  <2>2. CASE ~(Len(ring) >= Retained)
    BY <2>2
  <2> QED  BY <2>1, <2>2
<1>2. ring' = Append(q, s) \/ ring' = ring
  BY Zenon DEF Emit, Remember
<1> HIDE DEF q, s
<1>3. Append(q, s) \in Seq(Told)
  BY <1>1, AppendProperties DEF s
<1> QED  BY <1>2, <1>3

(* The span of one call, once its instance is kept or gone.                *)
LEMMA SpanTold ==
  ASSUME NEW g, NEW c, NEW n \in Nat, Telling(g, c, Own(n)), NEW o \in Outcomes,
         NEW d \in Heard, d.cut = c.cut, d.text = c.text,
         d.kept \/ \A k \in Kinds : g.partial[k] = <<>>
  PROVE  build_filter_span(n, o, g.logs \o g.pending, d) \in Told
<1> DEFINE ev == g.logs \o g.pending
<1>1. ev \in Seq(Lines)
  <2>1. g.logs \in Seq(Lines) /\ g.pending \in Seq(Lines)
    BY GuestShape DEF Telling, Budgeted
  <2> QED  BY <2>1, ConcatProperties
<1>2. TellsOne(build_filter_span(n, o, ev, d))
  BY SpanTells
<1> HIDE DEF ev
<1>3. build_filter_span(n, o, ev, d) \in Spans
  BY <1>1 DEF build_filter_span, Spans
<1> QED  BY <1>2, <1>3 DEF Told, ev

LEMMA FinalTold ==
  ASSUME NEW g, NEW c, NEW n \in Nat, Telling(g, c, Own(n)), NEW o \in Outcomes
  PROVE  build_filter_span(n, o, take_logs_final(g), c) \in Told
<1> DEFINE own == Own(n)
           x == flush_partial(g, "stdout")
           y == flush_partial(x, "stderr")
<1>0. Kinds = {"stdout", "stderr"}
  BY DEF Kinds
<1>1. Telling(x, c, own) /\ x.partial["stdout"] = <<>>
  BY <1>0, FlushTells
<1> HIDE DEF x
<1>2. Telling(y, c, own) /\ y.partial["stderr"] = <<>> /\ y.partial["stdout"] = x.partial["stdout"]
  <2>1. "stderr" \in Kinds /\ "stdout" \in Kinds \ {"stderr"}
    BY <1>0
  <2>2. /\ Telling(y, c, own) /\ y.partial["stderr"] = <<>>
        /\ \A k \in Kinds \ {"stderr"} : y.partial[k] = x.partial[k]
    BY <1>1, <2>1, FlushTells
  <2> QED  BY <2>1, <2>2
<1> HIDE DEF y
<1>3. \A k \in Kinds : y.partial[k] = <<>>
  BY <1>0, <1>1, <1>2
<1>4. y \in Guests /\ c \in Heard
  BY <1>2 DEF Telling, Budgeted
<1>5. drain(y).logs = y.logs \o y.pending
  BY <1>4 DEF drain, Guests
<1>6. take_logs_final(g) = y.logs \o y.pending
  BY <1>5 DEF take_logs_final, drain_final, x, y
<1>7. build_filter_span(n, o, y.logs \o y.pending, c) \in Told
  BY <1>2, <1>3, <1>4, SpanTold
<1> QED  BY <1>6, <1>7

LEMMA InitOutputs == CallInit => OutputInv
<1> SUFFICES ASSUME CallInit PROVE OutputInv
  OBVIOUS
<1>1. made = 0 /\ ring = <<>> /\ guest = NoGuest /\ call = NoCall
  BY DEF CallInit
<1>2. <<>> \in Seq(Told) /\ 0 \in Nat
  OBVIOUS
<1> QED  BY <1>1, <1>2, Zenon DEF OutputInv

LEMMA OutputStep ==
  ASSUME OutputInv, CallNext
  PROVE  OutputInv'
<1>1. /\ made \in Nat /\ ring \in Seq(Told) /\ (guest = NoGuest \/ guest \in Guests)
      /\ ~lent.trusted /\ call = NoCall => guest = NoGuest
      /\ call # NoCall => Telling(guest, call, Own(made))
  BY DEF OutputInv
<1>2. lent' = lent
  BY DEF CallNext, callVars, CallsMade, BeginCall, InstantiateFails, HostLog, CallTraps, StdioWrite,
         ReturnAndKeep, ReturnAndDiscard
<1>3. /\ \A n : Own(n)' = Own(n)
      /\ Told' = Told
  BY <1>2 DEF Own, Told, TellsOne
<1>4. \A n \in Nat : Own(n) \in SUBSET Nat
  BY DEF Own
<1>5. CASE CallsMade
  BY <1>1, <1>5, <1>2 DEF CallsMade, callVars, OutputInv, Own, Told, TellsOne
<1>6. CASE BeginCall
  <2>1. PICK built \in (IF guest = NoGuest THEN InitOutput ELSE {guest}) :
          /\ guest' = (IF lent.trusted THEN begin_request(built) ELSE built)
          /\ call' = [Unheard EXCEPT
                        !.text = InHand(IF lent.trusted THEN begin_request(built) ELSE built)]
    BY <1>6, Zenon DEF BeginCall
  <2>2. call = NoCall /\ made' = made + 1 /\ ring' = ring
    BY <1>6 DEF BeginCall
  <2> DEFINE n == made + 1
             own == Own(n)
  <2>3. n \in Nat /\ own \in SUBSET Nat /\ Own(made)' = own /\ made' = n
    <3>1. n \in Nat
      BY <1>1
    <3>2. Own(made)' = own
      BY <1>2, <2>2 DEF Own
    <3> QED  BY <1>4, <2>2, <3>1, <3>2
  <2>4. guest = NoGuest => built \in InitOutput
    BY <2>1
  <2>5. ASSUME lent.trusted PROVE \E c : Telling(guest', c, own)
    <3>1. guest' = Silent(built.uses)
      BY <2>1, <2>5, FreshIsSilent DEF begin_request
    <3>2. built.uses \in Nat
      <4>1. CASE guest # NoGuest
        BY <1>1, <2>1, <4>1, GuestShape
      <4>2. CASE guest = NoGuest
        <5> DEFINE some == {0}
        <5>1. some \in SUBSET Nat /\ 0 \in some
          OBVIOUS
        <5> HIDE DEF some
        <5>2. \E c : Telling(built, c, some)
          BY <2>4, <4>2, <5>1, InitTells
        <5> QED  BY <5>2, GuestShape DEF Telling, Budgeted
      <4> QED  BY <4>1, <4>2
    <3> HIDE DEF own
    <3>3. Telling(guest', Unheard, own)
      BY <3>1, <3>2, FreshTells
    <3> QED  BY <3>3
  <2>6. ASSUME ~lent.trusted PROVE \E c : Telling(guest', c, own)
    <3>1. built \in InitOutput /\ guest' = built
      BY <1>1, <2>1, <2>2, <2>4, <2>6
    <3>2. 0 \in own
      BY <2>6 DEF Own
    <3> HIDE DEF own
    <3> QED  BY <2>3, <3>1, <3>2, InitTells
  <2> HIDE DEF own, n
  <2>7. PICK c : Telling(guest', c, own)
    BY <2>5, <2>6
  <2>8. call' = [Unheard EXCEPT !.text = InHand(guest')]
    BY <2>1
  <2>9. Telling(guest', call', own)
    BY <2>7, <2>8, StartTells
  <2>10. guest' \in Guests
    BY <2>7 DEF Telling, Budgeted
  <2>11. ring' \in Seq(Told)'
    BY <1>1, <1>3, <2>2
  <2>12. call' # NoCall
    BY <2>9, OutputAssumption DEF Telling
  <2> QED  BY <2>3, <2>9, <2>10, <2>11, <2>12 DEF OutputInv
<1>7. CASE InstantiateFails
  <2> DEFINE n == made + 1
             o == "instantiate-error"
  <2>1. /\ call' = call /\ guest' = guest /\ made' = n /\ call = NoCall
        /\ Emit(n, o, <<>>, Unheard)
    BY <1>7 DEF InstantiateFails
  <2>2. n \in Nat /\ o \in Outcomes
    BY <1>1 DEF Outcomes, Errors
  <2> DEFINE z == Silent(0)
  <2>3. Telling(z, Unheard, Own(n)) /\ Unheard \in Heard
    BY FreshTells DEF Telling
  <2>4. z.logs \o z.pending = <<>> /\ \A k \in Kinds : z.partial[k] = <<>>
    BY DEF Silent
  <2> HIDE DEF z, n, o
  <2>5. build_filter_span(n, o, <<>>, Unheard) \in Told
    <3>1. build_filter_span(n, o, z.logs \o z.pending, Unheard) \in Told
      BY <2>2, <2>3, <2>4, SpanTold
    <3> QED  BY <2>4, <3>1
  <2>6. ring' \in Seq(Told)'
    BY <1>1, <1>3, <2>1, <2>5, EmitTold
  <2> QED  BY <1>1, <1>2, <2>1, <2>2, <2>6 DEF OutputInv
<1>8. CASE HostLog
  <2>1. /\ call # NoCall /\ guest' = LogAdmit(guest, <<made>>)
        /\ call' = call /\ made' = made /\ ring' = ring
    BY <1>8 DEF HostLog
  <2> DEFINE own == Own(made)
             b == <<made>>
  <2>2. b \in Seq(Int) /\ ToSet(b) \subseteq own
    <3>1. ToSet(<<made>>) = {made}
      BY DEF ToSet
    <3> QED  BY <1>1, <3>1 DEF Own
  <2>3. Telling(guest, call, own)
    BY <1>1, <2>1
  <2>4. own' = own
    BY <1>2, <2>1 DEF Own
  <2> HIDE DEF own, b
  <2>5. Telling(LogAdmit(guest, b), call, own)
    BY <2>2, <2>3, LogTells
  <2>6. Telling(guest', call', own')
    BY <2>1, <2>4, <2>5 DEF b
  <2>7. guest' \in Guests
    BY <2>6 DEF Telling, Budgeted
  <2> QED  BY <1>1, <1>3, <2>1, <2>6, <2>7 DEF OutputInv, own
<1>9. ASSUME NEW kind \in Kinds, NEW bytes \in Chunks(made), StdioWrite(kind, bytes)
      PROVE  OutputInv'
  <2>1. /\ call # NoCall /\ guest' = write(guest, kind, bytes)
        /\ call' = Hears(call, guest, kind, bytes) /\ made' = made /\ ring' = ring
    BY <1>9 DEF StdioWrite, Hears
  <2> DEFINE own == Own(made)
  <2>2. bytes \in Seq(Int) /\ ToSet(bytes) \subseteq own \cup {NL}
    <3> DEFINE long == [i \in 1..(MaxLine + 1) |-> made]
    <3>1. made \in Int /\ NL \in Int /\ made \in own /\ MaxLine + 1 \in Nat
      BY <1>1, OutputAssumption DEF NL, Own
    <3>2. CASE bytes = long
      <4>1. long \in Seq(Int) /\ \A i \in DOMAIN long : long[i] = made
        BY <3>1
      <4> HIDE DEF long
      <4> QED  BY <3>1, <3>2, <4>1 DEF ToSet
    <3>3. CASE bytes \in {<<made>>, <<made, NL>>, <<NL>>}
      <4>1. bytes \in Seq(Int) /\ \A i \in DOMAIN bytes : bytes[i] \in {made, NL}
        <5>1. CASE bytes = <<made>>
          BY <3>1, <5>1
        <5>2. CASE bytes = <<made, NL>>
          BY <3>1, <5>2
        <5>3. CASE bytes = <<NL>>
          BY <3>1, <5>3
        <5> QED  BY <3>3, <5>1, <5>2, <5>3
      <4> QED  BY <3>1, <4>1 DEF ToSet
    <3> QED  BY <1>9, <3>2, <3>3 DEF Chunks
  <2>3. Telling(guest, call, own) /\ own \in SUBSET Nat
    BY <1>1, <1>4, <2>1
  <2>4. own' = own
    BY <1>2, <2>1 DEF Own
  <2> HIDE DEF own
  <2>5. Telling(write(guest, kind, bytes), Hears(call, guest, kind, bytes), own)
    BY <2>2, <2>3, WriteTells
  <2>6. Telling(guest', call', own')
    BY <2>1, <2>4, <2>5
  <2>7. guest' \in Guests /\ call' # NoCall
    BY <2>6, OutputAssumption DEF Telling, Budgeted
  <2> QED  BY <1>1, <1>3, <2>1, <2>6, <2>7 DEF OutputInv, own
<1>10. ASSUME NEW o \in Outcomes, Emit(made, o, take_logs_final(guest), call),
              guest' = NoGuest, call' = NoCall, made' = made, call # NoCall
       PROVE  OutputInv'
  <2>1. build_filter_span(made, o, take_logs_final(guest), call) \in Told
    BY <1>1, <1>10, FinalTold
  <2>2. ring' \in Seq(Told)'
    BY <1>1, <1>3, <1>10, <2>1, EmitTold
  <2> QED  BY <1>1, <1>10, <2>2 DEF OutputInv
<1>11. CASE CallTraps
  <2> DEFINE o == "trap"
  <2>1. o \in Outcomes
    BY DEF Outcomes, Errors
  <2>2. /\ Emit(made, o, take_logs_final(guest), call)
        /\ guest' = NoGuest /\ call' = NoCall /\ made' = made /\ call # NoCall
    BY <1>11 DEF CallTraps
  <2> HIDE DEF o
  <2> QED  BY <1>10, <2>1, <2>2
<1>12. ASSUME NEW o \in Decisions, ReturnAndDiscard(o) PROVE OutputInv'
  <2>1. o \in Outcomes
    BY DEF Outcomes
  <2>2. /\ Emit(made, o, take_logs_final(guest), call)
        /\ guest' = NoGuest /\ call' = NoCall /\ made' = made /\ call # NoCall
    BY <1>12 DEF ReturnAndDiscard
  <2> QED  BY <1>10, <2>1, <2>2
<1>13. ASSUME NEW o \in Decisions, ReturnAndKeep(o) PROVE OutputInv'
  <2> DEFINE d == [call EXCEPT !.kept = TRUE]
  <2>1. o \in Outcomes
    BY DEF Outcomes
  <2>2. /\ Emit(made, o, take_logs(guest), d) /\ lent.trusted
        /\ guest' = [drain(guest) EXCEPT !.uses = @ + 1, !.logs = <<>>]
        /\ call' = NoCall /\ made' = made /\ call # NoCall
    BY <1>13 DEF ReturnAndKeep
  <2>3. Telling(guest, call, Own(made)) /\ guest \in Guests /\ call \in Heard
    BY <1>1, <2>2 DEF Telling, Budgeted
  <2>4. d \in Heard /\ d.cut = call.cut /\ d.text = call.text /\ d.kept
    BY <2>3 DEF Heard
  <2>5. take_logs(guest) = guest.logs \o guest.pending
    BY <2>3 DEF take_logs, drain, Guests
  <2> HIDE DEF d
  <2>6. build_filter_span(made, o, guest.logs \o guest.pending, d) \in Told
    BY <1>1, <2>1, <2>3, <2>4, SpanTold
  <2>7. ring' \in Seq(Told)'
    BY <1>1, <1>3, <2>2, <2>5, <2>6, EmitTold
  <2>8. guest' \in Guests
    <3>1. <<>> \in Seq(Lines) /\ guest.logs \o guest.pending \in Seq(Lines)
      BY <2>3, GuestShape, ConcatProperties
    <3> DEFINE l == guest.logs \o guest.pending
               e == <<>>
    <3>2. drain(guest) = [guest EXCEPT !.pending = e, !.logs = l]
      BY DEF drain
    <3>3. guest' = [drain(guest) EXCEPT !.uses = @ + 1, !.logs = e] /\ e \in Seq(Lines) /\ l \in Seq(Lines)
      BY <2>2, <3>1
    <3> HIDE DEF l, e
    <3>4. drain(guest) \in Guests
      BY <2>3, <3>2, <3>3 DEF Guests
    <3> DEFINE h == drain(guest)
               u == h.uses + 1
    <3>5. h \in Guests /\ u \in Nat /\ guest' = [h EXCEPT !.uses = u, !.logs = e]
      BY <3>3, <3>4, GuestShape
    <3> HIDE DEF h, u
    <3> QED  BY <3>3, <3>5 DEF Guests
  <2> QED  BY <1>1, <1>2, <2>2, <2>7, <2>8 DEF OutputInv
<1> QED  BY <1>5, <1>6, <1>7, <1>8, <1>9, <1>11, <1>12, <1>13 DEF CallNext

(* A pooled instance hands no call the output of another, also when a call *)
(* left a line unfinished; and whatever mix of log calls, short writes,    *)
(* overlong lines and traps a call makes, its span stays inside the two    *)
(* budgets and misses nothing without saying so (stdio.rs, state.rs,       *)
(* pool.rs): for any budgets and any number of calls.                      *)
THEOREM OutputIsOwn == HostSpec => []OwnOutput
<1> DEFINE all == <<part, vars, storeVars, callVars>>
<1>1. HostInit => OutputInv
  BY InitOutputs DEF HostInit
<1>2. OutputInv /\ [HostNext]_all => OutputInv'
  <2> SUFFICES ASSUME OutputInv, [HostNext]_all PROVE OutputInv'
    OBVIOUS
  <2>1. CASE UNCHANGED callVars
    BY <2>1 DEF callVars, OutputInv, Own, Told, TellsOne
  <2>2. CASE CallNext
    BY <2>2, OutputStep
  <2> QED  BY <2>1, <2>2 DEF HostNext
<1>3. OutputInv => OwnOutput
  BY DEF OutputInv, OwnOutput, Told
<1> QED  BY <1>1, <1>2, <1>3, PTL DEF HostSpec

-----------------------------------------------------------------------------
(* The policy.  An address that passes is in no forbidden range, whichever *)
(* way it is written and whether or not its IPv4-mapped form was unwrapped *)
(* before the check (outbound.rs classify over canonicalize).              *)
LEMMA CanonicalKeepsRange ==
  ASSUME NEW a \in Addrs
  PROVE  /\ Canonicalize(a).range = a.range /\ Canonicalize(a).wrap = "none"
         /\ Canonicalize(ToCanonical(a)) = Canonicalize(a)
  <1>1. a \in [range : Ranges, wrap : Wraps]  BY PolicyAssumption
  <1> QED  BY <1>1 DEF Canonicalize, ToCanonical

LEMMA AllowedIsNotForbidden ==
  ASSUME NEW a \in Addrs, Classify(a) = "Allowed"
  PROVE  ~ Forbidden(a)
  <1>1. Canonicalize(a).range = a.range /\ Canonicalize(a).wrap = "none"
    BY CanonicalKeepsRange
  <1> QED  BY <1>1 DEF Classify, AlwaysBlocked, IsPrivate, Forbidden

LEMMA AllowedCanonicalIsNotForbidden ==
  ASSUME NEW a \in Addrs, Classify(ToCanonical(a)) = "Allowed"
  PROVE  ~ Forbidden(a)
  <1>1. Classify(a) = "Allowed"  BY CanonicalKeepsRange DEF Classify
  <1> QED  BY <1>1, AllowedIsNotForbidden

-----------------------------------------------------------------------------
(* Counting.  OwingOf is Owing of a given function.                        *)
OwingOf(f) == UNION {{t} \X (1..f[t]) : t \in Stores}

LEMMA Column ==
  ASSUME NEW x, NEW n \in Nat
  PROVE  IsFiniteSet({x} \X (1..n)) /\ Cardinality({x} \X (1..n)) = n
  <1>1. IsFiniteSet({x}) /\ Cardinality({x}) = 1  BY FS_Singleton
  <1>2. IsFiniteSet(1..n) /\ Cardinality(1..n) = n  BY FS_Interval
  <1>3. /\ IsFiniteSet({x} \X (1..n))
        /\ Cardinality({x} \X (1..n)) = Cardinality({x}) * Cardinality(1..n)
    BY <1>1, <1>2, FS_Product
  <1> QED  BY <1>1, <1>2, <1>3

LEMMA OwingIsFinite ==
  ASSUME NEW f \in [Stores -> Nat]
  PROVE  IsFiniteSet(OwingOf(f)) /\ Cardinality(OwingOf(f)) \in Nat
  <1> DEFINE col == [t \in Stores |-> {t} \X (1..f[t])]
             cols == {{t} \X (1..f[t]) : t \in Stores}
  <1>1. col \in Surjection(Stores, cols)  BY DEF Surjection
  <1>2. IsFiniteSet(cols)  BY <1>1, FS_Surjection, SocketsAssumption
  <1>3. ASSUME NEW c \in cols PROVE IsFiniteSet(c)
    <2>1. PICK t \in Stores : c = {t} \X (1..f[t])  BY <1>3
    <2>2. f[t] \in Nat  OBVIOUS
    <2> QED  BY <2>1, <2>2, Column
  <1>4. IsFiniteSet(UNION cols)  BY <1>2, <1>3, FS_UNION
  <1> QED  BY <1>4, FS_CardinalityType DEF OwingOf

(* Changing what one Store owes changes the total by the difference.       *)
LEMMA OwingChanges ==
  ASSUME NEW f \in [Stores -> Nat], NEW s \in Stores, NEW n \in Nat
  PROVE  /\ Cardinality(OwingOf([f EXCEPT ![s] = n]))
              = Cardinality(OwingOf(f)) - f[s] + n
         /\ Cardinality(OwingOf(f)) >= f[s]
  <1> DEFINE z == [f EXCEPT ![s] = 0]
  <1>1. z \in [Stores -> Nat]  OBVIOUS
  <1>2. ASSUME NEW g \in [Stores -> Nat], \A t \in Stores : t # s => g[t] = f[t]
        PROVE  Cardinality(OwingOf(g)) = Cardinality(OwingOf(z)) + g[s]
    <2> DEFINE c == {s} \X (1..g[s])
    <2>1. OwingOf(g) = OwingOf(z) \cup c
      <3>1. ASSUME NEW x \in OwingOf(g) PROVE x \in OwingOf(z) \cup c
        <4>1. PICK t \in Stores : x \in {t} \X (1..g[t])  BY <3>1 DEF OwingOf
        <4>2. CASE t = s  BY <4>1, <4>2
        <4>3. CASE t # s
          <5>1. z[t] = g[t]  BY <1>2, <4>3
          <5>2. x \in {t} \X (1..z[t])  BY <4>1, <5>1
          <5> QED  BY <5>2 DEF OwingOf
        <4> QED  BY <4>2, <4>3
      <3>2. ASSUME NEW x \in OwingOf(z) PROVE x \in OwingOf(g)
        <4>1. PICK t \in Stores : x \in {t} \X (1..z[t])  BY <3>2 DEF OwingOf
        <4>2. CASE t = s
          <5>1. z[t] = 0  BY <4>2
          <5>2. 1..z[t] = {}  BY <5>1
          <5> QED  BY <4>1, <5>2
        <4>3. CASE t # s
          <5>1. z[t] = g[t]  BY <1>2, <4>3
          <5>2. x \in {t} \X (1..g[t])  BY <4>1, <5>1
          <5> QED  BY <5>2 DEF OwingOf
        <4> QED  BY <4>2, <4>3
      <3>3. c \subseteq OwingOf(g)  BY DEF OwingOf
      <3> QED  BY <3>1, <3>2, <3>3
    <2>2. OwingOf(z) \cap c = {}
      <3>1. ASSUME NEW x \in OwingOf(z), x \in c PROVE FALSE
        <4>1. PICK t \in Stores : x \in {t} \X (1..z[t])  BY <3>1 DEF OwingOf
        <4>2. x[1] = t /\ x[2] \in 1..z[t]  BY <4>1
        <4>3. t = s  BY <3>1, <4>2
        <4>4. z[t] = 0  BY <4>3
        <4> QED  BY <4>2, <4>4
      <3> QED  BY <3>1
    <2>3. g[s] \in Nat  OBVIOUS
    <2>4. IsFiniteSet(c) /\ Cardinality(c) = g[s]  BY <2>3, Column
    <2>5. IsFiniteSet(OwingOf(z)) /\ Cardinality(OwingOf(z)) \in Nat
      BY <1>1, OwingIsFinite
    <2> HIDE DEF c, z
    <2>6. Cardinality(OwingOf(z) \cup c)
            = Cardinality(OwingOf(z)) + Cardinality(c) - Cardinality({})
      BY <2>2, <2>4, <2>5, FS_Union
    <2> QED  BY <2>1, <2>3, <2>4, <2>5, <2>6, FS_EmptySet
  <1>3. [f EXCEPT ![s] = n] \in [Stores -> Nat] /\ [f EXCEPT ![s] = n][s] = n
        /\ \A t \in Stores : t # s => [f EXCEPT ![s] = n][t] = f[t]
    OBVIOUS
  <1>4. Cardinality(OwingOf(z)) \in Nat  BY <1>1, OwingIsFinite
  <1> HIDE DEF z
  <1>5. Cardinality(OwingOf([f EXCEPT ![s] = n])) = Cardinality(OwingOf(z)) + n
    BY <1>2, <1>3
  <1>6. Cardinality(OwingOf(f)) = Cardinality(OwingOf(z)) + f[s]
    BY <1>2
  <1>7. f[s] \in Nat  OBVIOUS
  <1> QED  BY <1>4, <1>5, <1>6, <1>7

LEMMA SocketsAreFinite ==
  /\ IsFiniteSet(Descriptors) /\ Cardinality(Descriptors) \in Nat
  /\ \A s : IsFiniteSet(Taken(s)) /\ Cardinality(Taken(s)) \in Nat
  <1>1. IsFiniteSet(Stores \X Socks)  BY SocketsAssumption, FS_Product
  <1>2. Descriptors \in SUBSET (Stores \X Socks)  BY DEF Descriptors
  <1>3. IsFiniteSet(Descriptors)  BY <1>1, <1>2, FS_Subset
  <1>4. ASSUME NEW s PROVE IsFiniteSet(Taken(s)) /\ Cardinality(Taken(s)) \in Nat
    <2>1. Taken(s) \in SUBSET Socks  BY DEF Taken
    <2>2. IsFiniteSet(Taken(s))  BY <2>1, FS_Subset, SocketsAssumption
    <2> QED  BY <2>2, FS_CardinalityType
  <1> QED  BY <1>3, <1>4, FS_CardinalityType

LiveBit(r) == IF r.st = "live" THEN 1 ELSE 0
TakenBit(r) == IF r.st # "free" THEN 1 ELSE 0

LEMMA SetSock ==
  ASSUME TcpTypeOK, NEW s \in Stores, NEW k \in Socks, NEW r \in Sockets, Set(s, k, r)
  PROVE  /\ sock' \in [Stores -> [Socks -> Sockets]]
         /\ sock'[s][k] = r
         /\ \A j \in Socks : j # k => sock'[s][j] = sock[s][j]
         /\ \A t \in Stores : t # s => sock'[t] = sock[t]
  BY DEF TcpTypeOK, Set

(* Writing one socket moves the two counts by what that socket is worth.   *)
LEMMA SetCounts ==
  ASSUME TcpTypeOK, NEW s \in Stores, NEW k \in Socks, NEW r \in Sockets, Set(s, k, r)
  PROVE  /\ Cardinality(Descriptors')
              = Cardinality(Descriptors) - LiveBit(sock[s][k]) + LiveBit(r)
         /\ Cardinality(Taken(s)')
              = Cardinality(Taken(s)) - TakenBit(sock[s][k]) + TakenBit(r)
         /\ \A t \in Stores : t # s => Taken(t)' = Taken(t)
  <1>1. /\ sock'[s][k] = r
        /\ \A j \in Socks : j # k => sock'[s][j] = sock[s][j]
        /\ \A t \in Stores : t # s => sock'[t] = sock[t]
    BY SetSock
  <1>2. \A d \in Stores \X Socks :
           d # <<s, k>> => sock'[d[1]][d[2]] = sock[d[1]][d[2]]
    BY <1>1
  <1>3. Descriptors' = IF r.st = "live" THEN Descriptors \cup {<<s, k>>}
                                        ELSE Descriptors \ {<<s, k>>}
    BY <1>1, <1>2 DEF Descriptors
  <1>4. <<s, k>> \in Descriptors <=> sock[s][k].st = "live"
    BY DEF Descriptors
  <1>5. Cardinality(Descriptors')
          = Cardinality(Descriptors) - LiveBit(sock[s][k]) + LiveBit(r)
    <2>1. Cardinality(Descriptors) \in Nat  BY SocketsAreFinite
    <2>2. Cardinality(Descriptors \cup {<<s, k>>})
            = IF <<s, k>> \in Descriptors THEN Cardinality(Descriptors)
                                          ELSE Cardinality(Descriptors) + 1
      BY SocketsAreFinite, FS_AddElement
    <2>3. Cardinality(Descriptors \ {<<s, k>>})
            = IF <<s, k>> \in Descriptors THEN Cardinality(Descriptors) - 1
                                          ELSE Cardinality(Descriptors)
      BY SocketsAreFinite, FS_RemoveElement
    <2>4. CASE r.st = "live"  BY <1>3, <1>4, <2>1, <2>2, <2>4 DEF LiveBit
    <2>5. CASE r.st # "live"  BY <1>3, <1>4, <2>1, <2>3, <2>5 DEF LiveBit
    <2> QED  BY <2>4, <2>5
  <1>6. Taken(s)' = IF r.st # "free" THEN Taken(s) \cup {k} ELSE Taken(s) \ {k}
    BY <1>1 DEF Taken
  <1>7. k \in Taken(s) <=> sock[s][k].st # "free"  BY DEF Taken
  <1>8. Cardinality(Taken(s)')
          = Cardinality(Taken(s)) - TakenBit(sock[s][k]) + TakenBit(r)
    <2>1. Cardinality(Taken(s)) \in Nat  BY SocketsAreFinite
    <2>2. Cardinality(Taken(s) \cup {k})
            = IF k \in Taken(s) THEN Cardinality(Taken(s)) ELSE Cardinality(Taken(s)) + 1
      BY SocketsAreFinite, FS_AddElement
    <2>3. Cardinality(Taken(s) \ {k})
            = IF k \in Taken(s) THEN Cardinality(Taken(s)) - 1 ELSE Cardinality(Taken(s))
      BY SocketsAreFinite, FS_RemoveElement
    <2>4. CASE r.st # "free"  BY <1>6, <1>7, <2>1, <2>2, <2>4 DEF TakenBit
    <2>5. CASE r.st = "free"  BY <1>6, <1>7, <2>1, <2>3, <2>5 DEF TakenBit
    <2> QED  BY <2>4, <2>5
  <1>9. \A t \in Stores : t # s => Taken(t)' = Taken(t)  BY <1>1 DEF Taken
  <1> QED  BY <1>5, <1>8, <1>9

LEMMA AccountingStep ==
  ASSUME TcpTypeOK, SocketsAccounted,
         NEW s \in Stores, NEW k \in Socks, NEW r \in Sockets, Set(s, k, r),
         owed'[s] \in Nat, owed' = [owed EXCEPT ![s] = owed'[s]],
         live_sockets'[s] = live_sockets[s] - TakenBit(sock[s][k]) + TakenBit(r),
         \A t \in Stores : t # s => live_sockets'[t] = live_sockets[t],
         used' = used - LiveBit(sock[s][k]) + LiveBit(r) - owed[s] + owed'[s],
         used' <= HostCap
  PROVE  SocketsAccounted'
  <1>1. /\ live_sockets \in [Stores -> Nat] /\ owed \in [Stores -> Nat] /\ used \in Nat
        /\ owed[s] \in Nat
    BY DEF TcpTypeOK
  <1>2. ASSUME NEW t \in Stores PROVE live_sockets'[t] = Cardinality(Taken(t)')
    <2>1. live_sockets[t] = Cardinality(Taken(t))  BY DEF SocketsAccounted
    <2>2. CASE t # s
      BY <2>1, <2>2, SetCounts
    <2>3. CASE t = s
      BY <2>1, <2>3, SetCounts
    <2> QED  BY <2>2, <2>3
  <1>3. Unsettled = OwingOf(owed) /\ Unsettled' = OwingOf([owed EXCEPT ![s] = owed'[s]])
    BY DEF Unsettled, OwingOf
  <1>4. Cardinality(Unsettled') = Cardinality(Unsettled) - owed[s] + owed'[s]
    BY <1>1, <1>3, OwingChanges
  <1>5. Cardinality(Unsettled) \in Nat /\ Cardinality(Descriptors) \in Nat
    BY <1>1, <1>3, OwingIsFinite, SocketsAreFinite
  <1>6. used = Cardinality(Descriptors) + Cardinality(Unsettled)  BY DEF SocketsAccounted
  <1>7. /\ LiveBit(sock[s][k]) \in Nat /\ LiveBit(r) \in Nat
        /\ Cardinality(Descriptors')
             = Cardinality(Descriptors) - LiveBit(sock[s][k]) + LiveBit(r)
    BY SetCounts DEF LiveBit
  <1>8. used' = Cardinality(Descriptors') + Cardinality(Unsettled')
    BY <1>1, <1>4, <1>5, <1>6, <1>7
  <1> QED  BY <1>2, <1>8 DEF SocketsAccounted

-----------------------------------------------------------------------------
(* The invariant of the TCP side.  Besides what is to be shown: a Store    *)
(* reserves one socket at a time and owes the host nothing meanwhile, and  *)
(* whoever holds a handle or a stream half holds a live socket.            *)
HalfWay ==
  \A s \in Stores, k \in Socks :
    sock[s][k].st = "wanted" =>
      owed[s] = 0 /\ \A j \in Socks : sock[s][j].st = "wanted" => j = k
HoldersLive ==
  \A s \in Stores, k \in Socks :
    sock[s][k].handle \/ sock[s][k].halves > 0 => sock[s][k].st = "live"
TcpIInv ==
  TcpTypeOK /\ SocketsAccounted /\ TcpPeersVetted /\ HalfWay /\ HoldersLive

(* TcpPeersVetted of one peer.                                             *)
Vouched(peer, pins) ==
  /\ ~ Forbidden(peer[1])
  /\ \E e \in Allow : /\ e.port = peer[2]
                      /\ e.host = ToCanonical(peer[1])
                         \/ <<ToCanonical(peer[1]), e.host>> \in pins

LEMMA VettedIsVouched ==
  TcpPeersVetted <=> \A s \in Stores, k \in Socks :
                       sock[s][k].peer # Nobody => Vouched(sock[s][k].peer, pinned[s])
  BY DEF TcpPeersVetted, Vouched

LEMMA VettedIsVouchedNext ==
  TcpPeersVetted' <=> \A s \in Stores, k \in Socks :
                       sock'[s][k].peer # Nobody => Vouched(sock'[s][k].peer, pinned'[s])
  BY DEF TcpPeersVetted, Vouched, Forbidden, ToCanonical

LEMMA FreeIsSocket == Free \in Sockets
  BY DEF Free, Sockets

LEMMA TcpInitInv == TcpInit => TcpIInv
  <1> SUFFICES ASSUME TcpInit PROVE TcpIInv
    OBVIOUS
  <1>1. \A s \in Stores, k \in Socks : sock[s][k] = Free  BY DEF TcpInit
  <1>2. TcpTypeOK
    <2>1. sock \in [Stores -> [Socks -> Sockets]]  BY FreeIsSocket DEF TcpInit
    <2> QED  BY <2>1, SocketsAssumption DEF TcpInit, TcpTypeOK
  <1>3. SocketsAccounted
    <2>1. Descriptors = {} /\ \A s \in Stores : Taken(s) = {}
      BY <1>1 DEF Descriptors, Taken, Free
    <2>2. Unsettled = {}
      <3>1. \A s \in Stores : owed[s] = 0  BY DEF TcpInit
      <3>2. ASSUME NEW x \in Unsettled PROVE FALSE
        <4>1. PICK s \in Stores : x \in {s} \X (1..owed[s])  BY <3>2 DEF Unsettled
        <4>2. x[2] \in 1..0  BY <3>1, <4>1
        <4> QED  BY <4>2
      <3> QED  BY <3>2
    <2>3. Cardinality({}) = 0  BY FS_EmptySet
    <2>4. used = 0 /\ \A s \in Stores : live_sockets[s] = 0  BY DEF TcpInit
    <2>5. Cardinality(Descriptors) = 0 /\ Cardinality(Unsettled) = 0  BY <2>1, <2>2, <2>3
    <2>6. \A s \in Stores : live_sockets[s] = Cardinality(Taken(s))  BY <2>1, <2>3, <2>4
    <2>7. used <= HostCap  BY <2>4, SocketsAssumption
    <2> QED  BY <2>4, <2>5, <2>6, <2>7 DEF SocketsAccounted
  <1>4. TcpPeersVetted /\ HalfWay /\ HoldersLive
    BY <1>1 DEF Free, TcpPeersVetted, HalfWay, HoldersLive
  <1> QED  BY <1>2, <1>3, <1>4 DEF TcpIInv

(* What a step that writes one socket of a Store has to show besides the   *)
(* accounting.                                                             *)
LEMMA OthersStay ==
  ASSUME TcpIInv, NEW s \in Stores, NEW k \in Socks, NEW r \in Sockets, Set(s, k, r),
         pinned' = pinned,
         r.handle \/ r.halves > 0 => r.st = "live",
         r.st = "wanted" => \A j \in Socks : sock[s][j].st # "wanted",
         \A t \in Stores : owed[t] = 0 => owed'[t] = 0 \/
            (t = s /\ r.st # "wanted" /\ \A j \in Socks : j # k => sock[s][j].st # "wanted"),
         r.st = "wanted" => owed'[s] = 0,
         r.peer # Nobody =>
           r.peer = sock[s][k].peer \/ Vouched(r.peer, pinned[s])
  PROVE  HalfWay' /\ HoldersLive' /\ TcpPeersVetted'
  <1>1. /\ sock'[s][k] = r
        /\ \A j \in Socks : j # k => sock'[s][j] = sock[s][j]
        /\ \A t \in Stores : t # s => sock'[t] = sock[t]
    BY SetSock DEF TcpIInv
  <1>2. HalfWay'
    <2> SUFFICES ASSUME NEW t \in Stores, NEW i \in Socks, sock'[t][i].st = "wanted"
                 PROVE  owed'[t] = 0 /\ \A j \in Socks : sock'[t][j].st = "wanted" => j = i
      BY DEF HalfWay
    <2>1. CASE t # s  BY <1>1, <2>1 DEF TcpIInv, HalfWay
    <2>2. CASE t = s /\ i = k  BY <1>1, <2>2
    <2>3. CASE t = s /\ i # k
      <3>1. sock[s][i].st = "wanted"  BY <1>1, <2>3
      <3>2. r.st # "wanted"  BY <3>1
      <3>3. owed[s] = 0 /\ \A j \in Socks : sock[s][j].st = "wanted" => j = i
        BY <3>1 DEF TcpIInv, HalfWay
      <3>4. owed'[s] = 0  BY <2>3, <3>1, <3>3
      <3> QED  BY <1>1, <2>3, <3>2, <3>3, <3>4
    <2> QED  BY <2>1, <2>2, <2>3
  <1>3. HoldersLive'  BY <1>1 DEF TcpIInv, HoldersLive
  <1>4. TcpPeersVetted'
    <2> SUFFICES ASSUME NEW t \in Stores, NEW i \in Socks, sock'[t][i].peer # Nobody
                 PROVE  Vouched(sock'[t][i].peer, pinned'[t])
      BY VettedIsVouchedNext
    <2>1. CASE sock'[t][i].peer = sock[t][i].peer
      BY <2>1, VettedIsVouched DEF TcpIInv
    <2>2. CASE sock'[t][i].peer # sock[t][i].peer
      <3>1. t = s /\ i = k  BY <1>1, <2>2
      <3> QED  BY <1>1, <2>2, <3>1
    <2> QED  BY <2>1, <2>2
  <1> QED  BY <1>2, <1>3, <1>4

(* A step that writes one socket of a Store, what it gives back or takes   *)
(* in the counters, and what the new record may say.                       *)
LEMMA OneSocketStep ==
  ASSUME TcpIInv, NEW s \in Stores, NEW k \in Socks, NEW r \in Sockets, Set(s, k, r),
         pinned' = pinned, looking' = looking, connects' \in [Stores -> 0..MaxConnections],
         live_sockets' = [live_sockets EXCEPT ![s] = live_sockets'[s]],
         live_sockets'[s] = live_sockets[s] - TakenBit(sock[s][k]) + TakenBit(r),
         owed'[s] \in Nat, owed' = [owed EXCEPT ![s] = owed'[s]],
         used' \in Nat, used' <= HostCap,
         used' = used - LiveBit(sock[s][k]) + LiveBit(r) - owed[s] + owed'[s],
         r.handle \/ r.halves > 0 => r.st = "live",
         r.st = "wanted" => owed'[s] = 0 /\ \A j \in Socks : sock[s][j].st # "wanted",
         \/ owed'[s] = owed[s]
         \/ r.st # "wanted" /\ \A j \in Socks : j # k => sock[s][j].st # "wanted",
         r.peer # Nobody => r.peer = sock[s][k].peer \/ Vouched(r.peer, pinned[s])
  PROVE  TcpIInv'
  <1>1. /\ live_sockets \in [Stores -> Nat] /\ owed \in [Stores -> Nat]
        /\ looking \in [Stores -> Names \cup {Nobody, "aborted"}]
        /\ pinned \in [Stores -> SUBSET (({ToCanonical(a) : a \in Addrs}) \X Names)]
    BY DEF TcpIInv, TcpTypeOK
  <1>2. /\ \A t \in Stores : t # s => live_sockets'[t] = live_sockets[t]
        /\ \A t \in Stores : t # s => owed'[t] = owed[t]
    BY <1>1
  <1>3. SocketsAccounted'  BY <1>2, AccountingStep DEF TcpIInv
  <1>4. HalfWay' /\ HoldersLive' /\ TcpPeersVetted'  BY <1>2, OthersStay
  <1>5. TcpTypeOK'
    <2>1. sock' \in [Stores -> [Socks -> Sockets]]  BY SetSock DEF TcpIInv
    <2>2. live_sockets'[s] = Cardinality(Taken(s)')  BY <1>3 DEF SocketsAccounted
    <2>3. live_sockets[s] = Cardinality(Taken(s))  BY DEF TcpIInv, SocketsAccounted
    <2>4. Cardinality(Taken(s)) \in Nat  BY SocketsAreFinite
    <2>5. live_sockets'[s] \in Nat
      <3>1. TakenBit(r) \in {0, 1} /\ TakenBit(sock[s][k]) \in {0, 1}  BY DEF TakenBit
      <3>2. TakenBit(sock[s][k]) = 1 => Cardinality(Taken(s)) # 0
        <4>1. TakenBit(sock[s][k]) = 1 => k \in Taken(s)  BY DEF TakenBit, Taken
        <4> QED  BY <4>1, SocketsAreFinite, FS_EmptySet
      <3> QED  BY <2>3, <2>4, <3>1, <3>2
    <2>6. live_sockets' \in [Stores -> Nat] /\ owed' \in [Stores -> Nat]  BY <1>1, <2>5
    <2> QED  BY <1>1, <2>1, <2>6 DEF TcpTypeOK
  <1> QED  BY <1>3, <1>4, <1>5 DEF TcpIInv

LEMMA TcpStepInv == TcpIInv /\ [TcpNext]_tcpVars => TcpIInv'
  <1> SUFFICES ASSUME TcpIInv, [TcpNext]_tcpVars PROVE TcpIInv'
    OBVIOUS
  <1> USE DEF TcpIInv
  <1> USE SocketsAssumption
  <1>t. /\ used \in Nat /\ live_sockets \in [Stores -> Nat] /\ owed \in [Stores -> Nat]
        /\ \A s \in Stores : live_sockets[s] \in Nat /\ owed[s] \in Nat
        /\ \A s \in Stores, k \in Socks : sock[s][k] \in Sockets
        /\ connects \in [Stores -> 0..MaxConnections]
        /\ \A s \in Stores : connects[s] \in 0..MaxConnections
    BY DEF TcpTypeOK
  <1>l. ASSUME NEW s \in Stores, NEW k \in Socks, sock[s][k].st # "free"
        PROVE  live_sockets[s] > 0
    <2>1. k \in Taken(s)  BY <1>l DEF Taken
    <2>2. Cardinality(Taken(s)) # 0  BY <2>1, SocketsAreFinite, FS_EmptySet
    <2> QED  BY <1>t, <2>2 DEF SocketsAccounted
  <1>q. ASSUME UNCHANGED <<used, live_sockets, owed, sock>>,
               \A s \in Stores : pinned[s] \subseteq pinned'[s]
        PROVE  SocketsAccounted' /\ TcpPeersVetted' /\ HalfWay' /\ HoldersLive'
    <2>1. SocketsAccounted'
      BY <1>q DEF SocketsAccounted, Descriptors, Unsettled, Taken
    <2>2. HalfWay' /\ HoldersLive'  BY <1>q DEF HalfWay, HoldersLive
    <2>3. TcpPeersVetted'
      <3>1. \A s \in Stores, k \in Socks :
               sock[s][k].peer # Nobody => Vouched(sock[s][k].peer, pinned[s])
        BY VettedIsVouched
      <3>2. \A s \in Stores : \A p : Vouched(p, pinned[s]) => Vouched(p, pinned'[s])
        BY <1>q DEF Vouched
      <3> QED  BY <1>q, <3>1, <3>2, VettedIsVouchedNext
    <2> QED  BY <2>1, <2>2, <2>3
  <1>1. CASE UNCHANGED tcpVars
    <2>1. TcpTypeOK'  BY <1>1 DEF tcpVars, TcpTypeOK
    <2> QED  BY <1>1, <1>q, <2>1 DEF tcpVars
  <1>2. ASSUME NEW s \in Stores, NEW k \in Socks, NEW p3 \in BOOLEAN,
               AtRest(s), ReserveStore(s, k, p3)
        PROVE  TcpIInv'
    <2> DEFINE r == [Free EXCEPT !.st = "wanted", !.p3 = p3]
    <2>1. /\ r \in Sockets /\ r.st = "wanted" /\ ~ r.handle /\ r.halves = 0
          /\ r.peer = Nobody
      <3>1. Free \in Sockets /\ ~ Free.handle /\ Free.halves = 0 /\ Free.peer = Nobody
        BY FreeIsSocket DEF Free
      <3>2. r \in Sockets /\ r.st = "wanted" /\ r.halves = Free.halves
        BY <3>1 DEF Sockets
      <3>3. r.handle = Free.handle /\ r.peer = Free.peer  BY <3>1 DEF Sockets
      <3> QED  BY <3>1, <3>2, <3>3
    <2>2. Set(s, k, r) /\ sock[s][k].st = "free" /\ owed[s] = 0 /\ pinned' = pinned
          /\ owed' = owed /\ used' = used /\ live_sockets' = [live_sockets EXCEPT ![s] = @ + 1]
          /\ connects' = connects /\ looking' = looking
      BY <1>2 DEF ReserveStore, AtRest
    <2>3. \A j \in Socks : sock[s][j].st # "wanted"  BY <1>2 DEF AtRest
    <2> HIDE DEF r
    <2>4. TakenBit(sock[s][k]) = 0 /\ TakenBit(r) = 1
          /\ LiveBit(sock[s][k]) = 0 /\ LiveBit(r) = 0
      BY <2>1, <2>2 DEF TakenBit, LiveBit
    <2>5. /\ live_sockets' = [live_sockets EXCEPT ![s] = live_sockets'[s]]
          /\ live_sockets'[s] = live_sockets[s] - TakenBit(sock[s][k]) + TakenBit(r)
      BY <1>t, <2>2, <2>4
    <2>6. /\ owed'[s] \in Nat /\ owed' = [owed EXCEPT ![s] = owed'[s]] /\ owed'[s] = 0
          /\ used' = used - LiveBit(sock[s][k]) + LiveBit(r) - owed[s] + owed'[s]
          /\ used' \in Nat /\ used' <= HostCap
      BY <1>t, <2>2, <2>4 DEF SocketsAccounted
    <2>7. r.handle \/ r.halves > 0 => r.st = "live"  BY <2>1
    <2>8. r.st = "wanted" => owed'[s] = 0 /\ \A j \in Socks : sock[s][j].st # "wanted"
      BY <2>3, <2>6
    <2>9. owed'[s] = owed[s]  BY <2>2, <2>6
    <2> QED  BY <1>t, <2>1, <2>2, <2>5, <2>6, <2>7, <2>8, <2>9, OneSocketStep
  <1>3. ASSUME NEW s \in Stores, NEW k \in Socks, Refuse(s, k)
        PROVE  TcpIInv'
    <2>1. /\ Set(s, k, Free) /\ sock[s][k].st = "wanted" /\ pinned' = pinned
          /\ owed' = owed /\ used' = used /\ live_sockets' = [live_sockets EXCEPT ![s] = @ - 1]
          /\ connects' = connects /\ looking' = looking
      BY <1>3 DEF Refuse
    <2>2. /\ Free \in Sockets /\ Free.st = "free" /\ ~ Free.handle /\ Free.halves = 0
          /\ Free.peer = Nobody
      BY FreeIsSocket DEF Free
    <2>3. TakenBit(sock[s][k]) = 1 /\ TakenBit(Free) = 0
          /\ LiveBit(sock[s][k]) = 0 /\ LiveBit(Free) = 0
      BY <2>1, <2>2 DEF TakenBit, LiveBit
    <2>4. /\ live_sockets' = [live_sockets EXCEPT ![s] = live_sockets'[s]]
          /\ live_sockets'[s] = live_sockets[s] - TakenBit(sock[s][k]) + TakenBit(Free)
      BY <1>t, <2>1, <2>3
    <2>5. /\ owed'[s] \in Nat /\ owed' = [owed EXCEPT ![s] = owed'[s]]
          /\ owed'[s] = owed[s]
          /\ used' = used - LiveBit(sock[s][k]) + LiveBit(Free) - owed[s] + owed'[s]
          /\ used' \in Nat /\ used' <= HostCap
      BY <1>t, <2>1, <2>3 DEF SocketsAccounted
    <2>6. (Free.handle \/ Free.halves > 0 => Free.st = "live") /\ Free.st # "wanted"
      BY <2>2
    <2> QED  BY <1>t, <2>1, <2>2, <2>4, <2>5, <2>6, OneSocketStep
  <1>4. ASSUME NEW s \in Stores, NEW k \in Socks, Created(s, k)
        PROVE  TcpIInv'
    <2> DEFINE r == [sock[s][k] EXCEPT !.st = "live", !.handle = TRUE]
    <2>1. /\ Set(s, k, r) /\ sock[s][k].st = "wanted" /\ pinned' = pinned
          /\ owed' = owed /\ used' = used + 1 /\ used < HostCap
          /\ live_sockets' = live_sockets /\ connects' = connects /\ looking' = looking
      BY <1>4 DEF Created, ReserveHost
    <2>2. r \in Sockets /\ r.st = "live" /\ r.peer = sock[s][k].peer
      BY <1>t DEF Sockets
    <2> HIDE DEF r
    <2>3. TakenBit(sock[s][k]) = 1 /\ TakenBit(r) = 1
          /\ LiveBit(sock[s][k]) = 0 /\ LiveBit(r) = 1
      BY <2>1, <2>2 DEF TakenBit, LiveBit
    <2>4. /\ live_sockets' = [live_sockets EXCEPT ![s] = live_sockets'[s]]
          /\ live_sockets'[s] = live_sockets[s] - TakenBit(sock[s][k]) + TakenBit(r)
      BY <1>t, <2>1, <2>3
    <2>5. /\ owed'[s] \in Nat /\ owed' = [owed EXCEPT ![s] = owed'[s]]
          /\ owed'[s] = owed[s]
          /\ used' = used - LiveBit(sock[s][k]) + LiveBit(r) - owed[s] + owed'[s]
          /\ used' \in Nat /\ used' <= HostCap
      BY <1>t, <2>1, <2>3
    <2> QED  BY <1>t, <2>1, <2>2, <2>4, <2>5, OneSocketStep
  <1>5. ASSUME NEW s \in Stores, NEW k \in Socks, CreateFails(s, k)
        PROVE  TcpIInv'
    <2>1. sock[s][k].st = "wanted" /\ live_sockets[s] > 0
      BY <1>5, <1>l DEF CreateFails, ReserveHost
    <2>2. owed[s] = 0 /\ \A j \in Socks : j # k => sock[s][j].st # "wanted"
      BY <2>1 DEF HalfWay
    <2>3. /\ Set(s, k, Free) /\ pinned' = pinned
          /\ owed' = [owed EXCEPT ![s] = 1] /\ used' = used + 1 /\ used < HostCap
          /\ live_sockets' = [live_sockets EXCEPT ![s] = @ - 1]
          /\ connects' = connects /\ looking' = looking
      BY <1>5, <2>1 DEF CreateFails, ReserveHost, Release
    <2>4. /\ Free \in Sockets /\ Free.st = "free" /\ ~ Free.handle /\ Free.halves = 0
          /\ Free.peer = Nobody
      BY FreeIsSocket DEF Free
    <2>5. TakenBit(sock[s][k]) = 1 /\ TakenBit(Free) = 0
          /\ LiveBit(sock[s][k]) = 0 /\ LiveBit(Free) = 0
      BY <2>1, <2>4 DEF TakenBit, LiveBit
    <2>6. /\ live_sockets' = [live_sockets EXCEPT ![s] = live_sockets'[s]]
          /\ live_sockets'[s] = live_sockets[s] - TakenBit(sock[s][k]) + TakenBit(Free)
      BY <1>t, <2>3, <2>5
    <2>7. /\ owed'[s] \in Nat /\ owed' = [owed EXCEPT ![s] = owed'[s]]
          /\ used' = used - LiveBit(sock[s][k]) + LiveBit(Free) - owed[s] + owed'[s]
          /\ used' \in Nat /\ used' <= HostCap
      BY <1>t, <2>2, <2>3, <2>5
    <2>8. (Free.handle \/ Free.halves > 0 => Free.st = "live") /\ Free.st # "wanted"
      BY <2>4
    <2> QED  BY <1>t, <2>2, <2>3, <2>4, <2>6, <2>7, <2>8, OneSocketStep
  <1>6. ASSUME NEW s \in Stores, NEW k \in Socks, NEW r \in Sockets, Set(s, k, r),
               sock[s][k].st = "live", r.st = "live",
               UNCHANGED <<used, live_sockets, owed, pinned, looking>>,
               connects' \in [Stores -> 0..MaxConnections],
               r.peer = sock[s][k].peer \/ Vouched(r.peer, pinned[s])
        PROVE  TcpIInv'
    <2>1. TakenBit(sock[s][k]) = 1 /\ TakenBit(r) = 1
          /\ LiveBit(sock[s][k]) = 1 /\ LiveBit(r) = 1
      BY <1>6 DEF TakenBit, LiveBit
    <2>2. /\ live_sockets' = [live_sockets EXCEPT ![s] = live_sockets'[s]]
          /\ live_sockets'[s] = live_sockets[s] - TakenBit(sock[s][k]) + TakenBit(r)
      BY <1>t, <1>6, <2>1
    <2>3. /\ owed'[s] \in Nat /\ owed' = [owed EXCEPT ![s] = owed'[s]]
          /\ owed'[s] = owed[s]
          /\ used' = used - LiveBit(sock[s][k]) + LiveBit(r) - owed[s] + owed'[s]
          /\ used' \in Nat /\ used' <= HostCap
      BY <1>t, <1>6, <2>1 DEF SocketsAccounted
    <2>4. (r.handle \/ r.halves > 0 => r.st = "live") /\ r.st # "wanted"  BY <1>6
    <2> QED  BY <1>t, <1>6, <2>2, <2>3, <2>4, OneSocketStep
  <1>7. ASSUME NEW s \in Stores, NEW k \in Socks, NEW a \in Addrs, NEW e \in Allow,
               Connect(s, k, a, e.port)
        PROVE  TcpIInv'
    <2> DEFINE r == [sock[s][k] EXCEPT !.peer = <<a, e.port>>,
                                       !.halves = IF sock[s][k].p3 THEN 0 ELSE 2]
    <2>1. /\ Set(s, k, r) /\ sock[s][k].handle /\ Permits(s, a, e.port)
          /\ UNCHANGED <<used, live_sockets, owed, pinned, looking>>
          /\ connects' = [connects EXCEPT ![s] = @ + 1]
      BY <1>7 DEF Connect
    <2>2. sock[s][k].st = "live"  BY <2>1 DEF HoldersLive
    <2>3. r \in Sockets /\ r.st = "live" /\ r.peer = <<a, e.port>>
      <3> DEFINE Peers == Addrs \X {h.port : h \in Allow}
                 n == IF sock[s][k].p3 THEN 0 ELSE 2
                 p == <<a, e.port>>
      <3>1. p \in Peers /\ n \in 0..2  OBVIOUS
      <3>2. sock[s][k] \in [st : {"free", "wanted", "live"}, p3 : BOOLEAN,
                             handle : BOOLEAN, halves : 0..2, peer : Peers \cup {Nobody}]
        BY <1>t DEF Sockets
      <3>3. r = [sock[s][k] EXCEPT !.peer = p, !.halves = n]  OBVIOUS
      <3> HIDE DEF Peers, n, p, r
      <3>4. r.st = "live" /\ r.peer = p
            /\ r \in [st : {"free", "wanted", "live"}, p3 : BOOLEAN,
                      handle : BOOLEAN, halves : 0..2, peer : Peers \cup {Nobody}]
        BY <2>2, <3>1, <3>2, <3>3
      <3> QED  BY <3>4 DEF Sockets, Peers, p
    <2>4. connects' \in [Stores -> 0..MaxConnections]
      <3>1. connects[s] < MaxConnections  BY <2>1 DEF Permits
      <3>2. connects[s] + 1 \in 0..MaxConnections  BY <1>t, <3>1
      <3> QED  BY <1>t, <2>1, <3>2
    <2>5. Vouched(<<a, e.port>>, pinned[s])
      <3>1. ~ Forbidden(a)  BY <2>1, AllowedCanonicalIsNotForbidden DEF Permits
      <3>2. \E h \in Allow : /\ h.port = e.port
                             /\ h.host = ToCanonical(a) \/ <<ToCanonical(a), h.host>> \in pinned[s]
        BY <2>1 DEF Permits
      <3>3. <<a, e.port>>[1] = a /\ <<a, e.port>>[2] = e.port  OBVIOUS
      <3> QED  BY <3>1, <3>2, <3>3 DEF Vouched
    <2> HIDE DEF r
    <2> QED  BY <1>6, <2>1, <2>2, <2>3, <2>4, <2>5
  <1>8. ASSUME NEW s \in Stores, NEW k \in Socks, OpenHalf(s, k)
        PROVE  TcpIInv'
    <2> DEFINE r == [sock[s][k] EXCEPT !.halves = @ + 1]
    <2>1. /\ Set(s, k, r) /\ sock[s][k].handle /\ sock[s][k].halves < 2
          /\ UNCHANGED <<used, live_sockets, owed, pinned, connects, looking>>
      BY <1>8 DEF OpenHalf
    <2>2. sock[s][k].st = "live"  BY <2>1 DEF HoldersLive
    <2>3. r \in Sockets /\ r.st = "live" /\ r.peer = sock[s][k].peer
      BY <1>t, <2>1, <2>2 DEF Sockets
    <2> HIDE DEF r
    <2> QED  BY <1>t, <1>6, <2>1, <2>2, <2>3
  <1>9. ASSUME NEW s \in Stores, NEW k \in Socks, NEW r \in Sockets, AtRest(s),
               sock[s][k].st = "live", r.st = "live", r.peer = sock[s][k].peer,
               Let(s, k, r), UNCHANGED <<used, pinned, connects, looking>>
        PROVE  TcpIInv'
    <2>1. CASE ~ (~ r.handle /\ r.halves = 0)
      <3>1. Set(s, k, r) /\ UNCHANGED <<live_sockets, owed>>  BY <1>9, <2>1 DEF Let
      <3> QED  BY <1>t, <1>6, <1>9, <3>1
    <2>2. CASE ~ r.handle /\ r.halves = 0
      <3>1. /\ live_sockets[s] > 0 /\ owed[s] = 0
            /\ \A j \in Socks : j # k => sock[s][j].st # "wanted"
        BY <1>9, <1>l DEF AtRest
      <3>2. /\ Set(s, k, Free) /\ live_sockets' = [live_sockets EXCEPT ![s] = @ - 1]
            /\ owed' = [owed EXCEPT ![s] = 1]
        BY <1>9, <2>2, <3>1 DEF Let, Release
      <3>3. /\ Free \in Sockets /\ Free.st = "free" /\ ~ Free.handle /\ Free.halves = 0
            /\ Free.peer = Nobody
        BY FreeIsSocket DEF Free
      <3>4. TakenBit(sock[s][k]) = 1 /\ TakenBit(Free) = 0
            /\ LiveBit(sock[s][k]) = 1 /\ LiveBit(Free) = 0
        BY <1>9, <3>3 DEF TakenBit, LiveBit
      <3>5. /\ live_sockets' = [live_sockets EXCEPT ![s] = live_sockets'[s]]
            /\ live_sockets'[s] = live_sockets[s] - TakenBit(sock[s][k]) + TakenBit(Free)
        BY <1>t, <3>2, <3>4
      <3>6. /\ owed'[s] \in Nat /\ owed' = [owed EXCEPT ![s] = owed'[s]]
            /\ used' = used - LiveBit(sock[s][k]) + LiveBit(Free) - owed[s] + owed'[s]
            /\ used' \in Nat /\ used' <= HostCap
        BY <1>t, <1>9, <3>1, <3>2, <3>4 DEF SocketsAccounted
      <3>7. (Free.handle \/ Free.halves > 0 => Free.st = "live") /\ Free.st # "wanted"
        BY <3>3
      <3> QED  BY <1>t, <1>9, <3>1, <3>2, <3>3, <3>5, <3>6, <3>7, OneSocketStep
    <2> QED  BY <2>1, <2>2
  <1>10. ASSUME NEW s \in Stores, NEW k \in Socks, AtRest(s), DropHalf(s, k)
         PROVE  TcpIInv'
    <2> DEFINE r == [sock[s][k] EXCEPT !.halves = @ - 1]
    <2>1. /\ Let(s, k, r) /\ sock[s][k].halves > 0
          /\ UNCHANGED <<used, pinned, connects, looking>>
      BY <1>10 DEF DropHalf
    <2>2. sock[s][k].st = "live"  BY <2>1 DEF HoldersLive
    <2>3. r \in Sockets /\ r.st = "live" /\ r.peer = sock[s][k].peer
      BY <1>t, <2>1, <2>2 DEF Sockets
    <2> HIDE DEF r
    <2> QED  BY <1>9, <1>10, <2>1, <2>2, <2>3
  <1>11. ASSUME NEW s \in Stores, NEW k \in Socks, AtRest(s), DropHandle(s, k)
         PROVE  TcpIInv'
    <2> DEFINE r == [sock[s][k] EXCEPT !.handle = FALSE]
    <2>1. /\ Let(s, k, r) /\ sock[s][k].handle
          /\ UNCHANGED <<used, pinned, connects, looking>>
      BY <1>11 DEF DropHandle
    <2>2. sock[s][k].st = "live"  BY <2>1 DEF HoldersLive
    <2>3. r \in Sockets /\ r.st = "live" /\ r.peer = sock[s][k].peer
      <3>1. sock[s][k] \in Sockets  BY <1>t
      <3>2. r \in Sockets  BY <3>1 DEF Sockets
      <3>3. r.st = sock[s][k].st /\ r.peer = sock[s][k].peer  BY <3>1 DEF Sockets
      <3> QED  BY <2>2, <3>2, <3>3
    <2> HIDE DEF r
    <2> QED  BY <1>9, <1>11, <2>1, <2>2, <2>3
  <1>12. ASSUME NEW s \in Stores,
                \/ \E n \in Names : ResolveAddresses(s, n)
                \/ DropResolveStream(s) \/ BeginRequest(s)
                \/ ResolveFails(s) \/ AbortedTaskEnds(s)
         PROVE  TcpIInv'
    <2>1. UNCHANGED <<used, live_sockets, owed, sock, pinned>>
      BY <1>12, Zenon DEF ResolveAddresses, DropResolveStream, BeginRequest, ResolveFails,
                          AbortedTaskEnds
    <2>2. /\ connects' \in [Stores -> 0..MaxConnections]
          /\ looking' \in [Stores -> Names \cup {Nobody, "aborted"}]
      <3>1. looking \in [Stores -> Names \cup {Nobody, "aborted"}]  BY DEF TcpTypeOK
      <3>2. CASE \E n \in Names : ResolveAddresses(s, n)
        BY <1>t, <3>1, <3>2 DEF ResolveAddresses
      <3>3. CASE DropResolveStream(s)  BY <1>t, <3>1, <3>3 DEF DropResolveStream
      <3>4. CASE BeginRequest(s)
        <4>1. 0 \in 0..MaxConnections  OBVIOUS
        <4> QED  BY <1>t, <3>1, <3>4, <4>1 DEF BeginRequest
      <3>5. CASE ResolveFails(s)  BY <1>t, <3>1, <3>5 DEF ResolveFails
      <3>6. CASE AbortedTaskEnds(s)  BY <1>t, <3>1, <3>6 DEF AbortedTaskEnds
      <3> QED  BY <1>12, <3>2, <3>3, <3>4, <3>5, <3>6
    <2>3. TcpTypeOK'  BY <2>1, <2>2 DEF TcpTypeOK
    <2> QED  BY <1>q, <2>1, <2>3
  <1>13. ASSUME NEW s \in Stores, NEW answer \in SUBSET Addrs, ResolveVetted(s, answer)
         PROVE  TcpIInv'
    <2> DEFINE Pins == ({ToCanonical(a) : a \in Addrs}) \X Names
    <2>1. PICK kept \in SUBSET {ToCanonical(a) : a \in answer} :
             pinned' = [pinned EXCEPT ![s] = @ \cup {<<a, looking[s]>> : a \in kept}]
      BY <1>13, Zenon DEF ResolveVetted
    <2>2. /\ UNCHANGED <<used, live_sockets, owed, sock, connects>> /\ looking[s] \in Names
          /\ looking' = [looking EXCEPT ![s] = Nobody]
      BY <1>13 DEF ResolveVetted
    <2>3. pinned \in [Stores -> SUBSET Pins]  BY DEF TcpTypeOK
    <2>4. {<<a, looking[s]>> : a \in kept} \subseteq Pins  BY <2>1, <2>2
    <2>5. /\ pinned' \in [Stores -> SUBSET Pins]
          /\ \A t \in Stores : pinned[t] \subseteq pinned'[t]
      <3> HIDE DEF Pins
      <3> QED  BY <2>1, <2>3, <2>4
    <2>6. looking' \in [Stores -> Names \cup {Nobody, "aborted"}]
      BY <2>2 DEF TcpTypeOK
    <2>7. TcpTypeOK'  BY <2>2, <2>5, <2>6 DEF TcpTypeOK
    <2> QED  BY <1>q, <2>2, <2>5, <2>7
  <1>14. ASSUME NEW s \in Stores, AtRest(s), Discard(s)
         PROVE  TcpIInv'
    <2>1. /\ sock' = [sock EXCEPT ![s] = [k \in Socks |-> Free]]
          /\ owed' = [owed EXCEPT ![s] = live_sockets[s]] /\ live_sockets' = [live_sockets EXCEPT ![s] = 0]
          /\ pinned' = [pinned EXCEPT ![s] = {}] /\ connects' = [connects EXCEPT ![s] = 0]
          /\ used' = used
      BY <1>14 DEF Discard
    <2>2. sock \in [Stores -> [Socks -> Sockets]]  BY DEF TcpTypeOK
    <2>3. /\ \A k \in Socks : sock'[s][k] = Free
          /\ \A t \in Stores : t # s => sock'[t] = sock[t]
      BY <2>1, <2>2
    <2>f. Free.st = "free" /\ ~ Free.handle /\ Free.halves = 0 /\ Free.peer = Nobody
      BY DEF Free
    <2>4. TcpTypeOK'
      <3>1. sock' \in [Stores -> [Socks -> Sockets]]  BY <2>1, <2>2, FreeIsSocket
      <3>2. live_sockets' \in [Stores -> Nat] /\ owed' \in [Stores -> Nat] /\ used' \in Nat
        BY <1>t, <2>1
      <3>3. connects' \in [Stores -> 0..MaxConnections]
        <4>1. 0 \in 0..MaxConnections  OBVIOUS
        <4> QED  BY <1>t, <2>1, <4>1
      <3>4. pinned' \in [Stores -> SUBSET (({ToCanonical(a) : a \in Addrs}) \X Names)]
        BY <2>1 DEF TcpTypeOK
      <3>5. looking' \in [Stores -> Names \cup {Nobody, "aborted"}]
        <4>1. looking \in [Stores -> Names \cup {Nobody, "aborted"}]  BY DEF TcpTypeOK
        <4> QED  BY <1>14, <4>1 DEF Discard
      <3> QED  BY <3>1, <3>2, <3>3, <3>4, <3>5 DEF TcpTypeOK
    <2>5. SocketsAccounted'
      <3> DEFINE D == {s} \X Taken(s)
      <3>1. ASSUME NEW t \in Stores PROVE live_sockets'[t] = Cardinality(Taken(t)')
        <4>1. CASE t = s
          <5>1. Taken(s)' = {}  BY <2>3, <2>f DEF Taken
          <5>2. live_sockets'[s] = 0  BY <1>t, <2>1
          <5> QED  BY <4>1, <5>1, <5>2, FS_EmptySet
        <4>2. CASE t # s
          <5>1. Taken(t)' = Taken(t)  BY <2>3, <4>2 DEF Taken
          <5>2. live_sockets'[t] = live_sockets[t]  BY <1>t, <2>1, <4>2
          <5> QED  BY <5>1, <5>2 DEF SocketsAccounted
        <4> QED  BY <4>1, <4>2
      <3>2. \A k \in Socks : sock[s][k].st # "free" <=> sock[s][k].st = "live"
        BY <1>14 DEF AtRest
      <3>3. Descriptors = Descriptors' \cup D /\ Descriptors' \cap D = {}
        BY <2>3, <2>f, <3>2 DEF Descriptors, Taken
      <3>4. IsFiniteSet(Taken(s)) /\ Cardinality(Taken(s)) = live_sockets[s]
        BY SocketsAreFinite DEF SocketsAccounted
      <3>5. IsFiniteSet({s}) /\ Cardinality({s}) = 1  BY FS_Singleton
      <3>6. IsFiniteSet(D) /\ Cardinality(D) = 1 * live_sockets[s]
        BY <3>4, <3>5, FS_Product
      <3>7. IsFiniteSet(Descriptors') /\ Cardinality(Descriptors') \in Nat
        <4>1. Descriptors' \in SUBSET Descriptors  BY <3>3
        <4> QED  BY <4>1, SocketsAreFinite, FS_Subset, FS_CardinalityType
      <3> HIDE DEF D
      <3>8. Cardinality(Descriptors)
              = Cardinality(Descriptors') + Cardinality(D) - Cardinality({})
        BY <3>3, <3>6, <3>7, FS_Union
      <3>9. Cardinality({}) = 0  BY FS_EmptySet
      <3>10. Unsettled = OwingOf(owed) /\ Unsettled' = OwingOf([owed EXCEPT ![s] = live_sockets[s]])
        BY <2>1 DEF Unsettled, OwingOf
      <3>11. Cardinality(Unsettled') = Cardinality(Unsettled) - owed[s] + live_sockets[s]
        BY <1>t, <3>10, OwingChanges
      <3>12. Cardinality(Unsettled) \in Nat  BY <1>t, <3>10, OwingIsFinite
      <3>13. owed[s] = 0  BY <1>14 DEF AtRest
      <3>14. used = Cardinality(Descriptors) + Cardinality(Unsettled) /\ used <= HostCap
        BY DEF SocketsAccounted
      <3>15. used' = Cardinality(Descriptors') + Cardinality(Unsettled') /\ used' <= HostCap
        BY <1>t, <2>1, <3>6, <3>7, <3>8, <3>9, <3>11, <3>12, <3>13, <3>14
      <3> QED  BY <3>1, <3>15 DEF SocketsAccounted
    <2>6. HalfWay'
      <3>1. \A t \in Stores : t # s => owed'[t] = owed[t]  BY <1>t, <2>1
      <3> QED  BY <2>3, <2>f, <3>1 DEF HalfWay
    <2>7. HoldersLive'  BY <2>3, <2>f DEF HoldersLive
    <2>8. TcpPeersVetted'
      <3> SUFFICES ASSUME NEW t \in Stores, NEW k \in Socks, sock'[t][k].peer # Nobody
                   PROVE  Vouched(sock'[t][k].peer, pinned'[t])
        BY VettedIsVouchedNext
      <3>1. t # s  BY <2>3, <2>f
      <3>2. sock'[t] = sock[t] /\ pinned'[t] = pinned[t]  BY <2>1, <2>3, <3>1 DEF TcpTypeOK
      <3> QED  BY <3>2, VettedIsVouched
    <2> QED  BY <2>4, <2>5, <2>6, <2>7, <2>8
  <1>15. ASSUME NEW s \in Stores, ReleaseHost(s)
         PROVE  TcpIInv'
    <2>1. /\ owed' = [owed EXCEPT ![s] = 0]
          /\ used' = IF used >= owed[s] THEN used - owed[s] ELSE used
          /\ UNCHANGED <<live_sockets, sock, pinned, connects, looking>>
      BY <1>15 DEF ReleaseHost
    <2>2. Unsettled = OwingOf(owed) /\ Unsettled' = OwingOf([owed EXCEPT ![s] = 0])
      BY <2>1 DEF Unsettled, OwingOf
    <2>3. /\ Cardinality(Unsettled') = Cardinality(Unsettled) - owed[s] + 0
          /\ Cardinality(Unsettled) >= owed[s]
      BY <1>t, <2>2, OwingChanges
    <2>4. Cardinality(Unsettled) \in Nat /\ Cardinality(Descriptors) \in Nat
      BY <1>t, <2>2, OwingIsFinite, SocketsAreFinite
    <2>5. used = Cardinality(Descriptors) + Cardinality(Unsettled) /\ used <= HostCap
      BY DEF SocketsAccounted
    <2>6. used' = used - owed[s]  BY <1>t, <2>1, <2>3, <2>4, <2>5
    <2>7. Descriptors' = Descriptors /\ \A t \in Stores : Taken(t)' = Taken(t)
      BY <2>1 DEF Descriptors, Taken
    <2>8. /\ used' = Cardinality(Descriptors') + Cardinality(Unsettled')
          /\ used' <= HostCap /\ used' \in Nat
      BY <1>t, <2>3, <2>4, <2>5, <2>6, <2>7
    <2>9. SocketsAccounted'  BY <2>1, <2>7, <2>8 DEF SocketsAccounted
    <2>10. TcpTypeOK'
      <3>1. owed' \in [Stores -> Nat]  BY <1>t, <2>1
      <3> QED  BY <2>1, <2>8, <3>1 DEF TcpTypeOK
    <2>11. HalfWay' /\ HoldersLive'  BY <1>t, <2>1 DEF HalfWay, HoldersLive
    <2>12. TcpPeersVetted'  BY <2>1, VettedIsVouched, VettedIsVouchedNext
    <2> QED  BY <2>9, <2>10, <2>11, <2>12
  <1>16. ASSUME NEW s \in Stores, AtRest(s) /\ SocketStep(s)
         PROVE  TcpIInv'
    BY <1>2, <1>7, <1>8, <1>10, <1>11, <1>12, <1>14, <1>16 DEF SocketStep
  <1> HIDE DEF TcpIInv
  <1> QED
    BY <1>1, <1>3, <1>4, <1>5, <1>12, <1>13, <1>15, <1>16 DEF TcpNext

-----------------------------------------------------------------------------
(* The invariant of the HTTP side: a call that is under way holds a        *)
(* permit, so that the driver it spawns is covered.                        *)
CallsPermitted == \A c \in Calls : phase[c] \notin {"idle", "closing"} => c \in permit
HttpIInv == HttpTypeOK /\ ConnectionsCovered /\ HttpPeersVetted /\ CallsPermitted

LEMMA PermitIsFinite ==
  ASSUME HttpTypeOK
  PROVE  IsFiniteSet(permit) /\ Cardinality(permit) \in Nat
  <1>1. permit \in SUBSET Calls  BY DEF HttpTypeOK
  <1>2. IsFiniteSet(permit)  BY <1>1, FS_Subset, CallsAssumption
  <1> QED  BY <1>2, FS_CardinalityType

LEMMA HttpInitInv == HttpInit => HttpIInv
  <1> SUFFICES ASSUME HttpInit PROVE HttpIInv
    OBVIOUS
  <1>1. HttpTypeOK  BY DEF HttpInit, HttpTypeOK
  <1>2. ConnectionsCovered
    <2>1. permit = {} /\ driver = {}  BY DEF HttpInit
    <2>2. Cardinality(permit) = 0  BY <2>1, FS_EmptySet
    <2> QED  BY <2>1, <2>2, CallsAssumption DEF ConnectionsCovered
  <1>3. HttpPeersVetted /\ CallsPermitted
    BY DEF HttpInit, HttpPeersVetted, CallsPermitted
  <1> QED  BY <1>1, <1>2, <1>3 DEF HttpIInv

LEMMA HttpStepInv == HttpIInv /\ [HttpNext]_httpVars => HttpIInv'
  <1> SUFFICES ASSUME HttpIInv, [HttpNext]_httpVars PROVE HttpIInv'
    OBVIOUS
  <1> USE DEF HttpIInv
  <1>1. CASE UNCHANGED httpVars
    <2>1. HttpTypeOK' /\ ConnectionsCovered'
      BY <1>1 DEF httpVars, HttpTypeOK, ConnectionsCovered
    <2>2. HttpPeersVetted' /\ CallsPermitted'
      BY <1>1 DEF httpVars, HttpPeersVetted, CallsPermitted, Forbidden
    <2> QED  BY <2>1, <2>2
  <1>2. ASSUME NEW c \in Calls, NEW e \in Allow, Dispatch(c, e.host, e.port)
        PROVE  HttpIInv'
    <2>1. /\ permit' = permit \cup {c} /\ phase' = [phase EXCEPT ![c] = "resolve"]
          /\ UNCHANGED <<driver, overdue, dialed>> /\ Cardinality(permit) < MaxConcurrent
      BY <1>2 DEF Dispatch
    <2>2. HttpTypeOK'  BY <2>1 DEF HttpTypeOK
    <2>3. Cardinality(permit') <= Cardinality(permit) + 1
      BY <2>1, PermitIsFinite, FS_AddElement
    <2>4. Cardinality(permit') <= MaxConcurrent
      <3>1. Cardinality(permit) \in Nat /\ IsFiniteSet(permit')
        BY <2>1, PermitIsFinite, FS_AddElement
      <3>2. Cardinality(permit') \in Nat  BY <3>1, FS_CardinalityType
      <3> QED  BY <2>1, <2>3, <3>1, <3>2, CallsAssumption
    <2>5. ConnectionsCovered'  BY <2>1, <2>4 DEF ConnectionsCovered, HttpTypeOK
    <2>6. HttpPeersVetted' /\ CallsPermitted'
      BY <2>1 DEF HttpTypeOK, HttpPeersVetted, CallsPermitted, Forbidden
    <2> QED  BY <2>2, <2>5, <2>6
  <1>3. ASSUME NEW c \in Calls, NEW answer \in SUBSET Addrs, Resolve(c, answer)
        PROVE  HttpIInv'
    <2>1. PICK a \in answer : dialed' = [dialed EXCEPT ![c] = a]
      BY <1>3, Zenon DEF Resolve
    <2>2. /\ phase[c] = "resolve" /\ phase' = [phase EXCEPT ![c] = "connect"]
          /\ UNCHANGED <<permit, driver, overdue>> /\ Classify(a) = "Allowed" /\ a \in Addrs
      BY <1>3 DEF Resolve
    <2>3. ~ Forbidden(a)  BY <2>2, AllowedIsNotForbidden
    <2>4. HttpTypeOK'  BY <2>1, <2>2 DEF HttpTypeOK
    <2>5. ConnectionsCovered'  BY <2>2 DEF ConnectionsCovered, HttpTypeOK
    <2>6. HttpPeersVetted'
      <3>1. \A d \in Calls : dialed'[d] = IF d = c THEN a ELSE dialed[d]
        BY <2>1 DEF HttpTypeOK
      <3> QED  BY <2>3, <3>1 DEF HttpPeersVetted, Forbidden
    <2>7. CallsPermitted'  BY <2>2 DEF HttpTypeOK, CallsPermitted
    <2> QED  BY <2>4, <2>5, <2>6, <2>7
  <1>4. ASSUME NEW c \in Calls, Connected(c)
        PROVE  HttpIInv'
    <2>1. /\ phase[c] = "connect" /\ phase' = [phase EXCEPT ![c] = "send"]
          /\ driver' = driver \cup {c} /\ UNCHANGED <<permit, overdue, dialed>>
      BY <1>4 DEF Connected
    <2>2. HttpTypeOK'  BY <2>1 DEF HttpTypeOK
    <2>3. c \in permit  BY <2>1 DEF CallsPermitted
    <2>4. ConnectionsCovered'  BY <2>1, <2>3 DEF ConnectionsCovered, HttpTypeOK
    <2>5. HttpPeersVetted' /\ CallsPermitted'
      BY <2>1 DEF HttpTypeOK, HttpPeersVetted, CallsPermitted, Forbidden
    <2> QED  BY <2>2, <2>4, <2>5
  <1>5. ASSUME NEW c \in Calls, Drop(c)
        PROVE  HttpIInv'
    <2>1. /\ phase' = [phase EXCEPT ![c] = IF c \in driver THEN "closing" ELSE "idle"]
          /\ permit' = permit \ {c} /\ driver' = driver /\ overdue' = overdue \ {c}
          /\ dialed' = dialed \/ dialed' = [dialed EXCEPT ![c] = Nobody]
      BY <1>5 DEF Drop
    <2>2. HttpTypeOK'  BY <2>1 DEF HttpTypeOK
    <2>3. Cardinality(permit') <= Cardinality(permit)
      <3>1. permit' \in SUBSET permit  BY <2>1
      <3> QED  BY <3>1, PermitIsFinite, FS_Subset
    <2>4. Cardinality(permit') \in Nat /\ Cardinality(permit) \in Nat
      BY <2>1, PermitIsFinite, FS_RemoveElement, FS_CardinalityType
    <2>5. ConnectionsCovered'
      <3>1. {d \in driver' : phase'[d] # "closing"} \subseteq permit'
        BY <2>1 DEF ConnectionsCovered, HttpTypeOK
      <3> QED  BY <3>1, <2>3, <2>4, CallsAssumption DEF ConnectionsCovered
    <2>6. HttpPeersVetted'
      <3>1. \A d \in Calls : dialed'[d] = Nobody \/ dialed'[d] = dialed[d]
        BY <2>1 DEF HttpTypeOK
      <3> QED  BY <3>1 DEF HttpPeersVetted, Forbidden
    <2>7. CallsPermitted'  BY <2>1 DEF HttpTypeOK, CallsPermitted
    <2> QED  BY <2>2, <2>5, <2>6, <2>7
  <1>6. ASSUME NEW c \in Calls, Headers(c) \/ Deadline(c) \/ DriverEnds(c)
        PROVE  HttpIInv'
    <2>1. /\ UNCHANGED <<permit, dialed>> /\ driver' \subseteq driver
          /\ overdue' \subseteq Calls
          /\ \/ phase' = phase
             \/ phase[c] = "send" /\ phase' = [phase EXCEPT ![c] = "body"]
      BY <1>6 DEF Headers, Deadline, DriverEnds, HttpTypeOK
    <2>2. HttpTypeOK'  BY <2>1 DEF HttpTypeOK
    <2>3. ConnectionsCovered'  BY <2>1 DEF ConnectionsCovered, HttpTypeOK
    <2>4. HttpPeersVetted'  BY <2>1 DEF HttpPeersVetted, Forbidden
    <2>5. CallsPermitted'  BY <2>1 DEF HttpTypeOK, CallsPermitted
    <2> QED  BY <2>2, <2>3, <2>4, <2>5
  <1>7. ASSUME NEW c \in Calls, AbortEnds(c)
        PROVE  HttpIInv'
    <2>1. /\ phase' = [phase EXCEPT ![c] = "idle"] /\ driver' = driver \ {c}
          /\ dialed' = [dialed EXCEPT ![c] = Nobody] /\ UNCHANGED <<permit, overdue>>
      BY <1>7 DEF AbortEnds
    <2>2. HttpTypeOK'  BY <2>1 DEF HttpTypeOK
    <2>3. ConnectionsCovered'  BY <2>1 DEF ConnectionsCovered, HttpTypeOK
    <2>4. HttpPeersVetted'
      <3>1. \A d \in Calls : dialed'[d] = Nobody \/ dialed'[d] = dialed[d]
        BY <2>1 DEF HttpTypeOK
      <3> QED  BY <3>1 DEF HttpPeersVetted, Forbidden
    <2>5. CallsPermitted'  BY <2>1 DEF HttpTypeOK, CallsPermitted
    <2> QED  BY <2>2, <2>3, <2>4, <2>5
  <1> HIDE DEF HttpIInv
  <1> QED
    BY <1>1, <1>2, <1>3, <1>4, <1>5, <1>6, <1>7
    DEF HttpNext, SendEnds, SendTimesOut, Watchdog, BodyEnds

-----------------------------------------------------------------------------
(* The two sides together.                                                 *)
BothIInv == TcpIInv /\ HttpIInv

LEMMA OutboundInvariant == OutboundSpec => []BothIInv
  <1>1. OutboundInit => BothIInv  BY TcpInitInv, HttpInitInv DEF OutboundInit, BothIInv
  <1>2. BothIInv /\ [OutboundNext]_outboundVars => BothIInv'
    <2> SUFFICES ASSUME BothIInv, [OutboundNext]_outboundVars PROVE BothIInv'
      OBVIOUS
    <2>1. [TcpNext]_tcpVars /\ [HttpNext]_httpVars  BY DEF OutboundNext, outboundVars
    <2> QED  BY <2>1, TcpStepInv, HttpStepInv DEF BothIInv
  <1> QED  BY <1>1, <1>2, PTL DEF OutboundSpec

(* Both sides keep the types of their state.                               *)
THEOREM OutboundTypes == OutboundSpec => [](TcpTypeOK /\ HttpTypeOK)
  <1>1. BothIInv => TcpTypeOK /\ HttpTypeOK  BY DEF BothIInv, TcpIInv, HttpIInv
  <1> QED  BY <1>1, OutboundInvariant, PTL

(* For every number of Stores, sockets and calls and all ceilings: the     *)
(* counters of outbound_tcp.rs are exact through refusals, failed creates, *)
(* split streams and discarded instances, the host's ceiling holds, and    *)
(* the HTTP connection of a call that is alive is covered by a permit.     *)
THEOREM OutboundCeilings == OutboundSpec => []CeilingsCover
  <1>1. BothIInv => CeilingsCover  BY DEF BothIInv, TcpIInv, HttpIInv, CeilingsCover
  <1> QED  BY <1>1, OutboundInvariant, PTL

(* For every allowlist, every opt-in to private ranges and every DNS       *)
(* answer: no peer of a filter, by TCP or by HTTP, is in a forbidden       *)
(* range, and every TCP peer was listed or pinned for its port.            *)
THEOREM OutboundPeers == OutboundSpec => []PeersVetted
  <1>1. BothIInv => PeersVetted  BY DEF BothIInv, TcpIInv, HttpIInv, PeersVetted
  <1> QED  BY <1>1, OutboundInvariant, PTL
=============================================================================
