-------------------------- MODULE Upstream_proofs --------------------------
(***************************************************************************)
(* Proofs about the counters that guard an upstream and a listener, for    *)
(* every value of the constants: the circuit breaker, the per-IP           *)
(* connection limit, outlier detection and the load balancer's picks.      *)
(***************************************************************************)
EXTENDS MCUpstream, FiniteSetTheorems, TLAPS

-----------------------------------------------------------------------------
(* LbPick, for any numbers of concurrent forwards and of instances.  No    *)
(* pass sees a consistent set of eligible instances; what it is about is   *)
(* kept by what a pass still has in front of it: while it has counted or   *)
(* met nothing, every instance that was eligible all along is still ahead. *)

PickRec ==
  [pc : {"idle", "affinity", "count", "recount", "second", "capture",
         "meter", "held", "none"},
   at : 1..(N + 1), n : Nat, seen : Nat, want : Int \X Int,
   got : [1..2 -> 0..N], last : 0..N, exclude : 0..N, metered : BOOLEAN,
   prev : 0..N, steady : SUBSET (1..N), ever : SUBSET (1..N)]

(* What holds of a picker's record q beside the eligible set el.           *)
PickOK(q, el) ==
  /\ q.steady \subseteq el /\ q.exclude \notin q.steady
  /\ q.pc # "idle" => el \subseteq q.ever
  /\ q.last # 0 => q.last \in q.ever /\ q.last # q.exclude
  /\ \A k \in 1..2 : q.got[k] # 0 => q.got[k] \in q.ever /\ q.got[k] # q.exclude
  /\ q.pc \in {"meter", "held"} => q.last # 0
  /\ q.pc \in {"affinity", "count", "recount"} /\ q.n = 0 =>
       \A i \in q.steady : i >= q.at
  /\ q.pc = "second" /\ q.last = 0 => \A i \in q.steady : i >= q.at
  /\ q.pc = "none" => q.steady = {}

(* The instance whose load a picker's record q counts in, as the pick it   *)
(* holds; 0 for none.                                                      *)
Holds(q) == IF q.pc = "held" /\ q.metered THEN q.last ELSE 0

HeldOn(i) == {p \in Pickers : Holds(pick[p]) = i}
PrevOn(i) == {p \in Pickers : pick[p].prev = i}

PickTypes ==
  /\ eligible \in SUBSET (1..N)
  /\ rr \in Nat
  /\ pick \in [Pickers -> PickRec]
  /\ loads \in [1..N -> Nat]

LbInv ==
  /\ PickTypes
  /\ \A p \in Pickers : PickOK(pick[p], eligible)
  /\ \A i \in 1..N : loads[i] = Cardinality(HeldOn(i)) + Cardinality(PrevOn(i))

LEMMA GroupFacts == N \in Nat /\ N # 0 /\ IsFiniteSet(Pickers)
  BY LbAssumption

One(b) == IF b THEN 1 ELSE 0

(* Two sets of pickers that agree but on p differ in size by p.            *)
LEMMA SizeMoves ==
  ASSUME NEW S \in SUBSET Pickers, NEW T \in SUBSET Pickers, NEW p \in Pickers,
         S \ {p} = T \ {p}
  PROVE  /\ Cardinality(S) \in Nat /\ Cardinality(T) \in Nat
         /\ Cardinality(T) = Cardinality(S) - One(p \in S) + One(p \in T)
<1>1. IsFiniteSet(S) /\ IsFiniteSet(T)
  BY GroupFacts, FS_Subset
<1>2. Cardinality(S) \in Nat /\ Cardinality(T) \in Nat
  BY <1>1, FS_CardinalityType
<1>3. CASE (p \in S) = (p \in T)
  <2>1. S = T
    BY <1>3
  <2> QED  BY <1>2, <2>1 DEF One
<1>4. CASE p \in S /\ p \notin T
  <2>1. S = T \cup {p}
    BY <1>4
  <2>2. Cardinality(S) = Cardinality(T) + 1
    BY <1>1, <1>4, <2>1, FS_AddElement
  <2> QED  BY <1>2, <1>4, <2>2 DEF One
<1>5. CASE p \notin S /\ p \in T
  <2>1. T = S \cup {p}
    BY <1>5
  <2>2. Cardinality(T) = Cardinality(S) + 1
    BY <1>1, <1>5, <2>1, FS_AddElement
  <2> QED  BY <1>2, <1>5, <2>2 DEF One
<1> QED  BY <1>3, <1>4, <1>5

(* A step of picker p that leaves it in state new: it keeps the invariant  *)
(* if new is sound and the loads move with what p holds.                   *)
LEMMA PickerStep ==
  ASSUME LbInv, NEW p \in Pickers, NEW new \in PickRec,
         pick' = [pick EXCEPT ![p] = new], eligible' = eligible, rr' \in Nat,
         PickOK(new, eligible), loads' \in [1..N -> Int],
         \A i \in 1..N :
           loads'[i] = loads[i] - One(Holds(pick[p]) = i) - One(pick[p].prev = i)
                                + One(Holds(new) = i) + One(new.prev = i)
  PROVE  LbInv'
<1>1. ASSUME NEW i \in 1..N
      PROVE  /\ loads'[i] = Cardinality(HeldOn(i)') + Cardinality(PrevOn(i)')
             /\ loads'[i] \in Nat
  <2>1. /\ HeldOn(i) \in SUBSET Pickers /\ HeldOn(i)' \in SUBSET Pickers
        /\ PrevOn(i) \in SUBSET Pickers /\ PrevOn(i)' \in SUBSET Pickers
    BY DEF HeldOn, PrevOn
  <2>2. /\ pick'[p] = new
        /\ \A q \in Pickers : q # p => pick'[q] = pick[q]
    BY DEF LbInv, PickTypes
  <2>3. /\ HeldOn(i) \ {p} = HeldOn(i)' \ {p}
        /\ (p \in HeldOn(i)) = (Holds(pick[p]) = i)
        /\ (p \in HeldOn(i)') = (Holds(new) = i)
    BY <2>2 DEF HeldOn, Holds
  <2>4. /\ PrevOn(i) \ {p} = PrevOn(i)' \ {p}
        /\ (p \in PrevOn(i)) = (pick[p].prev = i)
        /\ (p \in PrevOn(i)') = (new.prev = i)
    BY <2>2 DEF PrevOn
  <2>5. /\ Cardinality(HeldOn(i)) \in Nat /\ Cardinality(HeldOn(i)') \in Nat
        /\ Cardinality(HeldOn(i)') = Cardinality(HeldOn(i))
             - One(Holds(pick[p]) = i) + One(Holds(new) = i)
    BY <2>1, <2>3, SizeMoves
  <2>6. /\ Cardinality(PrevOn(i)) \in Nat /\ Cardinality(PrevOn(i)') \in Nat
        /\ Cardinality(PrevOn(i)') = Cardinality(PrevOn(i))
             - One(pick[p].prev = i) + One(new.prev = i)
    BY <2>1, <2>4, SizeMoves
  <2>7. loads[i] = Cardinality(HeldOn(i)) + Cardinality(PrevOn(i))
    BY DEF LbInv
  <2>8. /\ One(Holds(pick[p]) = i) \in Int /\ One(Holds(new) = i) \in Int
        /\ One(pick[p].prev = i) \in Int /\ One(new.prev = i) \in Int
    BY DEF One
  <2> DEFINE h == Cardinality(HeldOn(i))
             h2 == Cardinality(HeldOn(i)')
             v == Cardinality(PrevOn(i))
             v2 == Cardinality(PrevOn(i)')
             a == One(Holds(pick[p]) = i)
             b == One(pick[p].prev = i)
             c == One(Holds(new) = i)
             d == One(new.prev = i)
             l2 == loads'[i]
  <2>9. /\ h \in Nat /\ h2 \in Nat /\ v \in Nat /\ v2 \in Nat
        /\ a \in Int /\ b \in Int /\ c \in Int /\ d \in Int
        /\ h2 = h - a + c /\ v2 = v - b + d /\ l2 = (h + v) - a - b + c + d
    BY <2>5, <2>6, <2>7, <2>8
  <2> HIDE DEF h, h2, v, v2, a, b, c, d, l2
  <2>10. l2 = h2 + v2 /\ l2 \in Nat
    BY <2>9
  <2> QED  BY <2>10 DEF h2, v2, l2
<1>2. PickTypes'
  <2>1. loads' \in [1..N -> Nat]
    BY <1>1
  <2> QED  BY <2>1 DEF LbInv, PickTypes
<1>3. \A q \in Pickers : PickOK(pick[q], eligible)'
  BY DEF LbInv, PickTypes, PickOK
<1> QED  BY <1>1, <1>2, <1>3 DEF LbInv

(* A step that holds nothing more and nothing less.                        *)
LEMMA QuietStep ==
  ASSUME LbInv, NEW p \in Pickers, NEW new \in PickRec,
         pick' = [pick EXCEPT ![p] = new], eligible' = eligible, rr' \in Nat,
         PickOK(new, eligible), loads' = loads,
         pick[p].pc # "held", new.prev = pick[p].prev,
         new.pc = "held" => new.metered = FALSE
  PROVE  LbInv'
<1>1. Holds(pick[p]) = 0 /\ Holds(new) = 0
  BY DEF Holds
<1>2. loads' \in [1..N -> Int]
  BY DEF LbInv, PickTypes
<1>3. ASSUME NEW i \in 1..N
      PROVE  loads'[i] = loads[i] - One(Holds(pick[p]) = i) - One(pick[p].prev = i)
                                + One(Holds(new) = i) + One(new.prev = i)
  <2>1. One(Holds(pick[p]) = i) = 0 /\ One(Holds(new) = i) = 0
    BY <1>1, GroupFacts DEF One
  <2>2. One(new.prev = i) \in Int /\ One(pick[p].prev = i) = One(new.prev = i)
    BY DEF One
  <2>3. loads[i] \in Int /\ loads'[i] = loads[i]
    BY DEF LbInv, PickTypes
  <2> QED  BY <2>1, <2>2, <2>3
<1> QED  BY <1>2, <1>3, PickerStep

LEMMA IdleRec == Idle \in PickRec
<1>1. <<0, 0>> \in [1..2 -> 0..N] /\ <<0, 0>> \in Int \X Int
  BY GroupFacts
<1> QED  BY <1>1, GroupFacts DEF Idle, PickRec

LEMMA InitLbInv == LbInit => LbInv
<1> SUFFICES ASSUME LbInit PROVE LbInv
  OBVIOUS
<1>1. PickTypes
  BY IdleRec DEF LbInit, PickTypes, Endpoints
<1>2. \A p \in Pickers : PickOK(pick[p], eligible)
  BY GroupFacts DEF LbInit, PickOK, Idle
<1>3. ASSUME NEW i \in 1..N
      PROVE  loads[i] = Cardinality(HeldOn(i)) + Cardinality(PrevOn(i))
  <2>1. HeldOn(i) = {} /\ PrevOn(i) = {}
    BY GroupFacts DEF LbInit, HeldOn, PrevOn, Holds, Idle
  <2>2. loads[i] = 0
    BY DEF LbInit, Endpoints
  <2> QED  BY <2>1, <2>2, FS_EmptySet
<1> QED  BY <1>1, <1>2, <1>3 DEF LbInv

LEMMA FlipStep ==
  ASSUME LbInv, NEW j \in Endpoints, Flip(j)
  PROVE  LbInv'
<1>1. /\ loads' = loads /\ rr' = rr
      /\ eligible' = IF j \in eligible THEN eligible \ {j} ELSE eligible \cup {j}
  BY DEF Flip
<1>2. /\ pick \in [Pickers -> PickRec]
      /\ \A p \in Pickers : pick'[p] = IF j \in eligible
                              THEN [pick[p] EXCEPT !.steady = @ \ {j}]
                              ELSE [pick[p] EXCEPT !.ever = @ \cup {j}]
      /\ pick' = [p \in Pickers |-> pick'[p]]
  BY DEF Flip, LbInv, PickTypes
<1>3. ASSUME NEW p \in Pickers
      PROVE  /\ pick'[p] \in PickRec
             /\ pick'[p].pc = pick[p].pc /\ pick'[p].metered = pick[p].metered
             /\ pick'[p].last = pick[p].last /\ pick'[p].prev = pick[p].prev
             /\ PickOK(pick'[p], eligible')
  <2>1. pick[p] \in PickRec /\ PickOK(pick[p], eligible)
    BY <1>2 DEF LbInv
  <2>2. CASE j \in eligible
    <3>1. pick'[p] = [pick[p] EXCEPT !.steady = @ \ {j}]
      BY <1>2, <2>2
    <3> QED  BY <1>1, <2>1, <2>2, <3>1 DEF PickRec, PickOK
  <2>3. CASE j \notin eligible
    <3>1. pick'[p] = [pick[p] EXCEPT !.ever = @ \cup {j}]
      BY <1>2, <2>3
    <3> QED  BY <1>1, <2>1, <2>3, <3>1 DEF PickRec, PickOK, Endpoints
  <2> QED  BY <2>2, <2>3
<1>4. PickTypes'
  BY <1>1, <1>2, <1>3 DEF LbInv, PickTypes, Endpoints
<1>5. \A i \in 1..N : HeldOn(i)' = HeldOn(i) /\ PrevOn(i)' = PrevOn(i)
  BY <1>3 DEF HeldOn, PrevOn, Holds
<1> QED  BY <1>1, <1>3, <1>4, <1>5 DEF LbInv

(* What a step of picker p knows before it.                                *)
LEMMA PickKnown ==
  ASSUME LbInv, NEW p \in Pickers
  PROVE  /\ pick[p] \in PickRec /\ PickOK(pick[p], eligible)
         /\ eligible \in SUBSET (1..N) /\ rr \in Nat
         /\ loads \in [1..N -> Nat]
  BY DEF LbInv, PickTypes

(* The record a pick begins with.                                          *)
Fresh(label, x, v, el) ==
  [Idle EXCEPT !.pc = label, !.exclude = x, !.prev = v, !.steady = el \ {x},
               !.ever = el]

LEMMA FreshOK ==
  ASSUME NEW label \in {"affinity", "count"}, NEW x \in 0..N, NEW v \in 0..N,
         NEW el \in SUBSET (1..N)
  PROVE  /\ Fresh(label, x, v, el) \in PickRec
         /\ PickOK(Fresh(label, x, v, el), el)
         /\ Fresh(label, x, v, el).prev = v
         /\ Fresh(label, x, v, el).pc # "held"
         /\ Holds(Fresh(label, x, v, el)) = 0
<1> DEFINE rest == el \ {x}
           new == [Idle EXCEPT !.pc = label, !.exclude = x, !.prev = v,
                               !.steady = rest, !.ever = el]
<1>1. rest \in SUBSET (1..N) /\ rest \subseteq el /\ x \notin rest
      /\ \A i \in rest : i >= 1
  BY GroupFacts
<1> HIDE DEF rest
<1>2. new \in PickRec
  BY <1>1, IdleRec DEF PickRec
<1>3. PickOK(new, el) /\ new.prev = v /\ new.pc # "held" /\ Holds(new) = 0
  BY <1>1, GroupFacts DEF PickOK, Idle, Holds
<1> QED  BY <1>2, <1>3 DEF rest, Fresh

LEMMA UnPrev ==
  ASSUME NEW q \in PickRec
  PROVE  [q EXCEPT !.prev = 0] \in PickRec
  BY GroupFacts DEF PickRec

LEMMA StartStep ==
  ASSUME LbInv, NEW p \in Pickers, Start(p)
  PROVE  LbInv'
<1>0. eligible \in SUBSET (1..N) /\ rr \in Nat /\ 0 \in 0..N
  BY PickKnown, GroupFacts
<1> DEFINE label == IF algo = "maglev" THEN "affinity" ELSE "count"
           new == Fresh(label, 0, 0, eligible)
<1>1. /\ pick' = [pick EXCEPT ![p] = new] /\ eligible' = eligible /\ rr' = rr
      /\ loads' = loads /\ pick[p].pc # "held" /\ pick[p].prev = 0
  BY DEF Start, Begin, Set, Fresh
<1>2. label \in {"affinity", "count"}
  OBVIOUS
<1> HIDE DEF label
<1>3. /\ new \in PickRec /\ PickOK(new, eligible)
      /\ new.prev = 0 /\ new.pc # "held"
  BY <1>0, <1>2, FreshOK
<1> HIDE DEF new
<1> QED  BY <1>0, <1>1, <1>3, QuietStep

LEMMA RetryStep ==
  ASSUME LbInv, NEW p \in Pickers, Retry(p)
  PROVE  LbInv'
<1>0. /\ pick[p] \in PickRec /\ PickOK(pick[p], eligible)
      /\ eligible \in SUBSET (1..N) /\ rr \in Nat /\ N \in Nat
      /\ loads \in [1..N -> Nat]
  BY PickKnown, GroupFacts
<1> DEFINE was == pick[p].last
           held == Metered(p)
           label == IF algo = "maglev" THEN "affinity" ELSE "count"
           new == Fresh(label, was, held, eligible)
<1>1. /\ pick' = [pick EXCEPT ![p] = new] /\ eligible' = eligible /\ rr' = rr
      /\ loads' = loads /\ pick[p].pc = "held" /\ pick[p].prev = 0
  BY DEF Retry, Begin, Set, Fresh
<1>2. was \in 0..N /\ held \in 0..N /\ Holds(pick[p]) = held
  BY <1>0, <1>1 DEF PickRec, Metered, Holds
<1>3. label \in {"affinity", "count"}
  OBVIOUS
<1> HIDE DEF was, held, label
<1>4. /\ new \in PickRec /\ PickOK(new, eligible)
      /\ new.prev = held /\ Holds(new) = 0
  BY <1>0, <1>2, <1>3, FreshOK
<1> HIDE DEF new
<1>5. loads' \in [1..N -> Int]
  BY <1>0, <1>1
<1>6. ASSUME NEW i \in 1..N
      PROVE  loads'[i] = loads[i] - One(Holds(pick[p]) = i) - One(pick[p].prev = i)
                                + One(Holds(new) = i) + One(new.prev = i)
  <2>1. /\ One(pick[p].prev = i) = 0 /\ One(Holds(new) = i) = 0
        /\ One(Holds(pick[p]) = i) \in Int
        /\ One(Holds(pick[p]) = i) = One(new.prev = i)
    BY <1>0, <1>1, <1>2, <1>4 DEF One
  <2>2. loads'[i] = loads[i] /\ loads[i] \in Int
    BY <1>0, <1>1
  <2> QED  BY <2>1, <2>2
<1> QED  BY <1>0, <1>1, <1>4, <1>5, <1>6, PickerStep

LEMMA DropPrevStep ==
  ASSUME LbInv, NEW p \in Pickers, DropPrev(p)
  PROVE  LbInv'
<1>0. /\ pick[p] \in PickRec /\ PickOK(pick[p], eligible)
      /\ eligible \in SUBSET (1..N) /\ rr \in Nat /\ N \in Nat
      /\ loads \in [1..N -> Nat]
  BY PickKnown, GroupFacts
<1> DEFINE new == [pick[p] EXCEPT !.prev = 0]
           gone == pick[p].prev
<1>1. /\ pick' = [pick EXCEPT ![p] = new] /\ eligible' = eligible /\ rr' = rr
      /\ gone \in 1..N /\ loads' = [loads EXCEPT ![gone] = @ - 1]
  BY <1>0 DEF DropPrev, Set, Release, PickRec
<1>2. new \in PickRec /\ PickOK(new, eligible)
  <2>1. new \in PickRec
    BY <1>0, UnPrev
  <2>2. PickOK(new, eligible)
    BY <1>0 DEF PickRec, PickOK
  <2> QED  BY <2>1, <2>2
<1>3. Holds(new) = Holds(pick[p]) /\ new.prev = 0
  BY <1>0 DEF Holds, PickRec
<1>4. loads' \in [1..N -> Int]
  BY <1>1, <1>0
<1>5. ASSUME NEW i \in 1..N
      PROVE  loads'[i] = loads[i] - One(Holds(pick[p]) = i) - One(gone = i)
                                + One(Holds(new) = i) + One(new.prev = i)
  <2>1. /\ One(Holds(pick[p]) = i) \in Int
        /\ One(Holds(new) = i) = One(Holds(pick[p]) = i)
        /\ One(new.prev = i) = 0
    BY <1>3, <1>0 DEF One
  <2>2. loads[i] \in Int /\ loads'[i] = loads[i] - One(gone = i)
    BY <1>1, <1>0 DEF One
  <2>3. One(gone = i) \in Int
    BY DEF One
  <2> QED  BY <2>1, <2>2, <2>3
<1> HIDE DEF new
<1> QED  BY <1>1, <1>2, <1>4, <1>5, <1>0, PickerStep

LEMMA FinishStep ==
  ASSUME LbInv, NEW p \in Pickers, Finish(p)
  PROVE  LbInv'
<1>0. /\ pick[p] \in PickRec /\ PickOK(pick[p], eligible)
      /\ eligible \in SUBSET (1..N) /\ rr \in Nat /\ N \in Nat
      /\ loads \in [1..N -> Nat]
  BY PickKnown, GroupFacts
<1> DEFINE gone == Metered(p)
<1>1. /\ pick' = [pick EXCEPT ![p] = Idle] /\ eligible' = eligible /\ rr' = rr
      /\ loads' = IF gone = 0 THEN loads ELSE [loads EXCEPT ![gone] = @ - 1]
      /\ pick[p].prev = 0 /\ pick[p].pc = "held"
  BY DEF Finish, Set, Release
<1>2. gone \in 0..N /\ Holds(pick[p]) = gone
  BY <1>1, <1>0 DEF Holds, Metered, PickRec
<1> HIDE DEF gone
<1>3. PickOK(Idle, eligible) /\ Holds(Idle) = 0 /\ Idle.prev = 0
  BY <1>0 DEF PickOK, Idle, Holds
<1>4. loads' \in [1..N -> Int]
  BY <1>1, <1>2, <1>0
<1>5. ASSUME NEW i \in 1..N
      PROVE  loads'[i] = loads[i] - One(Holds(pick[p]) = i) - One(pick[p].prev = i)
                                + One(Holds(Idle) = i) + One(Idle.prev = i)
  <2>1. /\ One(pick[p].prev = i) = 0 /\ One(Holds(Idle) = i) = 0
        /\ One(Idle.prev = i) = 0
    BY <1>1, <1>3, <1>0 DEF One
  <2>2. loads[i] \in Int /\ loads'[i] = loads[i] - One(gone = i)
    BY <1>1, <1>2, <1>0 DEF One
  <2>3. One(gone = i) \in Int /\ One(Holds(pick[p]) = i) = One(gone = i)
    BY <1>2 DEF One
  <2> QED  BY <2>1, <2>2, <2>3
<1> QED  BY <1>1, <1>3, <1>4, <1>5, <1>0, IdleRec, PickerStep

(* A pass ends with instance i.                                            *)
Taken(q, i, b) == [q EXCEPT !.pc = "held", !.last = i, !.metered = b]

LEMMA TakenOK ==
  ASSUME NEW q \in PickRec, NEW el \in SUBSET (1..N), PickOK(q, el),
         q.pc # "idle", NEW i \in 1..N, i \in q.ever, i # q.exclude,
         NEW b \in BOOLEAN
  PROVE  /\ Taken(q, i, b) \in PickRec
         /\ PickOK(Taken(q, i, b), el)
         /\ Taken(q, i, b).prev = q.prev
         /\ Taken(q, i, b).metered = b
         /\ Holds(Taken(q, i, b)) = IF b THEN i ELSE 0
<1>1. i \in 0..N /\ i # 0
  BY GroupFacts
<1>2. Taken(q, i, b) \in PickRec
  BY <1>1 DEF PickRec, Taken
<1>3. PickOK(Taken(q, i, b), el)
  BY <1>1 DEF PickRec, PickOK, Taken
<1>4. /\ Taken(q, i, b).prev = q.prev /\ Taken(q, i, b).metered = b
      /\ Taken(q, i, b).pc = "held" /\ Taken(q, i, b).last = i
  BY DEF PickRec, Taken
<1>5. Holds(Taken(q, i, b)) = IF b THEN i ELSE 0
  BY <1>4 DEF Holds
<1> QED  BY <1>2, <1>3, <1>4, <1>5

(* An unmetered instance ends a pass of picker p.                          *)
LEMMA TakeStep ==
  ASSUME LbInv, NEW p \in Pickers, NEW i \in 1..N, Take(p, i, FALSE),
         eligible' = eligible, rr' = rr, pick[p].pc \notin {"idle", "held"},
         i \in pick[p].ever, i # pick[p].exclude
  PROVE  LbInv'
<1>0. /\ pick[p] \in PickRec /\ PickOK(pick[p], eligible)
      /\ eligible \in SUBSET (1..N) /\ rr \in Nat
  BY PickKnown
<1>1. /\ pick' = [pick EXCEPT ![p] = Taken(pick[p], i, FALSE)]
      /\ loads' = loads
  BY DEF Take, Set, Taken
<1>2. /\ Taken(pick[p], i, FALSE) \in PickRec
      /\ PickOK(Taken(pick[p], i, FALSE), eligible)
      /\ Taken(pick[p], i, FALSE).prev = pick[p].prev
      /\ Taken(pick[p], i, FALSE).metered = FALSE
  BY <1>0, TakenOK
<1> QED  BY <1>0, <1>1, <1>2, QuietStep

(* A pass that goes on: its record q becomes new.                          *)
Goes(q, new, el) ==
  /\ new \in PickRec /\ PickOK(new, el)
  /\ new.prev = q.prev /\ new.pc # "held"

LEMMA GoesStep ==
  ASSUME LbInv, NEW p \in Pickers, NEW new, Goes(pick[p], new, eligible),
         pick' = [pick EXCEPT ![p] = new], eligible' = eligible, rr' \in Nat,
         loads' = loads, pick[p].pc # "held"
  PROVE  LbInv'
  BY QuietStep DEF Goes

Counts(q, el) ==
  [q EXCEPT !.at = @ + 1,
            !.n = IF q.at \in el /\ q.at # q.exclude THEN @ + 1 ELSE @]

LEMMA CountGoes ==
  ASSUME NEW q \in PickRec, NEW el \in SUBSET (1..N), PickOK(q, el),
         q.pc \in {"count", "recount"}, q.at <= N
  PROVE  Goes(q, Counts(q, el), el)
<1> DEFINE m == IF q.at \in el /\ q.at # q.exclude THEN q.n + 1 ELSE q.n
           a == q.at + 1
           new == [q EXCEPT !.at = a, !.n = m]
<1>1. /\ a \in 1..(N + 1) /\ m \in Nat
      /\ m = 0 => q.n = 0 /\ q.at \notin q.steady
      /\ \A i \in 1..N : i >= q.at /\ i # q.at => i >= a
  BY GroupFacts DEF PickRec, PickOK
<1> HIDE DEF m, a
<1>2. new \in PickRec
  BY <1>1 DEF PickRec
<1>3. PickOK(new, el)
  BY <1>1 DEF PickRec, PickOK
<1>4. new.prev = q.prev /\ new.pc # "held"
  BY DEF PickRec
<1> QED  BY <1>2, <1>3, <1>4 DEF Goes, Counts, m, a

(* A pass is over and nothing eligible is left that was there all along.   *)
LEMMA NoneGoes ==
  ASSUME NEW q \in PickRec, NEW el \in SUBSET (1..N), PickOK(q, el),
         q.at = N + 1, q.pc # "idle",
         \/ q.pc \in {"count", "recount"} /\ q.n = 0
         \/ q.pc = "second" /\ q.last = 0
  PROVE  Goes(q, [q EXCEPT !.pc = "none"], el)
<1>1. q.steady = {}
  BY GroupFacts DEF PickRec, PickOK
<1>2. [q EXCEPT !.pc = "none"] \in PickRec
  BY DEF PickRec
<1>3. PickOK([q EXCEPT !.pc = "none"], el)
  BY <1>1 DEF PickRec, PickOK
<1>4. [q EXCEPT !.pc = "none"].prev = q.prev /\ [q EXCEPT !.pc = "none"].pc = "none"
  BY DEF PickRec
<1> QED  BY <1>2, <1>3, <1>4 DEF Goes

Seeks(q, w) ==
  [q EXCEPT !.pc = "second", !.at = 1, !.seen = 0, !.last = 0, !.want = <<w, 0>>]

LEMMA AdvanceGoes ==
  ASSUME NEW q \in PickRec, NEW el \in SUBSET (1..N), PickOK(q, el),
         q.pc \in {"count", "recount"}, NEW w \in Int
  PROVE  Goes(q, Seeks(q, w), el)
<1> DEFINE o == <<w, 0>>
           new == [q EXCEPT !.pc = "second", !.at = 1, !.seen = 0, !.last = 0,
                            !.want = o]
<1>1. o \in Int \X Int /\ 1 \in 1..(N + 1) /\ 0 \in 0..N /\ 0 \in Nat
  BY GroupFacts
<1> HIDE DEF o
<1>2. new \in PickRec
  BY <1>1 DEF PickRec
<1>3. PickOK(new, el)
  BY DEF PickRec, PickOK
<1>4. new.prev = q.prev /\ new.pc # "held"
  BY DEF PickRec
<1> QED  BY <1>2, <1>3, <1>4 DEF Goes, Seeks, o

Meets(q) == [q EXCEPT !.at = @ + 1, !.seen = @ + 1, !.last = q.at]
Skips(q) == [q EXCEPT !.at = @ + 1]

LEMMA SecondGoes ==
  ASSUME NEW q \in PickRec, NEW el \in SUBSET (1..N), PickOK(q, el),
         q.pc = "second", q.at <= N
  PROVE  /\ q.at \in el /\ q.at # q.exclude => Goes(q, Meets(q), el)
         /\ ~(q.at \in el /\ q.at # q.exclude) => Goes(q, Skips(q), el)
<1> DEFINE a == q.at + 1
           u == q.seen + 1
<1>1. /\ a \in 1..(N + 1) /\ u \in Nat /\ q.at \in 0..N /\ q.at # 0
      /\ \A i \in 1..N : i >= q.at /\ i # q.at => i >= a
  BY GroupFacts DEF PickRec
<1> HIDE DEF a, u
<1>2. ASSUME q.at \in el, q.at # q.exclude
      PROVE  Goes(q, [q EXCEPT !.at = a, !.seen = u, !.last = q.at], el)
  <2> DEFINE new == [q EXCEPT !.at = a, !.seen = u, !.last = q.at]
  <2>1. new \in PickRec
    BY <1>1 DEF PickRec
  <2>2. PickOK(new, el)
    BY <1>1, <1>2 DEF PickRec, PickOK
  <2>3. new.prev = q.prev /\ new.pc # "held"
    BY DEF PickRec
  <2> QED  BY <2>1, <2>2, <2>3 DEF Goes
<1>3. ASSUME ~(q.at \in el /\ q.at # q.exclude)
      PROVE  Goes(q, [q EXCEPT !.at = a], el)
  <2> DEFINE new == [q EXCEPT !.at = a]
  <2>1. new \in PickRec
    BY <1>1 DEF PickRec
  <2>2. q.at \notin q.steady
    BY <1>3 DEF PickOK
  <2>3. PickOK(new, el)
    BY <1>1, <2>2 DEF PickRec, PickOK
  <2>4. new.prev = q.prev /\ new.pc # "held"
    BY DEF PickRec
  <2> QED  BY <2>1, <2>3, <2>4 DEF Goes
<1> QED  BY <1>2, <1>3 DEF Meets, Skips, a, u

Draws(q, w) == [q EXCEPT !.pc = "capture", !.at = 1, !.want = w]

LEMMA DrawGoes ==
  ASSUME NEW q \in PickRec, NEW el \in SUBSET (1..N), PickOK(q, el),
         q.pc = "count", NEW w \in Int \X Int
  PROVE  Goes(q, Draws(q, w), el)
<1> DEFINE new == [q EXCEPT !.pc = "capture", !.at = 1, !.want = w]
<1>1. 1 \in 1..(N + 1)
  BY GroupFacts
<1>2. new \in PickRec
  BY <1>1 DEF PickRec
<1>3. PickOK(new, el)
  BY DEF PickRec, PickOK
<1>4. new.prev = q.prev /\ new.pc # "held"
  BY DEF PickRec
<1> QED  BY <1>2, <1>3, <1>4 DEF Goes, Draws

Captures(q) ==
  [q EXCEPT !.at = @ + 1, !.seen = @ + 1,
            !.got = [k \in 1..2 |-> IF q.want[k] = q.seen THEN q.at ELSE @[k]]]

LEMMA CaptureGoes ==
  ASSUME NEW q \in PickRec, NEW el \in SUBSET (1..N), PickOK(q, el),
         q.pc = "capture", q.at <= N
  PROVE  /\ q.at \in el /\ q.at # q.exclude => Goes(q, Captures(q), el)
         /\ Goes(q, Skips(q), el)
<1> DEFINE a == q.at + 1
           u == q.seen + 1
           g == [k \in 1..2 |-> IF q.want[k] = q.seen THEN q.at ELSE q.got[k]]
<1>1. a \in 1..(N + 1) /\ u \in Nat /\ g \in [1..2 -> 0..N]
  BY GroupFacts DEF PickRec
<1>2. \A k \in 1..2 : g[k] = q.at \/ g[k] = q.got[k]
  OBVIOUS
<1> HIDE DEF a, u, g
<1>3. ASSUME q.at \in el, q.at # q.exclude
      PROVE  Goes(q, [q EXCEPT !.at = a, !.seen = u, !.got = g], el)
  <2> DEFINE new == [q EXCEPT !.at = a, !.seen = u, !.got = g]
  <2>1. new \in PickRec
    BY <1>1 DEF PickRec
  <2>2. q.at \in q.ever
    BY <1>3 DEF PickOK
  <2>3. PickOK(new, el)
    BY <1>2, <1>3, <2>2 DEF PickRec, PickOK
  <2>4. new.prev = q.prev /\ new.pc # "held"
    BY DEF PickRec
  <2> QED  BY <2>1, <2>3, <2>4 DEF Goes
<1>4. Goes(q, [q EXCEPT !.at = a], el)
  <2> DEFINE new == [q EXCEPT !.at = a]
  <2>1. new \in PickRec
    BY <1>1 DEF PickRec
  <2>2. PickOK(new, el)
    BY DEF PickRec, PickOK
  <2>3. new.prev = q.prev /\ new.pc # "held"
    BY DEF PickRec
  <2> QED  BY <2>1, <2>2, <2>3 DEF Goes
<1> QED  BY <1>3, <1>4 DEF Captures, Skips, a, u, g

Chooses(q, i) == [q EXCEPT !.pc = "meter", !.last = i]

LEMMA ChooseGoes ==
  ASSUME NEW q \in PickRec, NEW el \in SUBSET (1..N), PickOK(q, el),
         q.pc = "capture", NEW k \in 1..2, q.got[k] # 0
  PROVE  Goes(q, Chooses(q, q.got[k]), el)
<1> DEFINE i == q.got[k]
           new == [q EXCEPT !.pc = "meter", !.last = i]
<1>1. i \in 0..N /\ i # 0 /\ i \in q.ever /\ i # q.exclude
  BY DEF PickRec, PickOK
<1> HIDE DEF i
<1>2. new \in PickRec
  BY <1>1 DEF PickRec
<1>3. PickOK(new, el)
  BY <1>1 DEF PickRec, PickOK
<1>4. new.prev = q.prev /\ new.pc # "held"
  BY DEF PickRec
<1> QED  BY <1>2, <1>3, <1>4 DEF Goes, Chooses, i

Recounts(q) == [q EXCEPT !.pc = "recount", !.at = 1, !.n = 0, !.seen = 0]

LEMMA MissedGoes ==
  ASSUME NEW q \in PickRec, NEW el \in SUBSET (1..N), PickOK(q, el),
         q.pc = "capture"
  PROVE  Goes(q, Recounts(q), el)
<1> DEFINE new == [q EXCEPT !.pc = "recount", !.at = 1, !.n = 0, !.seen = 0]
<1>1. 1 \in 1..(N + 1) /\ 0 \in Nat
  BY GroupFacts
<1>2. new \in PickRec
  BY <1>1 DEF PickRec
<1>3. PickOK(new, el)
  BY DEF PickRec, PickOK
<1>4. new.prev = q.prev /\ new.pc # "held"
  BY DEF PickRec
<1> QED  BY <1>2, <1>3, <1>4 DEF Goes, Recounts

LEMMA AffinityGoes ==
  ASSUME NEW q \in PickRec, NEW el \in SUBSET (1..N), PickOK(q, el),
         q.pc = "affinity"
  PROVE  Goes(q, [q EXCEPT !.pc = "count"], el)
<1>1. [q EXCEPT !.pc = "count"] \in PickRec
  BY DEF PickRec
<1>2. PickOK([q EXCEPT !.pc = "count"], el)
  BY DEF PickRec, PickOK
<1>3. [q EXCEPT !.pc = "count"].prev = q.prev /\ [q EXCEPT !.pc = "count"].pc = "count"
  BY DEF PickRec
<1> QED  BY <1>1, <1>2, <1>3 DEF Goes

LEMMA MeterStep ==
  ASSUME LbInv, NEW p \in Pickers, Meter(p)
  PROVE  LbInv'
<1>0. /\ pick[p] \in PickRec /\ PickOK(pick[p], eligible)
      /\ eligible \in SUBSET (1..N) /\ rr \in Nat /\ N \in Nat
      /\ loads \in [1..N -> Nat]
  BY PickKnown, GroupFacts
<1> DEFINE i == pick[p].last
           new == Taken(pick[p], i, TRUE)
<1>1. /\ pick' = [pick EXCEPT ![p] = new] /\ eligible' = eligible /\ rr' = rr
      /\ loads' = [loads EXCEPT ![i] = @ + 1]
      /\ pick[p].pc = "meter"
  BY DEF Meter, Take, Set, Taken
<1>2. i \in 1..N /\ i \in pick[p].ever /\ i # pick[p].exclude
  BY <1>0, <1>1 DEF PickRec, PickOK
<1> HIDE DEF i
<1>3. /\ new \in PickRec /\ PickOK(new, eligible) /\ new.prev = pick[p].prev
      /\ Holds(new) = i
  BY <1>0, <1>1, <1>2, TakenOK
<1>4. loads' \in [1..N -> Int] /\ Holds(pick[p]) = 0
  BY <1>0, <1>1, <1>2 DEF Holds
<1> HIDE DEF new
<1>5. ASSUME NEW j \in 1..N
      PROVE  loads'[j] = loads[j] - One(Holds(pick[p]) = j) - One(pick[p].prev = j)
                                + One(Holds(new) = j) + One(new.prev = j)
  <2>1. /\ One(Holds(pick[p]) = j) = 0
        /\ One(pick[p].prev = j) \in Int
        /\ One(new.prev = j) = One(pick[p].prev = j)
        /\ One(Holds(new) = j) = One(i = j) /\ One(i = j) \in Int
    BY <1>3, <1>4 DEF One
  <2>2. loads[j] \in Int /\ loads'[j] = loads[j] + One(i = j)
    BY <1>0, <1>1, <1>2 DEF One
  <2> QED  BY <2>1, <2>2
<1> QED  BY <1>0, <1>1, <1>3, <1>4, <1>5, PickerStep

LEMMA PickStepInv ==
  ASSUME LbInv, NEW p \in Pickers, PickStep(p)
  PROVE  LbInv'
<1>0. /\ pick[p] \in PickRec /\ PickOK(pick[p], eligible)
      /\ eligible \in SUBSET (1..N) /\ rr \in Nat /\ N \in Nat
  BY PickKnown, GroupFacts
<1>1. CASE Start(p)  BY <1>1, StartStep
<1>2. CASE Retry(p)  BY <1>2, RetryStep
<1>3. CASE DropPrev(p)  BY <1>3, DropPrevStep
<1>4. CASE Finish(p)  BY <1>4, FinishStep
<1>5. CASE Affinity(p)
  <2>1. pick[p].pc = "affinity" /\ eligible' = eligible /\ rr' = rr
    BY <1>5 DEF Affinity
  <2>2. ASSUME NEW i \in Endpoints, IsEligible(p, i), Take(p, i, FALSE)
        PROVE  LbInv'
    <3>1. i \in 1..N /\ i \in pick[p].ever /\ i # pick[p].exclude
      BY <1>0, <2>1, <2>2 DEF IsEligible, PickOK, Endpoints
    <3> QED  BY <2>1, <2>2, <3>1, TakeStep
  <2>3. ASSUME Set(p, [pick[p] EXCEPT !.pc = "count"]), UNCHANGED loads
        PROVE  LbInv'
    <3>1. Goes(pick[p], [pick[p] EXCEPT !.pc = "count"], eligible)
      BY <1>0, <2>1, AffinityGoes
    <3> QED  BY <1>0, <2>1, <2>3, <3>1, GoesStep DEF Set
  <2> QED  BY <1>5, <2>2, <2>3 DEF Affinity
<1>6. CASE Count(p)
  <2>1. /\ pick' = [pick EXCEPT ![p] = Counts(pick[p], eligible)]
        /\ eligible' = eligible /\ rr' = rr /\ loads' = loads
        /\ pick[p].pc \in {"count", "recount"} /\ pick[p].at <= N
    BY <1>6 DEF Count, Set, IsEligible, Counts
  <2>2. Goes(pick[p], Counts(pick[p], eligible), eligible)
    BY <1>0, <2>1, CountGoes
  <2> QED  BY <1>0, <2>1, <2>2, GoesStep
<1>7. CASE NoneEligible(p)
  <2>1. Goes(pick[p], [pick[p] EXCEPT !.pc = "none"], eligible)
    BY <1>0, <1>7, NoneGoes DEF NoneEligible, Counted
  <2> QED  BY <1>0, <1>7, <2>1, GoesStep DEF NoneEligible, Counted, Set
<1>8. CASE Advance(p)
  <2> DEFINE w == rr % pick[p].n
  <2>1. pick[p].n \in Nat /\ pick[p].n > 0 /\ pick[p].pc \in {"count", "recount"}
    BY <1>0, <1>8 DEF Advance, Counted, PickRec
  <2>2. w \in Int
    BY <1>0, <2>1
  <2>3. /\ pick' = [pick EXCEPT ![p] = Seeks(pick[p], w)]
        /\ eligible' = eligible /\ rr' = rr + 1 /\ loads' = loads
    BY <1>8 DEF Advance, Set, Seeks
  <2> HIDE DEF w
  <2>4. Goes(pick[p], Seeks(pick[p], w), eligible)
    BY <1>0, <2>1, <2>2, AdvanceGoes
  <2>5. rr' \in Nat
    BY <1>0, <2>3
  <2> QED  BY <2>1, <2>3, <2>4, <2>5, GoesStep
<1>9. CASE Second(p)
  <2>1. /\ pick[p].pc = "second" /\ pick[p].at <= N /\ eligible' = eligible
        /\ rr' = rr /\ pick[p].at \in 1..N
    BY <1>0, <1>9 DEF Second, PickRec
  <2>2. CASE IsEligible(p, pick[p].at) /\ pick[p].seen = pick[p].want[1]
    <3>1. /\ Take(p, pick[p].at, FALSE)
          /\ pick[p].at \in pick[p].ever /\ pick[p].at # pick[p].exclude
      BY <1>0, <1>9, <2>1, <2>2 DEF Second, IsEligible, PickOK
    <3> QED  BY <2>1, <3>1, TakeStep
  <2>3. CASE IsEligible(p, pick[p].at) /\ pick[p].seen # pick[p].want[1]
    <3>1. Set(p, Meets(pick[p])) /\ loads' = loads
      BY <1>9, <2>3 DEF Second, Meets
    <3>2. Goes(pick[p], Meets(pick[p]), eligible)
      BY <1>0, <2>1, <2>3, SecondGoes DEF IsEligible
    <3> QED  BY <1>0, <2>1, <3>1, <3>2, GoesStep DEF Set
  <2>4. CASE ~IsEligible(p, pick[p].at)
    <3>1. Set(p, Skips(pick[p])) /\ loads' = loads
      BY <1>9, <2>4 DEF Second, Skips
    <3>2. Goes(pick[p], Skips(pick[p]), eligible)
      BY <1>0, <2>1, <2>4, SecondGoes DEF IsEligible
    <3> QED  BY <1>0, <2>1, <3>1, <3>2, GoesStep DEF Set
  <2> QED  BY <2>2, <2>3, <2>4
<1>10. CASE SecondEnd(p)
  <2>1. /\ pick[p].pc = "second" /\ pick[p].at = N + 1 /\ eligible' = eligible
        /\ rr' = rr
    BY <1>10 DEF SecondEnd
  <2>2. CASE pick[p].last # 0
    <3>1. /\ Take(p, pick[p].last, FALSE) /\ pick[p].last \in 1..N
          /\ pick[p].last \in pick[p].ever /\ pick[p].last # pick[p].exclude
      BY <1>0, <1>10, <2>2 DEF SecondEnd, PickOK, PickRec
    <3> QED  BY <2>1, <3>1, TakeStep
  <2>3. CASE pick[p].last = 0
    <3>1. Set(p, [pick[p] EXCEPT !.pc = "none"]) /\ loads' = loads
      BY <1>10, <2>3 DEF SecondEnd
    <3>2. Goes(pick[p], [pick[p] EXCEPT !.pc = "none"], eligible)
      BY <1>0, <2>1, <2>3, NoneGoes
    <3> QED  BY <1>0, <2>1, <3>1, <3>2, GoesStep DEF Set
  <2> QED  BY <2>2, <2>3
<1>11. CASE Draw(p)
  <2> DEFINE Ordinals == 0..(pick[p].n - 1)
  <2>1. /\ \E w \in Ordinals \X Ordinals : Set(p, Draws(pick[p], w))
        /\ pick[p].pc = "count" /\ eligible' = eligible /\ rr' = rr
        /\ loads' = loads
    BY <1>11, Zenon DEF Draw, Draws
  <2>2. Ordinals \subseteq Int
    BY <1>0 DEF PickRec
  <2> HIDE DEF Ordinals
  <2>3. PICK w \in Ordinals \X Ordinals : Set(p, Draws(pick[p], w))
    BY <2>1
  <2>4. w \in Int \X Int
    BY <2>2, <2>3
  <2>5. Goes(pick[p], Draws(pick[p], w), eligible)
    BY <1>0, <2>1, <2>4, DrawGoes
  <2> QED  BY <1>0, <2>1, <2>3, <2>5, GoesStep DEF Set
<1>12. CASE Capture(p)
  <2>1. /\ pick[p].pc = "capture" /\ pick[p].at <= N /\ eligible' = eligible
        /\ rr' = rr /\ loads' = loads
    BY <1>12 DEF Capture
  <2>2. CASE IsEligible(p, pick[p].at)
    <3>1. pick' = [pick EXCEPT ![p] = Captures(pick[p])]
      BY <1>12, <2>2 DEF Capture, Set, Captures
    <3>2. Goes(pick[p], Captures(pick[p]), eligible)
      BY <1>0, <2>1, <2>2, CaptureGoes DEF IsEligible
    <3> QED  BY <1>0, <2>1, <3>1, <3>2, GoesStep
  <2>3. CASE ~IsEligible(p, pick[p].at)
    <3>1. Set(p, Skips(pick[p]))
      BY <1>12, <2>3 DEF Capture, Skips
    <3>2. Goes(pick[p], Skips(pick[p]), eligible)
      BY <1>0, <2>1, CaptureGoes
    <3> QED  BY <1>0, <2>1, <3>1, <3>2, GoesStep DEF Set
  <2> QED  BY <2>2, <2>3
<1>13. CASE Choose(p)
  <2> DEFINE g(k) == pick[p].got[k]
  <2>1. /\ pick[p].pc = "capture" /\ g(1) # 0 /\ g(2) # 0
        /\ eligible' = eligible /\ rr' = rr /\ loads' = loads
        /\ \/ pick' = [pick EXCEPT ![p] = Chooses(pick[p], g(1))]
           \/ pick' = [pick EXCEPT ![p] = Chooses(pick[p], g(2))]
    BY <1>13 DEF Choose, Set, Chooses
  <2>2. /\ Goes(pick[p], Chooses(pick[p], g(1)), eligible)
        /\ Goes(pick[p], Chooses(pick[p], g(2)), eligible)
    BY <1>0, <2>1, ChooseGoes
  <2> QED  BY <1>0, <2>1, <2>2, GoesStep
<1>14. CASE Meter(p)  BY <1>14, MeterStep
<1>15. CASE Missed(p)
  <2>1. Goes(pick[p], Recounts(pick[p]), eligible)
    BY <1>0, <1>15, MissedGoes DEF Missed
  <2> QED  BY <1>0, <1>15, <2>1, GoesStep DEF Missed, Set, Recounts
<1> QED
  BY <1>1, <1>2, <1>3, <1>4, <1>5, <1>6, <1>7, <1>8, <1>9, <1>10, <1>11, <1>12,
     <1>13, <1>14, <1>15 DEF PickStep

(* The invariant is kept by whatever part of the system takes a step.      *)
LEMMA LbInvStep ==
  LbInv /\ [UpstreamNext]_<<part, vars, breakerVars, limitVars, lbVars>> => LbInv'
<1> SUFFICES ASSUME LbInv,
                    [UpstreamNext]_<<part, vars, breakerVars, limitVars, lbVars>>
             PROVE  LbInv'
  OBVIOUS
<1>1. CASE UNCHANGED <<eligible, rr, pick, loads>>
  <2>1. \A i : HeldOn(i)' = HeldOn(i) /\ PrevOn(i)' = PrevOn(i)
    BY <1>1 DEF HeldOn, PrevOn
  <2> QED  BY <1>1, <2>1 DEF LbInv, PickTypes
<1>2. CASE LbNext
  <2>1. ASSUME NEW i \in Endpoints, Flip(i) PROVE LbInv'
    BY <2>1, FlipStep
  <2>2. ASSUME NEW p \in Pickers, PickStep(p) PROVE LbInv'
    BY <2>2, PickStepInv
  <2>3. PicksMade => LbInv'
    BY <1>1 DEF PicksMade
  <2> QED  BY <1>2, <2>1, <2>2, <2>3 DEF LbNext
<1> QED  BY <1>1, <1>2 DEF UpstreamNext, lbVars

(* While a pick walks the instances without a lock and any of them may     *)
(* flip under it: it fails closed only if no instance was eligible all     *)
(* through, what it returns was eligible during the call and is not the    *)
(* instance a retry leaves, and the least-request load of an instance is   *)
(* the number of guards held on it (lb.rs).                                *)
THEOREM PicksAreSound == UpstreamSpec => []PicksSound
<1>1. LbInv => PicksSound
  <2> SUFFICES ASSUME LbInv PROVE PicksSound
    OBVIOUS
  <2>1. NoSpuriousNone
    BY DEF LbInv, PickOK, NoSpuriousNone
  <2>2. PickedWasEligible
    BY DEF LbInv, PickOK, PickedWasEligible
  <2>3. ASSUME NEW i \in Endpoints
        PROVE  loads[i] =
                 Cardinality({p \in Pickers : pick[p].pc = "held" /\ Metered(p) = i})
                 + Cardinality({p \in Pickers : pick[p].prev = i})
    <3>1. i \in 1..N /\ i # 0
      BY GroupFacts DEF Endpoints
    <3>2. {p \in Pickers : pick[p].pc = "held" /\ Metered(p) = i} = HeldOn(i)
      BY <3>1 DEF HeldOn, Holds, Metered
    <3>3. {p \in Pickers : pick[p].prev = i} = PrevOn(i)
      BY DEF PrevOn
    <3> QED  BY <3>1, <3>2, <3>3 DEF LbInv
  <2> QED  BY <2>1, <2>2, <2>3 DEF PicksSound, LoadAccounted
<1>2. UpstreamInit => LbInv
  BY InitLbInv DEF UpstreamInit
<1> QED  BY <1>1, <1>2, LbInvStep, PTL DEF UpstreamSpec

-----------------------------------------------------------------------------
(* Round-robin is even while nothing flips and nobody retries.  Evenness   *)
(* says nothing of the picks under way, so it is not inductive: what is    *)
(* kept is that the cursor dealt every eligible instance its turns, each   *)
(* served or drawn by a pick still looking for the instance, and that a    *)
(* pass in progress counts the eligible instances behind it.               *)

Before(el, a) == {j \in el : j < a}
Rank(el, a) == Cardinality(Before(el, a))

(* The turns of ordinal r after c advances of the cursor over n instances. *)
Dealt(c, r, n) == (c \div n) + One(r < c % n)

(* The picks that drew ordinal r and have not reached its instance.        *)
Seeking(q, r) == q.pc = "second" /\ q.want[1] = r
Drawn(pk, r) == {p \in Pickers : Seeking(pk[p], r)}

Quiet == algo = "round_robin" /\ flips = 0 /\ retries = 0

WalkOK(q, el) ==
  /\ q.exclude = 0 /\ q.pc \in {"idle", "count", "second", "held", "none"}
  /\ q.pc = "count" => q.n = Rank(el, q.at)
  /\ q.pc = "second" => /\ q.want[1] \in Nat /\ q.want[1] < Cardinality(el)
                        /\ q.seen = Rank(el, q.at) /\ q.seen <= q.want[1]

TurnsKept(sv, pk, el, c) ==
  \A i \in el :
    sv[i] + Cardinality(Drawn(pk, Rank(el, i))) = Dealt(c, Rank(el, i), Cardinality(el))

WalksKept(pk, el) == \A p \in Pickers : WalkOK(pk[p], el)

EvenTypes == flips \in Nat /\ retries \in Nat /\ served \in [1..N -> Int]
Even == TurnsKept(served, pick, eligible, rr) /\ WalksKept(pick, eligible)
EvenInv == EvenTypes /\ (Quiet => Even)

(* What a pass counts, instance by instance.                               *)
LEMMA RankFacts ==
  ASSUME NEW el \in SUBSET (1..N)
  PROVE  /\ IsFiniteSet(el) /\ Cardinality(el) \in Nat
         /\ Rank(el, 1) = 0 /\ Rank(el, N + 1) = Cardinality(el)
         /\ \A a \in 1..(N + 1) : Rank(el, a) \in Nat
         /\ \A a \in 1..N : Rank(el, a + 1) = Rank(el, a) + One(a \in el)
<1>1. N \in Nat /\ IsFiniteSet(1..N)
  BY GroupFacts, FS_Interval
<1>0. \A j \in el : j \in Nat /\ 1 <= j /\ j <= N
  BY <1>1
<1>2. IsFiniteSet(el) /\ Cardinality(el) \in Nat
  BY <1>1, FS_Subset, FS_CardinalityType
<1>3. \A a : IsFiniteSet(Before(el, a))
  BY <1>2, FS_Subset DEF Before
<1>4. \A a : Rank(el, a) \in Nat
  BY <1>3, FS_CardinalityType DEF Rank
<1>5. Rank(el, 1) = 0
  <2>1. \A j \in el : ~(j < 1)
    BY <1>0
  <2>2. Before(el, 1) = {}
    BY <2>1, Zenon DEF Before
  <2> QED  BY <2>2, FS_EmptySet DEF Rank
<1>6. Rank(el, N + 1) = Cardinality(el)
  <2>1. \A j \in el : j < N + 1
    BY <1>0, <1>1
  <2>2. Before(el, N + 1) = el
    BY <2>1, Zenon DEF Before
  <2> QED  BY <2>2 DEF Rank
<1>7. ASSUME NEW a \in 1..N PROVE Rank(el, a + 1) = Rank(el, a) + One(a \in el)
  <2>0. ~(a < a) /\ \A j \in el : j < a + 1 <=> j < a \/ j = a
    BY <1>0, <1>1
  <2>1. CASE a \in el
    <3>1. Before(el, a + 1) = Before(el, a) \cup {a} /\ a \notin Before(el, a)
      BY <2>0, <2>1, Zenon DEF Before
    <3>2. Rank(el, a + 1) = Rank(el, a) + 1
      BY <1>3, <3>1, FS_AddElement DEF Rank
    <3> QED  BY <2>1, <3>2 DEF One
  <2>2. CASE a \notin el
    <3>1. Before(el, a + 1) = Before(el, a)
      BY <2>0, <2>2, Zenon DEF Before
    <3> QED  BY <1>4, <2>2, <3>1 DEF One, Rank
  <2> QED  BY <2>1, <2>2
<1> QED  BY <1>2, <1>4, <1>5, <1>6, <1>7

(* Every eligible instance has an ordinal of its own.                      *)
LEMMA RankOrders ==
  ASSUME NEW el \in SUBSET (1..N), NEW i \in el
  PROVE  /\ Rank(el, i) \in Nat /\ Rank(el, i) < Cardinality(el)
         /\ \A j \in el : i # j => Rank(el, i) # Rank(el, j)
<1>1. N \in Nat /\ el \subseteq Nat
  BY GroupFacts
<1>2. IsFiniteSet(el)
  BY RankFacts
<1>3. \A a : IsFiniteSet(Before(el, a)) /\ Rank(el, a) \in Nat
  BY <1>2, FS_Subset, FS_CardinalityType DEF Before, Rank
<1>4. Rank(el, i) < Cardinality(el)
  <2>1. Before(el, i) \subseteq el /\ Before(el, i) # el
    BY <1>1 DEF Before
  <2> QED  BY <1>2, <1>3, <2>1, FS_Subset, FS_CardinalityType DEF Rank
<1>5. ASSUME NEW a \in el, NEW b \in el, a < b PROVE Rank(el, a) < Rank(el, b)
  <2>1. ~(a < a) /\ \A j \in el : j < a => j < b
    BY <1>1, <1>5
  <2>2. a \in Before(el, b) /\ a \notin Before(el, a) /\ Before(el, a) \subseteq Before(el, b)
    BY <1>5, <2>1, Zenon DEF Before
  <2> QED  BY <1>3, <2>2, FS_Subset, FS_CardinalityType DEF Rank
<1>6. ASSUME NEW j \in el, i # j PROVE Rank(el, i) # Rank(el, j)
  <2>1. i < j \/ j < i
    BY <1>1, <1>6
  <2> QED  BY <1>3, <1>5, <2>1
<1> QED  BY <1>3, <1>4, <1>6

(* An advance of the cursor deals one turn, to the ordinal it yields.      *)
LEMMA DealOne ==
  ASSUME NEW c \in Nat, NEW n \in Nat, n > 0, NEW r \in Nat, r < n
  PROVE  /\ c % n \in Nat /\ c % n < n
         /\ Dealt(c, r, n) \in Int
         /\ Dealt(c + 1, r, n) = Dealt(c, r, n) + One(r = c % n)
<1> DEFINE k == c \div n
           m == c % n
           k2 == (c + 1) \div n
           m2 == (c + 1) % n
<1>1. /\ k \in Nat /\ m \in Nat /\ m < n /\ c = k * n + m
      /\ k2 \in Nat /\ m2 \in Nat /\ m2 < n /\ c + 1 = k2 * n + m2
  BY Z3
<1> HIDE DEF k, m, k2, m2
<1>2. k2 >= k /\ k2 <= k + 1
  <2>1. \A a, b \in Int : a >= b + 1 => a * n >= b * n + n
    <3> SUFFICES ASSUME NEW a \in Int, NEW b \in Int, a >= b + 1 PROVE a * n >= b * n + n
      OBVIOUS
    <3>1. (a - b - 1) * n >= 0
      BY Z3
    <3> QED  BY <3>1, Z3
  <2> DEFINE u == k * n
             v == k2 * n
  <2>2. u \in Int /\ v \in Int /\ c = u + m /\ c + 1 = v + m2
    BY <1>1
  <2>3. /\ k2 >= k + 1 => v >= u + n
        /\ k >= k2 + 1 => u >= v + n
        /\ k2 >= (k + 1) + 1 => v >= (k + 1) * n + n
        /\ (k + 1) * n = u + n
    BY <1>1, <2>1, Z3
  <2> HIDE DEF u, v
  <2> QED  BY <1>1, <2>2, <2>3
<1>3. CASE k2 = k
  <2>1. m2 = m + 1
    BY <1>1, <1>3
  <2> QED  BY <1>1, <1>3, <2>1 DEF Dealt, One, k, m, k2, m2
<1>4. CASE k2 = k + 1
  <2>1. (k + 1) * n = k * n + n
    BY <1>1, Z3
  <2>2. m2 = 0 /\ m = n - 1
    BY <1>1, <1>4, <2>1
  <2> QED  BY <1>1, <1>4, <2>2 DEF Dealt, One, k, m, k2, m2
<1> QED  BY <1>1, <1>2, <1>3, <1>4 DEF Dealt, One, m, k

(* A step of picker p that leaves it in state new: every turn is served,   *)
(* drawn, or dealt by this step.                                           *)
LEMMA TurnStep ==
  ASSUME LbInv, Even, NEW p \in Pickers, NEW new,
         pick' = [pick EXCEPT ![p] = new], eligible' = eligible,
         WalkOK(new, eligible), served \in [1..N -> Int], served' \in [1..N -> Int],
         \A i \in eligible :
           served'[i] - served[i] + One(Seeking(new, Rank(eligible, i)))
             - One(Seeking(pick[p], Rank(eligible, i)))
           = Dealt(rr', Rank(eligible, i), Cardinality(eligible))
             - Dealt(rr, Rank(eligible, i), Cardinality(eligible)),
         rr' \in Nat
  PROVE  Even'
<1>1. /\ pick \in [Pickers -> PickRec] /\ eligible \in SUBSET (1..N) /\ rr \in Nat
  BY DEF LbInv, PickTypes
<1>2. /\ pick'[p] = new
      /\ \A q \in Pickers : q # p => pick'[q] = pick[q]
  BY <1>1
<1>3. WalksKept(pick', eligible')
  <2> SUFFICES ASSUME NEW q \in Pickers PROVE WalkOK(pick'[q], eligible')
    BY DEF WalksKept
  <2>1. WalkOK(pick[q], eligible)
    BY DEF Even, WalksKept
  <2>2. pick'[q] = new \/ pick'[q] = pick[q]
    BY <1>2
  <2> QED  BY <2>1, <2>2
<1>4. ASSUME NEW i \in eligible
      PROVE  served'[i] + Cardinality(Drawn(pick', Rank(eligible, i)))
               = Dealt(rr', Rank(eligible, i), Cardinality(eligible))
  <2> DEFINE r == Rank(eligible, i)
             n == Cardinality(eligible)
             S == Drawn(pick, r)
             T == Drawn(pick', r)
  <2>1. /\ r \in Nat /\ r < n /\ n \in Nat
    BY <1>1, RankOrders, RankFacts
  <2>2. S \in SUBSET Pickers /\ T \in SUBSET Pickers
    BY DEF Drawn
  <2>3. S \ {p} = T \ {p} /\ (p \in S <=> Seeking(pick[p], r)) /\ (p \in T <=> Seeking(new, r))
    <3> HIDE DEF r
    <3> QED  BY <1>2 DEF Drawn
  <2>4. /\ Cardinality(S) \in Nat /\ Cardinality(T) \in Nat
        /\ Cardinality(T) = Cardinality(S) - One(p \in S) + One(p \in T)
    <3> HIDE DEF S, T
    <3> QED  BY <2>2, <2>3, SizeMoves
  <2>5. served[i] + Cardinality(S) = Dealt(rr, r, n)
    BY DEF Even, TurnsKept
  <2>6. served[i] \in Int /\ served'[i] \in Int
    BY <1>1
  <2>7. n > 0 /\ Dealt(rr, r, n) \in Int /\ Dealt(rr', r, n) \in Int
    BY <1>1, <2>1, DealOne
  <2> DEFINE s == served[i]
             t == served'[i]
             d == Dealt(rr, r, n)
             e == Dealt(rr', r, n)
             a == One(Seeking(pick[p], r))
             b == One(Seeking(new, r))
             x == Cardinality(S)
             y == Cardinality(T)
  <2>8. a \in Int /\ b \in Int /\ One(p \in S) = a /\ One(p \in T) = b
    BY <2>3 DEF One
  <2>9. /\ s \in Int /\ t \in Int /\ d \in Int /\ e \in Int
        /\ x \in Int /\ y \in Int /\ y = x - a + b /\ s + x = d
        /\ t - s + b - a = e - d
    <3>1. t - s + b - a = e - d
      OBVIOUS
    <3>2. y = x - a + b
      BY <2>4, <2>8, Zenon
    <3>3. x \in Int /\ y \in Int
      <4> HIDE DEF S, T
      <4> QED  BY <2>4
    <3>4. s + x = d /\ s \in Int /\ t \in Int /\ d \in Int /\ e \in Int
      <4> HIDE DEF S, T, r, n
      <4> QED  BY <2>5, <2>6, <2>7
    <3> HIDE DEF s, t, d, e, a, b, x, y
    <3> QED  BY <3>1, <3>2, <3>3, <3>4
  <2> HIDE DEF s, t, d, e, a, b, x, y
  <2>10. t + y = e
    BY <2>8, <2>9
  <2> QED  BY <2>10 DEF t, y, e
<1>5. TurnsKept(served', pick', eligible', rr')
  BY <1>4 DEF TurnsKept
<1> QED  BY <1>3, <1>5 DEF Even

(* A step that draws no turn and serves none.                              *)
LEMMA IdleTurn ==
  ASSUME LbInv, Even, NEW p \in Pickers, NEW new,
         pick' = [pick EXCEPT ![p] = new], eligible' = eligible,
         WalkOK(new, eligible), served \in [1..N -> Int], served' = served, rr' = rr,
         new.pc = "second" <=> pick[p].pc = "second",
         new.pc = "second" => new.want = pick[p].want
  PROVE  Even'
<1>1. eligible \in SUBSET (1..N) /\ rr \in Nat
  BY DEF LbInv, PickTypes
<1>2. ASSUME NEW i \in eligible
      PROVE  served'[i] - served[i] + One(Seeking(new, Rank(eligible, i)))
               - One(Seeking(pick[p], Rank(eligible, i)))
             = Dealt(rr', Rank(eligible, i), Cardinality(eligible))
               - Dealt(rr, Rank(eligible, i), Cardinality(eligible))
  <2> DEFINE r == Rank(eligible, i)
             n == Cardinality(eligible)
  <2>1. r \in Nat /\ r < n /\ n \in Nat
    BY <1>1, RankOrders, RankFacts
  <2>2. Dealt(rr, r, n) \in Int
    BY <1>1, <2>1, DealOne
  <2>3. served[i] \in Int
    BY <1>1
  <2>4. One(Seeking(new, r)) = One(Seeking(pick[p], r)) /\ One(Seeking(new, r)) \in Int
    BY DEF Seeking, One
  <2> HIDE DEF r, n
  <2> QED  BY <2>2, <2>3, <2>4 DEF r, n
<1> QED  BY <1>1, <1>2, TurnStep

(* While it is quiet, every step of a picker keeps the turns.              *)
LEMMA EvenPick ==
  ASSUME LbInv, LbInv', EvenTypes, EvenTypes', Quiet, Even, Quiet',
         NEW p \in Pickers, PickStep(p)
  PROVE  Even'
<1>1. /\ pick \in [Pickers -> PickRec] /\ eligible \in SUBSET (1..N) /\ rr \in Nat
      /\ pick[p] \in PickRec /\ N \in Nat
  BY GroupFacts DEF LbInv, PickTypes
<1>2. served \in [1..N -> Int] /\ served' \in [1..N -> Int]
  BY DEF EvenTypes
<1>3. WalkOK(pick[p], eligible)
  BY DEF Even, WalksKept
<1>4. algo = "round_robin" /\ flips = 0 /\ retries = 0 /\ retries' = 0
  BY DEF Quiet
<1>5. pick[p].pc \in {"idle", "count", "second", "held", "none"} /\ pick[p].exclude = 0
  BY <1>3 DEF WalkOK
<1>6. Idle.pc = "idle" /\ Idle.exclude = 0 /\ WalkOK(Idle, eligible)
  BY DEF Idle, WalkOK
<1>10. CASE Start(p)
  <2> DEFINE new == [Idle EXCEPT !.pc = IF algo = "maglev" THEN "affinity" ELSE "count",
               !.exclude = 0, !.prev = 0, !.steady = eligible \ {0}, !.ever = eligible]
  <2>1. /\ pick' = [pick EXCEPT ![p] = new] /\ eligible' = eligible /\ rr' = rr
        /\ served' = served /\ pick[p].pc # "second"
    BY <1>10, <1>5 DEF Start, Begin, Set
  <2>2. new.pc = "count" /\ new.exclude = 0 /\ new.n = 0 /\ new.at = 1
    BY <1>4 DEF Idle
  <2> HIDE DEF new
  <2>3. WalkOK(new, eligible)
    BY <1>1, <2>2, RankFacts DEF WalkOK
  <2> QED  BY <1>2, <2>1, <2>2, <2>3, IdleTurn
<1>11. CASE Retry(p)
  BY <1>4, <1>11 DEF Retry
<1>12. CASE DropPrev(p)
  <2> DEFINE new == [pick[p] EXCEPT !.prev = 0]
  <2>1. /\ pick' = [pick EXCEPT ![p] = new] /\ eligible' = eligible /\ rr' = rr
        /\ served' = served /\ pick[p].pc \in {"held", "none"}
    BY <1>12 DEF DropPrev, Set
  <2>2. new.pc = pick[p].pc /\ new.exclude = 0
    BY <1>1, <1>5 DEF PickRec
  <2> HIDE DEF new
  <2>3. WalkOK(new, eligible)
    BY <2>1, <2>2 DEF WalkOK
  <2> QED  BY <1>2, <2>1, <2>2, <2>3, IdleTurn
<1>13. CASE Finish(p)
  <2>1. /\ pick' = [pick EXCEPT ![p] = Idle] /\ eligible' = eligible /\ rr' = rr
        /\ served' = served /\ pick[p].pc = "held"
    BY <1>13 DEF Finish, Set
  <2> QED  BY <1>2, <1>6, <2>1, IdleTurn
<1>14. CASE Affinity(p) \/ Draw(p) \/ Capture(p) \/ Choose(p) \/ Meter(p) \/ Missed(p)
  BY <1>4, <1>5, <1>14 DEF Affinity, Draw, Capture, Choose, Meter, Missed
<1>15. CASE Count(p)
  <2> DEFINE q == pick[p]
             a == q.at + 1
             m == IF IsEligible(p, q.at) THEN q.n + 1 ELSE q.n
             new == [q EXCEPT !.at = a, !.n = m]
  <2>1. /\ pick' = [pick EXCEPT ![p] = new] /\ eligible' = eligible /\ rr' = rr
        /\ served' = served /\ q.pc = "count" /\ q.at <= N
    BY <1>5, <1>15 DEF Count, Set
  <2>2. q.at \in 1..N /\ q.n \in Nat
    BY <1>1, <2>1 DEF PickRec
  <2>3. IsEligible(p, q.at) <=> q.at \in eligible
    BY <1>5, <2>2 DEF IsEligible
  <2>4. q.n = Rank(eligible, q.at)
    BY <1>3, <2>1 DEF WalkOK
  <2>5. m = Rank(eligible, a)
    <3>1. Rank(eligible, q.at + 1) = Rank(eligible, q.at) + One(q.at \in eligible)
      BY <1>1, <2>2, RankFacts
    <3> QED  BY <2>2, <2>3, <2>4, <3>1 DEF One
  <2>6. new.at = a /\ new.n = m /\ new.pc = "count" /\ new.exclude = 0
    BY <1>1, <1>5, <2>1 DEF PickRec
  <2> HIDE DEF new, a, m
  <2>7. WalkOK(new, eligible)
    BY <2>5, <2>6 DEF WalkOK
  <2> QED  BY <1>2, <2>1, <2>6, <2>7, IdleTurn
<1>16. CASE NoneEligible(p)
  <2> DEFINE new == [pick[p] EXCEPT !.pc = "none"]
  <2>1. /\ pick' = [pick EXCEPT ![p] = new] /\ eligible' = eligible /\ rr' = rr
        /\ served' = served /\ pick[p].pc # "second"
    BY <1>5, <1>16 DEF NoneEligible, Counted, Set
  <2>2. new.pc = "none" /\ new.exclude = 0
    BY <1>1, <1>5 DEF PickRec
  <2> HIDE DEF new
  <2>3. WalkOK(new, eligible)
    BY <2>2 DEF WalkOK
  <2> QED  BY <1>2, <2>1, <2>2, <2>3, IdleTurn
<1>17. CASE Advance(p)
  <2> DEFINE q == pick[p]
             w == rr % q.n
             o == <<w, 0>>
             n == Cardinality(eligible)
             new == [q EXCEPT !.pc = "second", !.at = 1, !.seen = 0, !.last = 0, !.want = o]
  <2>1. /\ pick' = [pick EXCEPT ![p] = new] /\ eligible' = eligible /\ rr' = rr + 1
        /\ served' = served /\ q.pc = "count" /\ q.at = N + 1 /\ q.n > 0
    BY <1>5, <1>17 DEF Advance, Counted, Set
  <2>2. q.n = n /\ n \in Nat /\ n > 0
    BY <1>1, <1>3, <2>1, RankFacts DEF WalkOK
  <2>3. w \in Nat /\ w < n /\ w = rr % n
    BY <1>1, <2>2, DealOne
  <2>4. /\ new.pc = "second" /\ new.want = o /\ new.seen = 0 /\ new.at = 1
        /\ new.exclude = 0 /\ o[1] = w
    BY <1>1, <1>5 DEF PickRec
  <2> HIDE DEF new, o, w, n
  <2>5. WalkOK(new, eligible)
    BY <1>1, <2>3, <2>4, RankFacts DEF WalkOK, n
  <2>6. ASSUME NEW i \in eligible
        PROVE  served'[i] - served[i] + One(Seeking(new, Rank(eligible, i)))
                 - One(Seeking(pick[p], Rank(eligible, i)))
               = Dealt(rr', Rank(eligible, i), Cardinality(eligible))
                 - Dealt(rr, Rank(eligible, i), Cardinality(eligible))
    <3> DEFINE r == Rank(eligible, i)
    <3>1. r \in Nat /\ r < n
      BY <1>1, RankOrders DEF n
    <3>2. Dealt(rr, r, n) \in Int /\ Dealt(rr + 1, r, n) = Dealt(rr, r, n) + One(r = rr % n)
      <4> HIDE DEF r
      <4> QED  BY <1>1, <2>2, <3>1, DealOne
    <3>3. One(Seeking(new, r)) = One(r = rr % n) /\ One(Seeking(pick[p], r)) = 0
      BY <2>1, <2>3, <2>4 DEF Seeking, One
    <3>4. served[i] \in Int /\ served'[i] = served[i] /\ One(r = rr % n) \in Int
      BY <1>1, <1>2, <2>1 DEF One
    <3> DEFINE d == Dealt(rr, r, n)
               b == One(r = rr % n)
    <3> HIDE DEF d, b, r
    <3>5. d \in Int /\ b \in Int /\ Dealt(rr', r, n) = d + b
      BY <2>1, <3>2, <3>4 DEF d, b
    <3> QED  BY <3>3, <3>4, <3>5 DEF d, b, r, n
  <2>7. rr' \in Nat
    BY <1>1, <2>1
  <2> QED  BY <1>2, <2>1, <2>5, <2>6, <2>7, TurnStep
<1>18. CASE Second(p)
  <2> DEFINE q == pick[p]
  <2>1. /\ eligible' = eligible /\ rr' = rr /\ q.pc = "second" /\ q.at <= N
    BY <1>18 DEF Second
  <2>2. /\ q.at \in 1..N /\ q.seen \in Nat
    BY <1>1, <2>1 DEF PickRec
  <2>3. /\ q.want[1] \in Nat /\ q.want[1] < Cardinality(eligible)
        /\ q.seen = Rank(eligible, q.at) /\ q.seen <= q.want[1]
    BY <1>3, <2>1 DEF WalkOK
  <2>4. IsEligible(p, q.at) <=> q.at \in eligible
    BY <1>5, <2>2 DEF IsEligible
  <2>5. CASE q.at \in eligible /\ q.seen = q.want[1]
    <3> DEFINE new == [q EXCEPT !.pc = "held", !.last = q.at, !.metered = FALSE]
    <3>1. /\ pick' = [pick EXCEPT ![p] = new]
          /\ served' = [served EXCEPT ![q.at] = @ + 1]
      BY <1>18, <2>4, <2>5 DEF Second, Take, Set
    <3>2. new.pc = "held" /\ new.exclude = 0
      BY <1>1, <1>5 DEF PickRec
    <3> HIDE DEF new
    <3>3. WalkOK(new, eligible)
      BY <3>2 DEF WalkOK
    <3>4. ASSUME NEW i \in eligible
          PROVE  served'[i] - served[i] + One(Seeking(new, Rank(eligible, i)))
                   - One(Seeking(pick[p], Rank(eligible, i)))
                 = Dealt(rr', Rank(eligible, i), Cardinality(eligible))
                   - Dealt(rr, Rank(eligible, i), Cardinality(eligible))
      <4> DEFINE r == Rank(eligible, i)
                 n == Cardinality(eligible)
      <4>1. r \in Nat /\ r < n /\ n \in Nat
        BY <1>1, RankOrders, RankFacts
      <4>2. Dealt(rr, r, n) \in Int
        BY <1>1, <4>1, DealOne
      <4>3. r = q.want[1] <=> i = q.at
        BY <1>1, <2>3, <2>5, RankOrders
      <4>4. /\ One(Seeking(new, r)) = 0
            /\ One(Seeking(q, r)) = IF i = q.at THEN 1 ELSE 0
        BY <2>1, <3>2, <4>3 DEF Seeking, One
      <4>5. /\ served[i] \in Int
            /\ served'[i] = served[i] + (IF i = q.at THEN 1 ELSE 0)
        BY <1>1, <1>2, <3>1
      <4> DEFINE d == Dealt(rr, r, n)
      <4> HIDE DEF d, r, n
      <4> QED  BY <2>1, <4>2, <4>4, <4>5 DEF d, r, n
    <3>5. rr' \in Nat
      BY <1>1, <2>1
    <3> QED  BY <1>2, <2>1, <3>1, <3>3, <3>4, <3>5, TurnStep
  <2>6. CASE q.at \in eligible /\ q.seen # q.want[1]
    <3> DEFINE a == q.at + 1
               u == q.seen + 1
               new == [q EXCEPT !.at = a, !.seen = u, !.last = q.at]
    <3>1. pick' = [pick EXCEPT ![p] = new] /\ served' = served
      BY <1>18, <2>4, <2>6 DEF Second, Set
    <3>2. /\ new.pc = "second" /\ new.want = q.want /\ new.seen = u /\ new.at = a
          /\ new.exclude = 0
      BY <1>1, <1>5, <2>1 DEF PickRec
    <3>3. u = Rank(eligible, a) /\ u <= q.want[1]
      BY <1>1, <2>2, <2>3, <2>6, RankFacts DEF One
    <3> HIDE DEF new, a, u
    <3>4. WalkOK(new, eligible)
      BY <2>3, <3>2, <3>3 DEF WalkOK
    <3> QED  BY <1>2, <2>1, <3>1, <3>2, <3>4, IdleTurn
  <2>7. CASE q.at \notin eligible
    <3> DEFINE a == q.at + 1
               new == [q EXCEPT !.at = a]
    <3>1. pick' = [pick EXCEPT ![p] = new] /\ served' = served
      BY <1>18, <2>4, <2>7 DEF Second, Set
    <3>2. /\ new.pc = "second" /\ new.want = q.want /\ new.seen = q.seen /\ new.at = a
          /\ new.exclude = 0
      BY <1>1, <1>5, <2>1 DEF PickRec
    <3>3. q.seen = Rank(eligible, a)
      BY <1>1, <2>2, <2>3, <2>7, RankFacts DEF One
    <3> HIDE DEF new, a
    <3>4. WalkOK(new, eligible)
      BY <2>3, <3>2, <3>3 DEF WalkOK
    <3> QED  BY <1>2, <2>1, <3>1, <3>2, <3>4, IdleTurn
  <2> QED  BY <2>5, <2>6, <2>7
<1>19. CASE SecondEnd(p)
  <2>1. pick[p].pc = "second" /\ pick[p].at = N + 1
    BY <1>19 DEF SecondEnd
  <2>2. /\ pick[p].want[1] \in Nat /\ pick[p].want[1] < Cardinality(eligible)
        /\ pick[p].seen = Rank(eligible, N + 1) /\ pick[p].seen <= pick[p].want[1]
    BY <1>3, <2>1 DEF WalkOK
  <2> QED  BY <1>1, <2>2, RankFacts
<1> QED
  BY <1>10, <1>11, <1>12, <1>13, <1>14, <1>15, <1>16, <1>17, <1>18, <1>19 DEF PickStep

LEMMA EvenTypesStep ==
  ASSUME LbInv, EvenTypes, [UpstreamNext]_<<part, vars, breakerVars, limitVars, lbVars>>
  PROVE  EvenTypes'
<1>1. ASSUME NEW i, served' = [served EXCEPT ![i] = @ + 1] PROVE served' \in [1..N -> Int]
  <2>1. CASE i \in 1..N
    BY <1>1, <2>1 DEF EvenTypes
  <2>2. CASE i \notin 1..N
    BY <1>1, <2>2 DEF EvenTypes
  <2> QED  BY <2>1, <2>2
<1>2. CASE UNCHANGED <<flips, retries, served>>
  BY <1>2 DEF EvenTypes
<1>3. CASE LbNext
  <2>1. ASSUME NEW i \in Endpoints, Flip(i) PROVE EvenTypes'
    BY <2>1 DEF Flip, EvenTypes
  <2>2. ASSUME NEW p \in Pickers, PickStep(p) PROVE EvenTypes'
    <3>1. CASE Start(p) \/ DropPrev(p) \/ Finish(p) \/ Count(p) \/ NoneEligible(p)
               \/ Advance(p) \/ Draw(p) \/ Capture(p) \/ Choose(p) \/ Missed(p)
      <4>1. UNCHANGED <<flips, retries, served>>
        BY <3>1, Zenon
        DEF Start, Begin, DropPrev, Finish, Count, NoneEligible, Advance, Draw, Capture,
            Choose, Missed
      <4> QED  BY <1>2, <4>1
    <3>2. CASE Retry(p)
      BY <3>2 DEF Retry, Begin, EvenTypes
    <3>3. CASE Affinity(p) \/ Second(p) \/ SecondEnd(p) \/ Meter(p)
      <4>1. UNCHANGED <<flips, retries>>
        BY <3>3 DEF Affinity, Second, SecondEnd, Meter
      <4>2. served' = served \/ \E i : served' = [served EXCEPT ![i] = @ + 1]
        BY <3>3, Zenon DEF Affinity, Second, SecondEnd, Meter, Take
      <4> QED  BY <1>1, <4>1, <4>2 DEF EvenTypes
    <3> QED  BY <2>2, <3>1, <3>2, <3>3 DEF PickStep
  <2>3. PicksMade => EvenTypes'
    BY <1>2 DEF PicksMade
  <2> QED  BY <1>3, <2>1, <2>2, <2>3 DEF LbNext
<1> QED  BY <1>2, <1>3 DEF UpstreamNext, lbVars

LEMMA EvenInvStep ==
  LbInv /\ LbInv' /\ EvenInv /\ [UpstreamNext]_<<part, vars, breakerVars, limitVars, lbVars>>
    => EvenInv'
<1> SUFFICES ASSUME LbInv, LbInv', EvenInv, Quiet',
                    [UpstreamNext]_<<part, vars, breakerVars, limitVars, lbVars>>
             PROVE  Even'
  BY EvenTypesStep DEF EvenInv
<1>1. EvenTypes /\ EvenTypes'
  BY EvenTypesStep DEF EvenInv
<1>2. CASE UNCHANGED <<algo, flips, retries, served, pick, eligible, rr>>
  <2>1. Quiet
    BY <1>2 DEF Quiet
  <2> QED  BY <1>2, <2>1 DEF EvenInv, Even
<1>3. CASE LbNext
  <2>1. ASSUME NEW i \in Endpoints, Flip(i) PROVE FALSE
    BY <1>1, <2>1 DEF Flip, Quiet, EvenTypes
  <2>2. ASSUME NEW p \in Pickers, PickStep(p) PROVE Even'
    <3>1. flips' = flips /\ (retries' = retries \/ retries' = retries + 1)
      BY <2>2, Zenon
      DEF PickStep, Start, Retry, Begin, DropPrev, Finish, Affinity, Count, NoneEligible,
          Advance, Second, SecondEnd, Draw, Capture, Choose, Meter, Missed
    <3>2. algo' = algo
      BY <1>3 DEF LbNext
    <3>3. Quiet
      BY <1>1, <3>1, <3>2 DEF Quiet, EvenTypes
    <3> QED  BY <1>1, <2>2, <3>3, EvenPick DEF EvenInv
  <2>3. PicksMade => Even'
    BY <1>2, <1>3 DEF PicksMade, LbNext
  <2> QED  BY <1>3, <2>1, <2>2, <2>3 DEF LbNext
<1> QED  BY <1>2, <1>3 DEF UpstreamNext, lbVars

LEMMA InitEvenInv == UpstreamInit => EvenInv
<1> SUFFICES ASSUME UpstreamInit PROVE EvenInv
  OBVIOUS
<1>1. /\ flips = 0 /\ retries = 0 /\ served = [i \in 1..N |-> 0] /\ rr = 0
      /\ pick = [p \in Pickers |-> Idle] /\ eligible \in SUBSET (1..N)
  BY DEF UpstreamInit, LbInit, Endpoints
<1>2. EvenTypes
  BY <1>1 DEF EvenTypes
<1>3. Idle.pc = "idle" /\ Idle.exclude = 0
  BY DEF Idle
<1>4. WalksKept(pick, eligible)
  BY <1>1, <1>3 DEF WalksKept, WalkOK
<1>5. ASSUME NEW i \in eligible
      PROVE  served[i] + Cardinality(Drawn(pick, Rank(eligible, i)))
               = Dealt(rr, Rank(eligible, i), Cardinality(eligible))
  <2> DEFINE r == Rank(eligible, i)
             n == Cardinality(eligible)
  <2>1. r \in Nat /\ r < n /\ n \in Nat
    BY <1>1, RankOrders, RankFacts
  <2>2. Drawn(pick, r) = {}
    BY <1>1, <1>3 DEF Drawn, Seeking
  <2>3. Cardinality(Drawn(pick, r)) = 0
    BY <2>2, FS_EmptySet
  <2> HIDE DEF r, n
  <2>4. 0 \div n = 0 /\ 0 % n = 0
    BY <2>1, Z3
  <2>5. Dealt(0, r, n) = 0
    BY <2>1, <2>4 DEF Dealt, One
  <2>6. served[i] = 0
    BY <1>1
  <2> QED  BY <1>1, <2>3, <2>5, <2>6 DEF r, n
<1> QED  BY <1>2, <1>4, <1>5 DEF EvenInv, Even, TurnsKept

(* However the picks interleave, round-robin is even over the eligible     *)
(* instances as long as none flips and nobody retries: with no pick under  *)
(* way, two of them differ by at most one turn (lb.rs, round_robin_pick).  *)
THEOREM RotationIsEven == UpstreamSpec => []EvenRotation
<1>1. LbInv /\ EvenInv => EvenRotation
  <2> SUFFICES ASSUME LbInv, EvenInv, Quiet, NEW i \in eligible, NEW j \in eligible,
                      \A p \in Pickers : pick[p].pc \in {"idle", "none", "held"}
               PROVE  served[i] - served[j] <= 1
    BY DEF EvenRotation, Quiet
  <2> DEFINE n == Cardinality(eligible)
             k == rr \div n
  <2>1. eligible \in SUBSET (1..N) /\ rr \in Nat /\ served \in [1..N -> Int]
    BY DEF LbInv, PickTypes, EvenInv, EvenTypes
  <2>2. ASSUME NEW a \in eligible PROVE served[a] = k + One(Rank(eligible, a) < rr % n)
    <3> DEFINE S == Drawn(pick, Rank(eligible, a))
    <3>1. S = {}
      BY DEF Drawn, Seeking
    <3>2. Cardinality(S) = 0
      BY <3>1, FS_EmptySet
    <3>3. served[a] + Cardinality(S) = Dealt(rr, Rank(eligible, a), n)
      BY DEF EvenInv, Even, TurnsKept
    <3>4. served[a] \in Int
      BY <2>1
    <3> HIDE DEF S
    <3> QED  BY <3>2, <3>3, <3>4 DEF Dealt
  <2>3. n \in Nat /\ n > 0
    BY <2>1, RankOrders, RankFacts
  <2>4. k \in Int
    BY <2>1, <2>3
  <2> HIDE DEF k, n
  <2> QED  BY <2>2, <2>4 DEF One
<1>2. UpstreamInit => LbInv /\ EvenInv
  BY InitLbInv, InitEvenInv DEF UpstreamInit
<1>3. LbInv /\ EvenInv /\ [UpstreamNext]_<<part, vars, breakerVars, limitVars, lbVars>>
        => LbInv' /\ EvenInv'
  BY LbInvStep, EvenInvStep
<1> QED  BY <1>1, <1>2, <1>3, PTL DEF UpstreamSpec

-----------------------------------------------------------------------------
(* Outlier, for any numbers of requests, instances and reloads.  The       *)
(* ejection cap is not inductive: an instance past the check is not        *)
(* ejected yet.  The invariant counts the held decision mutexes as         *)
(* ejections to come; there is at most one per group value.                *)

(* A request about to store its ejection holds the decision mutex of its   *)
(* group value.                                                            *)
DecisionHeld ==
  \A r \in Requests : pc[r] = "eject" => decision[group[r]] = r

(* The group values under decision, all of them published.                 *)
Deciding == {g \in 1..Gens : decision[g] # None}

GroupsPublished ==
  /\ \A r \in Requests : group[r] <= current
  /\ \A g \in Deciding : g <= current

(* Ejections landed and ejections decided, together.                       *)
RoomKept ==
  (Cardinality(ejected) + Cardinality(Deciding) - (current - 1)) * 100
    <= Percent * Cardinality(Instances)

OutlierInv == TypeOK /\ DecisionHeld /\ GroupsPublished /\ RoomKept

USE GensAssumption, ThresholdAssumption, PercentAssumption, NoneAssumption

-----------------------------------------------------------------------------
(* What adding or removing one instance does to the number of ejected ones.*)
LEMMA EjectedCard ==
  ASSUME NEW S \in SUBSET Instances
  PROVE  /\ Cardinality(S) \in Nat
         /\ Cardinality(Instances) \in Nat
         /\ \A i \in Instances : /\ Cardinality(S \cup {i}) \in Nat
                                 /\ Cardinality(S \cup {i}) <= Cardinality(S) + 1
         /\ \A i \in Instances : /\ Cardinality(S \ {i}) \in Nat
                                 /\ Cardinality(S \ {i}) <= Cardinality(S)
<1>1. IsFiniteSet(Instances) /\ IsFiniteSet(S)
  BY InstancesAssumption, FS_Subset
<1>2. Cardinality(S) \in Nat /\ Cardinality(Instances) \in Nat
  BY <1>1, FS_CardinalityType
<1>3. ASSUME NEW i \in Instances
      PROVE  /\ Cardinality(S \cup {i}) \in Nat
             /\ Cardinality(S \cup {i}) <= Cardinality(S) + 1
  <2>1. Cardinality(S \cup {i}) = IF i \in S THEN Cardinality(S) ELSE Cardinality(S) + 1
    BY <1>1, FS_AddElement
  <2>2. QED BY <2>1, <1>2
<1>4. ASSUME NEW i \in Instances
      PROVE  /\ Cardinality(S \ {i}) \in Nat
             /\ Cardinality(S \ {i}) <= Cardinality(S)
  <2>1. Cardinality(S \ {i}) = IF i \in S THEN Cardinality(S) - 1 ELSE Cardinality(S)
    BY <1>1, FS_RemoveElement
  <2>2. IsFiniteSet(S \ {i})
    BY <1>1, FS_Subset
  <2>3. Cardinality(S \ {i}) \in Nat
    BY <2>2, FS_CardinalityType
  <2>4. QED BY <2>1, <2>3, <1>2
<1>5. QED BY <1>2, <1>3, <1>4

(* Every step of record_outcome keeps the variables in their types: the    *)
(* failure streak never passes the threshold.                              *)
LEMMA TypeStep == TypeOK /\ [Next]_vars => TypeOK'
<1> SUFFICES ASSUME TypeOK, [Next]_vars PROVE TypeOK'
  OBVIOUS
<1> USE DEF TypeOK, Holder
<1>1. CASE Reload BY <1>1 DEF Reload
<1>2. ASSUME NEW i \in Instances, Expire(i) PROVE TypeOK'
  BY <1>2 DEF Expire
<1>3. ASSUME NEW r \in Requests, Pick(r) PROVE TypeOK'
  BY <1>3 DEF Pick
<1>4. ASSUME NEW r \in Requests, OutcomeGood(r) PROVE TypeOK'
  BY <1>4 DEF OutcomeGood
<1>5. ASSUME NEW r \in Requests, OutcomeBad(r) PROVE TypeOK'
  <2>1. gwFail[inst[r]] + 1 \in 0..Threshold
    BY <1>5 DEF OutcomeBad
  <2>2. gwFail' = [gwFail EXCEPT ![inst[r]] = gwFail[inst[r]] + 1]
    BY <1>5 DEF OutcomeBad
  <2>3. gwFail' \in [Instances -> 0..Threshold]
    BY <2>1, <2>2
  <2>4. QED BY <1>5, <2>3 DEF OutcomeBad
<1>6. ASSUME NEW r \in Requests, OutcomeTrips(r) PROVE TypeOK'
  BY <1>6 DEF OutcomeTrips
<1>7. ASSUME NEW r \in Requests, DecideKeep(r) PROVE TypeOK'
  BY <1>7 DEF DecideKeep
<1>8. ASSUME NEW r \in Requests, DecideEject(r) PROVE TypeOK'
  BY <1>8 DEF DecideEject
<1>9. ASSUME NEW r \in Requests, Eject(r) PROVE TypeOK'
  BY <1>9 DEF Eject
<1>10. CASE UNCHANGED vars BY <1>10 DEF vars
<1>11. QED
  BY <1>1, <1>2, <1>3, <1>4, <1>5, <1>6, <1>7, <1>8, <1>9, <1>10 DEF Next

(* How many group values can be under decision, and how one entering or    *)
(* leaving changes their number.                                           *)
LEMMA DecidingCard ==
  ASSUME NEW D \in SUBSET (1..Gens)
  PROVE  /\ Cardinality(D) \in Nat
         /\ \A n \in 1..Gens : (\A g \in D : g <= n) => Cardinality(D) <= n
         /\ \A g \in D : Cardinality(D \ {g}) = Cardinality(D) - 1
<1>1. IsFiniteSet(1..Gens) /\ IsFiniteSet(D)
  <2>1. IsFiniteSet(1..Gens)
    BY FS_Interval
  <2>2. QED BY <2>1, FS_Subset
<1>2. Cardinality(D) \in Nat
  BY <1>1, FS_CardinalityType
<1>3. ASSUME NEW n \in 1..Gens, \A g \in D : g <= n
      PROVE  Cardinality(D) <= n
  <2>1. D \subseteq 1..n
    BY <1>3
  <2>2. IsFiniteSet(1..n) /\ Cardinality(1..n) = n
    BY FS_Interval
  <2>3. QED BY <2>1, <2>2, FS_Subset
<1>4. \A g \in D : Cardinality(D \ {g}) = Cardinality(D) - 1
  BY <1>1, FS_RemoveElement
<1>5. QED BY <1>2, <1>3, <1>4

LEMMA InitOutlierInv == Init => OutlierInv
<1> SUFFICES ASSUME Init PROVE OutlierInv
  OBVIOUS
<1>1. TypeOK
  BY DEF Init, TypeOK, Holder
<1>2. Deciding = {}
  BY DEF Init, Deciding
<1>3. Cardinality(ejected) = 0 /\ Cardinality(Deciding) = 0
  BY <1>2, FS_EmptySet DEF Init
<1>4. Percent * Cardinality(Instances) \in Nat
  BY EjectedCard, <1>1 DEF TypeOK
<1>5. RoomKept
  BY <1>3, <1>4 DEF RoomKept, Init
<1>6. DecisionHeld /\ GroupsPublished
  BY <1>2 DEF Init, DecisionHeld, GroupsPublished
<1>7. QED BY <1>1, <1>5, <1>6 DEF OutlierInv

(* Every step keeps the count of landed and decided ejections in bounds.   *)
LEMMA OutlierInvStep == OutlierInv /\ [Next]_vars => OutlierInv'
<1> SUFFICES ASSUME OutlierInv, [Next]_vars PROVE OutlierInv'
  OBVIOUS
<1>0. TypeOK /\ TypeOK' /\ DecisionHeld /\ GroupsPublished /\ RoomKept
  BY TypeStep DEF OutlierInv
<1>c. /\ Cardinality(ejected) \in Nat
      /\ Cardinality(Deciding) \in Nat
      /\ Cardinality(Instances) \in Nat
      /\ Percent * Cardinality(Instances) \in Nat
      /\ current \in 1..Gens
  BY <1>0, EjectedCard, DecidingCard DEF TypeOK, Deciding
<1>d. decision' = decision => Deciding' = Deciding
  BY DEF Deciding
<1>1. CASE Reload
  <2>1. /\ current' = current + 1
        /\ ejected' = ejected
        /\ Deciding' = Deciding
        /\ UNCHANGED <<pc, group, decision>>
    BY <1>1, <1>d DEF Reload
  <2>2. RoomKept'
    BY <2>1, <1>0, <1>c DEF RoomKept
  <2>3. Deciding \subseteq Int /\ (\A r \in Requests : group[r] \in Int)
    BY <1>0 DEF Deciding, TypeOK
  <2>4. GroupsPublished'
    BY <2>1, <2>3, <1>0, <1>c DEF GroupsPublished
  <2>5. QED BY <2>1, <2>2, <2>4, <1>0 DEF OutlierInv, DecisionHeld
<1>2. ASSUME NEW i \in Instances, Expire(i) PROVE OutlierInv'
  <2>1. /\ ejected' = ejected \ {i}
        /\ Deciding' = Deciding
        /\ UNCHANGED <<current, pc, group, decision>>
    BY <1>2, <1>d DEF Expire
  <2>2. /\ Cardinality(ejected') \in Nat
        /\ Cardinality(ejected') <= Cardinality(ejected)
    BY <2>1, <1>0, EjectedCard DEF TypeOK
  <2>3. RoomKept'
    BY <2>1, <2>2, <1>0, <1>c DEF RoomKept
  <2>4. QED BY <2>1, <2>3, <1>0 DEF OutlierInv, DecisionHeld, GroupsPublished
<1>3. ASSUME NEW r \in Requests,
             Pick(r) \/ OutcomeGood(r) \/ OutcomeBad(r) \/ OutcomeTrips(r) \/ DecideKeep(r)
      PROVE  OutlierInv'
  <2>1. /\ ejected' = ejected
        /\ decision' = decision
        /\ current' = current
        /\ pc'[r] # "eject"
        /\ group'[r] = group[r] \/ group'[r] = current
        /\ \A q \in Requests : q # r => pc'[q] = pc[q] /\ group'[q] = group[q]
    BY <1>3, <1>0 DEF Pick, OutcomeGood, OutcomeBad, OutcomeTrips, DecideKeep, TypeOK
  <2>2. Deciding' = Deciding
    BY <2>1, <1>d
  <2>3. DecisionHeld'
    BY <2>1, <1>0 DEF DecisionHeld
  <2>4. GroupsPublished'
    BY <2>1, <2>2, <1>0, <1>c DEF GroupsPublished
  <2>5. RoomKept'
    BY <2>1, <2>2, <1>0 DEF RoomKept
  <2>6. QED BY <2>3, <2>4, <2>5, <1>0 DEF OutlierInv
<1>4. ASSUME NEW r \in Requests, DecideEject(r) PROVE OutlierInv'
  <2>1. /\ ejected' = ejected
        /\ ~CapReached
        /\ decision' = [decision EXCEPT ![group[r]] = r]
        /\ decision[group[r]] = None
        /\ group' = group
        /\ current' = current
        /\ pc' = [pc EXCEPT ![r] = "eject"]
    BY <1>4 DEF DecideEject
  <2>2. DecisionHeld'
    BY <2>1, <1>0 DEF DecisionHeld, TypeOK
  <2>3. Deciding' \subseteq Deciding \cup {group[r]}
    BY <2>1, <1>0 DEF Deciding, TypeOK
  <2>4. GroupsPublished'
    BY <2>1, <2>3, <1>0 DEF GroupsPublished
  <2>5. /\ Cardinality(Deciding') \in Nat
        /\ Cardinality(Deciding') <= current
    <3>1. Deciding' \in SUBSET (1..Gens)
      BY DEF Deciding
    <3>2. \A g \in Deciding' : g <= current
      BY <2>4, <2>1 DEF GroupsPublished
    <3>3. QED BY <3>1, <3>2, <1>c, DecidingCard
  <2>6. RoomKept'
    <3>1. (Cardinality(ejected) + 1) * 100 <= Percent * Cardinality(Instances)
      BY <2>1, <1>c DEF CapReached
    <3>2. QED BY <3>1, <2>1, <2>5, <1>c DEF RoomKept
  <2>7. QED BY <2>2, <2>4, <2>6, <1>0 DEF OutlierInv
<1>5. ASSUME NEW r \in Requests, Eject(r) PROVE OutlierInv'
  <2>1. /\ pc[r] = "eject"
        /\ ejected' = ejected \cup {inst[r]}
        /\ decision' = [decision EXCEPT ![group[r]] = None]
        /\ group' = group
        /\ current' = current
        /\ pc' = [pc EXCEPT ![r] = "idle"]
        /\ inst[r] \in Instances
        /\ group[r] \in 1..Gens
    BY <1>5, <1>0 DEF Eject, TypeOK
  <2>2. decision[group[r]] = r /\ r # None
    BY <2>1, <1>0 DEF DecisionHeld
  <2>3. group[r] \in Deciding /\ Deciding' = Deciding \ {group[r]}
    BY <2>1, <2>2, <1>0 DEF Deciding, TypeOK
  <2>4. Cardinality(Deciding') = Cardinality(Deciding) - 1
    BY <2>3, DecidingCard DEF Deciding
  <2>5. /\ Cardinality(ejected') \in Nat
        /\ Cardinality(ejected') <= Cardinality(ejected) + 1
    BY <2>1, <1>0, EjectedCard DEF TypeOK
  <2>6. RoomKept'
    BY <2>1, <2>4, <2>5, <1>0, <1>c DEF RoomKept
  <2>7. GroupsPublished'
    BY <2>1, <2>3, <1>0 DEF GroupsPublished
  <2>8. DecisionHeld'
    <3>1. SUFFICES ASSUME NEW q \in Requests, pc'[q] = "eject"
                   PROVE  decision'[group'[q]] = q
      BY DEF DecisionHeld
    <3>2. q # r /\ pc[q] = "eject"
      BY <3>1, <2>1, <1>0 DEF TypeOK
    <3>3. decision[group[q]] = q
      BY <3>2, <1>0 DEF DecisionHeld
    <3>4. group[q] # group[r]
      BY <3>2, <3>3, <2>2
    <3>5. QED BY <3>3, <3>4, <2>1, <1>0 DEF TypeOK
  <2>9. QED BY <2>6, <2>7, <2>8, <1>0 DEF OutlierInv
<1>6. CASE UNCHANGED vars
  <2>1. Deciding' = Deciding
    BY <1>6, <1>d DEF vars
  <2>2. QED
    BY <1>6, <2>1, <1>0 DEF vars, OutlierInv, DecisionHeld, GroupsPublished, RoomKept
<1>7. QED
  BY <1>1, <1>2, <1>3, <1>4, <1>5, <1>6 DEF Next

(* The counters of record_outcome stay in range, across any number of      *)
(* reloads.                                                                *)
THEOREM OutlierTypes == Spec => []TypeOK
<1>1. Init => TypeOK
  BY InitOutlierInv DEF OutlierInv
<1>2. QED BY <1>1, TypeStep, PTL DEF Spec

(* record_outcome never ejects more than max_ejection_percent of the pool, *)
(* plus one instance per reload; with none, never more than the cap.       *)
THEOREM EjectionsBounded == Spec => []EjectionCap
<1>1. OutlierInv => EjectionCap
  <2> SUFFICES ASSUME OutlierInv PROVE EjectionCap
    OBVIOUS
  <2>1. /\ Cardinality(ejected) \in Nat
        /\ Cardinality(Deciding) \in Nat
        /\ Percent * Cardinality(Instances) \in Nat
        /\ current \in Nat
    BY EjectedCard, DecidingCard DEF OutlierInv, TypeOK, Deciding
  <2>2. QED BY <2>1 DEF OutlierInv, RoomKept, EjectionCap
<1>2. QED BY InitOutlierInv, OutlierInvStep, <1>1, PTL DEF Spec

-----------------------------------------------------------------------------
(* CircuitBreaker, for every number of requests and reloads and every      *)
(* max_requests.                                                           *)

USE GroupsAssumption, MaxOfAssumption

(* One request joins, leaves or stays out of a finite set of requests.     *)
LEMMA JoinOrLeave ==
  ASSUME NEW S \in SUBSET Holders, NEW T \in SUBSET Holders,
         NEW r \in Holders
  PROVE  /\ Cardinality(S) \in Nat /\ Cardinality(T) \in Nat
         /\ T = S \cup {r} /\ r \notin S => Cardinality(T) = Cardinality(S) + 1
         /\ T = S \ {r} /\ r \in S => Cardinality(T) = Cardinality(S) - 1
  <1>1. IsFiniteSet(S) /\ IsFiniteSet(T)
    BY FS_Subset, HoldersAssumption
  <1> QED  BY <1>1, FS_CardinalityType, FS_AddElement, FS_RemoveElement

(* The two counts of a group are numbers.                                  *)
LEMMA CountsAreNat ==
  ASSUME NEW g
  PROVE  /\ Cardinality(Permits(g)) \in Nat
         /\ Cardinality(BackingOut(g)) \in Nat
  <1>1. Permits(g) \in SUBSET Holders /\ BackingOut(g) \in SUBSET Holders
    BY DEF Permits, BackingOut
  <1>2. IsFiniteSet(Permits(g)) /\ IsFiniteSet(BackingOut(g))
    BY <1>1, FS_Subset, HoldersAssumption
  <1> QED  BY <1>2, FS_CardinalityType

BreakerInv == BreakerTypeOK /\ InFlightAccounted /\ PermitsWithinMax

(* Before any forward every counter is zero and nobody holds a permit.     *)
LEMMA InitBreakerInv == BreakerInit => BreakerInv
  <1> SUFFICES ASSUME BreakerInit PROVE BreakerInv
    OBVIOUS
  <1>1. BreakerTypeOK
    <2>1. spurious \in BOOLEAN  BY DEF BreakerInit
    <2> QED  BY <2>1 DEF BreakerInit, BreakerTypeOK
  <1>2. ASSUME NEW g \in 1..Groups
        PROVE  Cardinality(Permits(g)) = 0 /\ Cardinality(BackingOut(g)) = 0
    <2>1. Permits(g) = {} /\ BackingOut(g) = {}
      BY DEF BreakerInit, Permits, BackingOut
    <2> QED  BY <2>1, FS_EmptySet
  <1>3. \A g \in 1..Groups : inFlight[g] = 0
    BY DEF BreakerInit
  <1>4. InFlightAccounted
    BY <1>2, <1>3 DEF InFlightAccounted
  <1>5. PermitsWithinMax
    BY <1>2 DEF PermitsWithinMax
  <1> QED  BY <1>1, <1>4, <1>5 DEF BreakerInv

(* A step moves the counter of one group together with the one request     *)
(* that joins or leaves that group's permits or back-outs.                 *)
LEMMA BreakerInvStep == BreakerInv /\ [BreakerNext]_breakerVars => BreakerInv'
  <1> SUFFICES ASSUME BreakerInv, [BreakerNext]_breakerVars PROVE BreakerInv'
    OBVIOUS
  <1> USE DEF BreakerInv
  <1>1. CASE UNCHANGED breakerVars
    BY <1>1 DEF breakerVars, BreakerTypeOK, InFlightAccounted, PermitsWithinMax, Permits,
                BackingOut
  <1>2. CASE BreakerReload
    <2>1. BreakerTypeOK'
      BY <1>2 DEF BreakerReload, BreakerTypeOK
    <2>2. \A g \in 1..Groups : Permits(g)' = Permits(g)
                             /\ BackingOut(g)' = BackingOut(g)
      BY <1>2 DEF BreakerReload, Permits, BackingOut
    <2>3. inFlight' = inFlight
      BY <1>2 DEF BreakerReload
    <2> QED  BY <2>1, <2>2, <2>3 DEF InFlightAccounted, PermitsWithinMax
  <1>3. ASSUME NEW r \in Holders, AcquireUnlimited(r) \/ DropNoop(r)
        PROVE  BreakerInv'
    <2>1. BreakerTypeOK'
      BY <1>3 DEF AcquireUnlimited, DropNoop, Enter, BreakerTypeOK
    <2>2. \A g \in 1..Groups : Permits(g)' = Permits(g)
                             /\ BackingOut(g)' = BackingOut(g)
      BY <1>3 DEF AcquireUnlimited, DropNoop, Enter, BreakerTypeOK, Permits,
                  BackingOut
    <2>3. inFlight' = inFlight
      BY <1>3 DEF AcquireUnlimited, DropNoop
    <2> QED  BY <2>1, <2>2, <2>3 DEF InFlightAccounted, PermitsWithinMax
  <1>4. ASSUME NEW r \in Holders, Acquire(r)
        PROVE  BreakerInv'
    <2>1. BreakerTypeOK'
      BY <1>4 DEF Acquire, Enter, BreakerTypeOK
    <2>2. routed \in 1..Groups /\ inFlight \in [1..Groups -> Nat]
      BY DEF BreakerTypeOK
    <2>3. ASSUME NEW g \in 1..Groups
          PROVE  /\ inFlight'[g] = Cardinality(Permits(g)')
                                   + Cardinality(BackingOut(g)')
                 /\ MaxOf[g] > 0 => Cardinality(Permits(g)') <= MaxOf[g]
      <3>1. /\ Cardinality(Permits(g)) \in Nat
            /\ Cardinality(BackingOut(g)) \in Nat
            /\ inFlight[g] = Cardinality(Permits(g))
                             + Cardinality(BackingOut(g))
            /\ MaxOf[g] > 0 => Cardinality(Permits(g)) <= MaxOf[g]
        BY CountsAreNat DEF InFlightAccounted, PermitsWithinMax
      <3>2. CASE g # routed
        <4>1. Permits(g)' = Permits(g) /\ BackingOut(g)' = BackingOut(g)
          BY <1>4, <3>2 DEF Acquire, Enter, BreakerTypeOK, Permits, BackingOut
        <4>2. inFlight'[g] = inFlight[g]
          BY <1>4, <2>2, <3>2 DEF Acquire
        <4> QED  BY <3>1, <4>1, <4>2
      <3>3. CASE g = routed /\ inFlight[g] >= MaxOf[g]
        <4>1. /\ Permits(g)' = Permits(g)
              /\ BackingOut(g)' = BackingOut(g) \cup {r}
              /\ r \notin BackingOut(g)
          BY <1>4, <3>3 DEF Acquire, Enter, BreakerTypeOK, Permits, BackingOut
        <4>2. Cardinality(BackingOut(g)') = Cardinality(BackingOut(g)) + 1
          <5>1. /\ BackingOut(g) \in SUBSET Holders
                /\ BackingOut(g)' \in SUBSET Holders
            BY DEF BackingOut
          <5> QED  BY <4>1, <5>1, JoinOrLeave
        <4>3. inFlight'[g] = inFlight[g] + 1
          BY <1>4, <2>2, <3>3 DEF Acquire
        <4> QED  BY <3>1, <4>1, <4>2, <4>3
      <3>4. CASE g = routed /\ ~(inFlight[g] >= MaxOf[g])
        <4>1. /\ Permits(g)' = Permits(g) \cup {r}
              /\ r \notin Permits(g)
              /\ BackingOut(g)' = BackingOut(g)
          BY <1>4, <3>4 DEF Acquire, Enter, BreakerTypeOK, Permits, BackingOut
        <4>2. Cardinality(Permits(g)') = Cardinality(Permits(g)) + 1
          <5>1. Permits(g) \in SUBSET Holders /\ Permits(g)' \in SUBSET Holders
            BY DEF Permits
          <5> QED  BY <4>1, <5>1, JoinOrLeave
        <4>3. inFlight'[g] = inFlight[g] + 1
          BY <1>4, <2>2, <3>4 DEF Acquire
        <4>4. inFlight[g] \in Nat /\ MaxOf[g] \in Nat /\ inFlight[g] < MaxOf[g]
          BY <2>2, <3>4
        <4>5. Cardinality(Permits(g)) + 1 <= MaxOf[g]
          BY <3>1, <4>4
        <4> QED  BY <3>1, <4>1, <4>2, <4>3, <4>5
      <3> QED  BY <3>2, <3>3, <3>4
    <2> QED  BY <2>1, <2>3 DEF InFlightAccounted, PermitsWithinMax
  <1>5. ASSUME NEW r \in Holders, BackOut(r)
        PROVE  BreakerInv'
    <2>1. /\ pinned[r] \in 1..Groups /\ inFlight \in [1..Groups -> Nat]
          /\ stage[r] = "backout"
      BY <1>5 DEF BreakerTypeOK, BackOut
    <2>2. ASSUME NEW g \in 1..Groups
          PROVE  /\ inFlight'[g] \in Nat
                 /\ inFlight'[g] = Cardinality(Permits(g)')
                                   + Cardinality(BackingOut(g)')
                 /\ Permits(g)' = Permits(g)
      <3>1. /\ Cardinality(Permits(g)) \in Nat
            /\ Cardinality(BackingOut(g)) \in Nat
            /\ Cardinality(BackingOut(g)') \in Nat
            /\ inFlight[g] = Cardinality(Permits(g))
                             + Cardinality(BackingOut(g))
        <4>1. BackingOut(g)' \in SUBSET Holders  BY DEF BackingOut
        <4>2. IsFiniteSet(BackingOut(g)')  BY <4>1, FS_Subset, HoldersAssumption
        <4> QED  BY <4>2, FS_CardinalityType, CountsAreNat DEF InFlightAccounted
      <3>2. Permits(g)' = Permits(g)
        BY <1>5 DEF BackOut, BreakerTypeOK, Permits
      <3>3. CASE g # pinned[r]
        <4>1. BackingOut(g)' = BackingOut(g)
          BY <1>5, <3>3 DEF BackOut, BreakerTypeOK, BackingOut
        <4>2. inFlight'[g] = inFlight[g]
          BY <1>5, <2>1, <3>3 DEF BackOut
        <4> QED  BY <2>1, <3>1, <3>2, <4>1, <4>2
      <3>4. CASE g = pinned[r]
        <4>1. BackingOut(g)' = BackingOut(g) \ {r} /\ r \in BackingOut(g)
          BY <1>5, <2>1, <3>4 DEF BackOut, BreakerTypeOK, BackingOut
        <4>2. Cardinality(BackingOut(g)') = Cardinality(BackingOut(g)) - 1
          <5>1. /\ BackingOut(g) \in SUBSET Holders
                /\ BackingOut(g)' \in SUBSET Holders
            BY DEF BackingOut
          <5> QED  BY <4>1, <5>1, JoinOrLeave
        <4>3. inFlight'[g] = inFlight[g] - 1
          BY <1>5, <2>1, <3>4 DEF BackOut
        <4> QED  BY <3>1, <3>2, <4>2, <4>3
      <3> QED  BY <3>3, <3>4
    <2>3. BreakerTypeOK'
      <3>1. inFlight' \in [1..Groups -> Nat]
        <4>1. DOMAIN inFlight' = 1..Groups /\ inFlight' = [g \in 1..Groups |-> inFlight'[g]]
          BY <1>5, <2>1 DEF BackOut
        <4> QED  BY <2>2, <4>1
      <3> QED  BY <1>5, <3>1 DEF BackOut, BreakerTypeOK
    <2> QED  BY <2>2, <2>3 DEF InFlightAccounted, PermitsWithinMax
  <1>6. ASSUME NEW r \in Holders, DropPermit(r)
        PROVE  BreakerInv'
    <2>1. /\ pinned[r] \in 1..Groups /\ inFlight \in [1..Groups -> Nat]
          /\ stage[r] = "held"
      BY <1>6 DEF BreakerTypeOK, DropPermit
    <2>2. ASSUME NEW g \in 1..Groups
          PROVE  /\ inFlight'[g] \in Nat
                 /\ inFlight'[g] = Cardinality(Permits(g)')
                                   + Cardinality(BackingOut(g)')
                 /\ MaxOf[g] > 0 => Cardinality(Permits(g)') <= MaxOf[g]
      <3>1. /\ Cardinality(Permits(g)) \in Nat
            /\ Cardinality(BackingOut(g)) \in Nat
            /\ Cardinality(Permits(g)') \in Nat
            /\ inFlight[g] = Cardinality(Permits(g))
                             + Cardinality(BackingOut(g))
            /\ MaxOf[g] > 0 => Cardinality(Permits(g)) <= MaxOf[g]
        <4>1. Permits(g)' \in SUBSET Holders  BY DEF Permits
        <4>2. IsFiniteSet(Permits(g)')  BY <4>1, FS_Subset, HoldersAssumption
        <4> QED
          BY <4>2, FS_CardinalityType, CountsAreNat
             DEF InFlightAccounted, PermitsWithinMax
      <3>2. BackingOut(g)' = BackingOut(g)
        BY <1>6 DEF DropPermit, BreakerTypeOK, BackingOut
      <3>3. CASE g # pinned[r]
        <4>1. Permits(g)' = Permits(g)
          BY <1>6, <3>3 DEF DropPermit, BreakerTypeOK, Permits
        <4>2. inFlight'[g] = inFlight[g]
          BY <1>6, <2>1, <3>3 DEF DropPermit
        <4> QED  BY <2>1, <3>1, <3>2, <4>1, <4>2
      <3>4. CASE g = pinned[r]
        <4>1. Permits(g)' = Permits(g) \ {r} /\ r \in Permits(g)
          BY <1>6, <2>1, <3>4 DEF DropPermit, BreakerTypeOK, Permits
        <4>2. Cardinality(Permits(g)') = Cardinality(Permits(g)) - 1
          <5>1. Permits(g) \in SUBSET Holders /\ Permits(g)' \in SUBSET Holders
            BY DEF Permits
          <5> QED  BY <4>1, <5>1, JoinOrLeave
        <4>3. inFlight'[g] = inFlight[g] - 1
          BY <1>6, <2>1, <3>4 DEF DropPermit
        <4> QED  BY <3>1, <3>2, <4>2, <4>3
      <3> QED  BY <3>3, <3>4
    <2>3. BreakerTypeOK'
      <3>1. inFlight' \in [1..Groups -> Nat]
        <4>1. DOMAIN inFlight' = 1..Groups /\ inFlight' = [g \in 1..Groups |-> inFlight'[g]]
          BY <1>6, <2>1 DEF DropPermit
        <4> QED  BY <2>2, <4>1
      <3> QED  BY <1>6, <3>1 DEF DropPermit, BreakerTypeOK
    <2> QED  BY <2>2, <2>3 DEF InFlightAccounted, PermitsWithinMax
  <1> QED
    BY <1>1, <1>2, <1>3, <1>4, <1>5, <1>6 DEF BreakerNext

(* The in-flight counters of all group values, superseded ones included,   *)
(* account exactly for permits and back-outs in progress.                  *)
THEOREM CountersExact == BreakerSpec => []InFlightAccounted
  <1>1. BreakerInv => InFlightAccounted  BY DEF BreakerInv
  <1> QED  BY <1>1, InitBreakerInv, BreakerInvStep, PTL DEF BreakerSpec

(* No interleaving of increments, back-outs, drops and reloads lets more   *)
(* than max_requests permits of one group exist at once.                   *)
THEOREM PermitsBounded == BreakerSpec => []PermitsWithinMax
  <1>1. BreakerInv => PermitsWithinMax  BY DEF BreakerInv
  <1> QED  BY <1>1, InitBreakerInv, BreakerInvStep, PTL DEF BreakerSpec

-----------------------------------------------------------------------------
(* ConnLimit, for every set of connections, table, hash and limit: the     *)
(* counters are exact, the limit holds, and the loop of atomic operations  *)
(* implements the one-step admission of module Admission.                  *)

USE SlotOfAssumption, LimitAssumption

LimitInv ==
  /\ LimitTypeOK
  /\ CounterIsGuards
  /\ \A s \in Slots : counter[s] <= Limit

LEMMA HeldIsFinite ==
  ASSUME NEW s
  PROVE  IsFiniteSet(Held(s)) /\ Cardinality(Held(s)) \in Nat
  <1>1. Held(s) \in SUBSET Conns  BY DEF Held
  <1>2. IsFiniteSet(Held(s))  BY <1>1, FS_Subset, ConnsAssumption
  <1> QED  BY <1>2, FS_CardinalityType

LEMMA InitLimitInv == LimitInit => LimitInv
  <1> SUFFICES ASSUME LimitInit PROVE LimitInv
    OBVIOUS
  <1>1. LimitTypeOK  BY DEF LimitInit, LimitTypeOK
  <1>2. ASSUME NEW s \in Slots PROVE Cardinality(Held(s)) = 0
    <2>1. Held(s) = {}  BY DEF LimitInit, Held
    <2> QED  BY <2>1, FS_EmptySet
  <1>3. \A s \in Slots : counter[s] = 0  BY DEF LimitInit
  <1> QED  BY <1>1, <1>2, <1>3 DEF LimitInv, CounterIsGuards

LEMMA LimitInvStep == LimitInv /\ [LimitNext]_limitVars => LimitInv'
  <1> SUFFICES ASSUME LimitInv, [LimitNext]_limitVars PROVE LimitInv'
    OBVIOUS
  <1> USE DEF LimitInv
  <1>1. CASE UNCHANGED limitVars
    BY <1>1 DEF limitVars, LimitTypeOK, CounterIsGuards, Held
  <1>2. ASSUME NEW c \in Conns, Load(c) \/ Refuse(c) \/ ExchangeFails(c)
        PROVE  LimitInv'
    <2>1. SlotOf[c] \in Slots /\ counter[SlotOf[c]] \in Nat
      BY DEF LimitTypeOK
    <2>2. LimitTypeOK' /\ counter' = counter
      BY <1>2, <2>1 DEF Load, Refuse, ExchangeFails, LimitTypeOK
    <2>3. \A s \in Slots : Held(s)' = Held(s)
      BY <1>2 DEF Load, Refuse, ExchangeFails, LimitTypeOK, Held
    <2> QED  BY <2>2, <2>3 DEF CounterIsGuards
  <1>3. ASSUME NEW c \in Conns, Exchange(c)
        PROVE  LimitInv'
    <2>1. /\ SlotOf[c] \in Slots /\ counter \in [Slots -> Nat] /\ cur[c] \in Nat
          /\ counter[SlotOf[c]] = cur[c] /\ cur[c] < Limit
      BY <1>3 DEF LimitTypeOK, Exchange
    <2>2. LimitTypeOK'
      BY <1>3, <2>1 DEF Exchange, LimitTypeOK
    <2>3. ASSUME NEW s \in Slots
          PROVE  counter'[s] = Cardinality(Held(s)') /\ counter'[s] <= Limit
      <3>1. counter[s] = Cardinality(Held(s)) /\ counter[s] <= Limit
        BY DEF CounterIsGuards
      <3>2. CASE s # SlotOf[c]
        <4>1. Held(s)' = Held(s)
          BY <1>3, <3>2 DEF Exchange, LimitTypeOK, Held
        <4>2. counter'[s] = counter[s]
          BY <1>3, <2>1, <3>2 DEF Exchange
        <4> QED  BY <3>1, <4>1, <4>2
      <3>3. CASE s = SlotOf[c]
        <4>1. Held(s)' = Held(s) \cup {c} /\ c \notin Held(s)
          BY <1>3, <3>3 DEF Exchange, LimitTypeOK, Held
        <4>2. Cardinality(Held(s)') = Cardinality(Held(s)) + 1
          BY <4>1, HeldIsFinite, FS_AddElement
        <4>3. counter'[s] = counter[s] + 1
          BY <1>3, <2>1, <3>3 DEF Exchange
        <4> QED  BY <2>1, <3>1, <3>3, <4>2, <4>3
      <3> QED  BY <3>2, <3>3
    <2> QED  BY <2>2, <2>3 DEF CounterIsGuards
  <1>4. ASSUME NEW c \in Conns, DropGuard(c)
        PROVE  LimitInv'
    <2>1. /\ SlotOf[c] \in Slots /\ counter \in [Slots -> Nat]
          /\ place[c] = "held"
      BY <1>4 DEF LimitTypeOK, DropGuard
    <2>2. ASSUME NEW s \in Slots
          PROVE  /\ counter'[s] \in Nat
                 /\ counter'[s] = Cardinality(Held(s)')
                 /\ counter'[s] <= Limit
      <3>1. /\ counter[s] = Cardinality(Held(s)) /\ counter[s] <= Limit
            /\ Cardinality(Held(s)) \in Nat
        BY HeldIsFinite DEF CounterIsGuards
      <3>2. CASE s # SlotOf[c]
        <4>1. Held(s)' = Held(s)
          BY <1>4, <3>2 DEF DropGuard, LimitTypeOK, Held
        <4>2. counter'[s] = counter[s]
          BY <1>4, <2>1, <3>2 DEF DropGuard
        <4> QED  BY <3>1, <4>1, <4>2
      <3>3. CASE s = SlotOf[c]
        <4>1. Held(s)' = Held(s) \ {c} /\ c \in Held(s)
          BY <1>4, <2>1, <3>3 DEF DropGuard, LimitTypeOK, Held
        <4>2. /\ Cardinality(Held(s)') = Cardinality(Held(s)) - 1
              /\ Cardinality(Held(s)') \in Nat
          BY <4>1, HeldIsFinite, FS_RemoveElement, FS_CardinalityType
        <4>3. counter'[s] = counter[s] - 1
          BY <1>4, <2>1, <3>3 DEF DropGuard
        <4> QED  BY <3>1, <4>2, <4>3
      <3> QED  BY <3>2, <3>3
    <2>3. counter' \in [Slots -> Nat]
      <3>1. counter' = [s \in Slots |-> counter'[s]]
        BY <1>4, <2>1 DEF DropGuard
      <3> QED  BY <2>2, <3>1
    <2>4. LimitTypeOK'
      BY <1>4, <2>3 DEF DropGuard, LimitTypeOK
    <2> QED  BY <2>2, <2>4 DEF CounterIsGuards
  <1> QED  BY <1>1, <1>2, <1>3, <1>4 DEF LimitNext

(* A slot of the table never holds more than Limit live guards.            *)
THEOREM LimitHolds == LimitSpec => []WithinLimit
  <1>1. LimitInv => WithinLimit
    BY DEF LimitInv, CounterIsGuards, WithinLimit
  <1> QED  BY <1>1, InitLimitInv, LimitInvStep, PTL DEF LimitSpec

-----------------------------------------------------------------------------
LEMMA StepSimulates == LimitInv /\ [LimitNext]_limitVars => [Abstract!Next]_(Abstract!vars)
  <1> SUFFICES ASSUME LimitInv, [LimitNext]_limitVars PROVE [Abstract!Next]_(Abstract!vars)
    OBVIOUS
  <1>1. CASE UNCHANGED limitVars
    BY <1>1 DEF limitVars, Status, Abstract!vars
  <1>2. ASSUME NEW c \in Conns, Load(c) \/ ExchangeFails(c)
        PROVE  Abstract!Refuse(c) \/ UNCHANGED Abstract!vars
    <2>1. /\ place \in [Conns -> {"start", "loop", "held"}]
          /\ cur \in [Conns -> Nat] /\ counter[SlotOf[c]] \in Nat
          /\ SlotOf[c] \in Slots
      BY DEF LimitInv, LimitTypeOK
    <2>2. Status[c] = "out"
      BY <1>2, <2>1 DEF Load, ExchangeFails, Status
    <2>3. CASE counter[SlotOf[c]] >= Limit
      <3>1. Status' = [Status EXCEPT ![c] = "refused"]
        BY <1>2, <2>1, <2>3 DEF Load, ExchangeFails, Status
      <3>2. Abstract!Full(SlotOf[c])
        BY <2>3 DEF Abstract!Full
      <3> QED
        BY <1>2, <2>2, <3>1, <3>2
           DEF Abstract!Refuse, Abstract!Move, Load, ExchangeFails
    <2>4. CASE ~(counter[SlotOf[c]] >= Limit)
      BY <1>2, <2>1, <2>4 DEF Load, ExchangeFails, Status, Abstract!vars
    <2> QED  BY <2>3, <2>4
  <1>3. ASSUME NEW c \in Conns, Refuse(c)
        PROVE  Abstract!Leave(c)
    <2>1. place \in [Conns -> {"start", "loop", "held"}]  BY DEF LimitInv, LimitTypeOK
    <2>2. Status[c] = "refused" /\ Status' = [Status EXCEPT ![c] = "out"]
      BY <1>3, <2>1 DEF Refuse, Status
    <2> QED  BY <1>3, <2>2 DEF Abstract!Leave, Abstract!Move, Refuse
  <1>4. ASSUME NEW c \in Conns, Exchange(c)
        PROVE  Abstract!Admit(c)
    <2>1. /\ place \in [Conns -> {"start", "loop", "held"}]
          /\ cur \in [Conns -> Nat] /\ SlotOf[c] \in Slots
      BY DEF LimitInv, LimitTypeOK
    <2>2. Status[c] = "out" /\ Status' = [Status EXCEPT ![c] = "in"]
      <3>1. /\ place[c] = "loop" /\ ~(cur[c] >= Limit) /\ cur' = cur
            /\ place' = [place EXCEPT ![c] = "held"]
        BY <1>4, <2>1 DEF Exchange
      <3> QED  BY <2>1, <3>1 DEF Status
    <2>3. ~Abstract!Full(SlotOf[c])
      BY <1>4, <2>1 DEF Exchange, Abstract!Full
    <2>4. counter' = [counter EXCEPT ![SlotOf[c]] = counter[SlotOf[c]] + 1]
      BY <1>4 DEF Exchange
    <2> QED  BY <2>2, <2>3, <2>4 DEF Abstract!Admit, Abstract!Move
  <1>5. ASSUME NEW c \in Conns, DropGuard(c)
        PROVE  Abstract!Release(c)
    <2>1. place \in [Conns -> {"start", "loop", "held"}]  BY DEF LimitInv, LimitTypeOK
    <2>2. Status[c] = "in" /\ Status' = [Status EXCEPT ![c] = "out"]
      BY <1>5, <2>1 DEF DropGuard, Status
    <2> QED  BY <1>5, <2>2 DEF Abstract!Release, Abstract!Move, DropGuard
  <1> QED
    BY <1>1, <1>2, <1>3, <1>4, <1>5 DEF LimitNext, Abstract!Next

(* The compare-and-swap loop implements atomic admission: nobody is        *)
(* refused below the limit and nobody admitted beyond it.                  *)
THEOREM AdmissionRefined == LimitSpec => ImplementsAdmission
  <1>1. LimitInit => Abstract!Init
    BY DEF LimitInit, Abstract!Init, Status
  <1> QED
    BY <1>1, InitLimitInv, LimitInvStep, StepSimulates, PTL
       DEF LimitSpec, ImplementsAdmission, Abstract!Spec
=============================================================================
