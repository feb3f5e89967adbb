------------------------------- MODULE Tables -------------------------------
(***************************************************************************)
(* The two tables that spread requests, each computed once when the        *)
(* configuration is: the schedule of a route's weighted backends           *)
(* (crates/control/src/weighted.rs) and the consistent-hash table of a     *)
(* Maglev group (crates/control/src/maglev.rs).  An entry of `hash` gives a *)
(* backend its two independent hashes.                                     *)
(***************************************************************************)
EXTENDS Integers, Sequences, SequencesExt, FiniteSetsExt, Functions

CONSTANTS MaxBackendWeight, MaxTableLen

(* A backend of weight 0 is drained: it has no part in the split.  The     *)
(* weights of the others are reduced by their greatest common divisor.     *)
Live(weights) == {i \in DOMAIN weights : weights[i] > 0}
Divisor(weights) == Max({d \in 1..MaxBackendWeight : \A i \in Live(weights) : weights[i] % d = 0})
Reduced(weights) == [i \in Live(weights) |-> weights[i] \div Divisor(weights)]
Total(weights) == SumFunction(weights)

(* validate_split, which both the checks before a reload and the table's   *)
(* constructor run.                                                        *)
ValidSplit(weights) ==
  /\ weights # << >>
  /\ \A i \in DOMAIN weights : weights[i] <= MaxBackendWeight
  /\ Live(weights) # {}
  /\ Total(Reduced(weights)) <= MaxTableLen

(* The backend with the greatest deficit, the lowest index on a tie.       *)
Neediest(deficit) ==
  CHOOSE i \in DOMAIN deficit :
    \A j \in DOMAIN deficit :
      deficit[i] > deficit[j] \/ (deficit[i] = deficit[j] /\ i <= j)

(* A step of maximum-deficit apportionment: credit every backend its       *)
(* weight, serve the neediest, debit the total from it.                    *)
Credited(weights, deficit) == [i \in DOMAIN weights |-> deficit[i] + weights[i]]
Debited(weights, deficit) ==
  LET credited == Credited(weights, deficit)
  IN  [credited EXCEPT ![Neediest(credited)] = @ - Total(weights)]

(* The deficits after each step of one period.                             *)
Deficits(weights) ==
  LET after[k \in 0..Total(weights)] ==
        IF k = 0 THEN [i \in DOMAIN weights |-> 0] ELSE Debited(weights, after[k - 1])
  IN  after

WeightedSchedule(weights) ==
  [k \in 1..Total(weights) |-> Neediest(Credited(weights, Deficits(weights)[k - 1]))]

(* The entries are the backends' places in the manifest.                   *)
Table(weights) == WeightedSchedule(Reduced(weights))

-----------------------------------------------------------------------------
Empty == -1

(* Each backend walks its own permutation of the slots.                    *)
SlotAt(hash, size, k) == (hash[1] + k * ((hash[2] % (size - 1)) + 1)) % size

(* The first free slot of a permutation that has not been tried yet.  With *)
(* a size that is not prime there may be none, and the code would spin.    *)
FirstFree(table, hash, size, from) ==
  LET free == {k \in from..(from + size) : table[SlotAt(hash, size, k)] = Empty}
  IN  IF free = {} THEN Empty ELSE Min(free)

(* A backend's turn in a round: when round * weight reaches its target.    *)
(* Targets start at the weight, so that everyone has a turn in round one.  *)
Seed(weights) == weights

Turn(hashes, weights, size, acc, round, i) ==
  LET k == FirstFree(acc.table, hashes[i], size, acc.next[i])
  IN  IF acc.filled = size \/ acc.stuck \/ weights[i] = 0
         \/ round * weights[i] < acc.target[i]
      THEN acc
      ELSE IF k = Empty THEN [acc EXCEPT !.stuck = TRUE]
      ELSE [acc EXCEPT !.table[SlotAt(hashes[i], size, k)] = i,
                       !.next[i] = k + 1,
                       !.filled = @ + 1,
                       !.target[i] = @ + Max({weights[j] : j \in DOMAIN weights})]

(* The heaviest backend has a turn in every round, so that `size` rounds   *)
(* fill the table.                                                         *)
Build(hashes, weights, size) ==
  LET n == Len(weights)
      start == [table |-> [s \in 0..(size - 1) |-> Empty], filled |-> 0,
                stuck |-> FALSE, next |-> [i \in DOMAIN weights |-> 0], target |-> Seed(weights)]
      turns == [k \in 0..(size * n - 1) |-> <<(k \div n) + 1, (k % n) + 1>>]
      after[k \in 0..(size * n)] ==
        IF k = 0 THEN start
        ELSE Turn(hashes, weights, size, after[k - 1], turns[k - 1][1], turns[k - 1][2])
  IN  IF (\A i \in 1..n : weights[i] = 0) \/ size < 2 THEN << >> ELSE after[size * n].table
=============================================================================
