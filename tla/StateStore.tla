----------------------------- MODULE StateStore -----------------------------
(***************************************************************************)
(* The state a filter keeps in its host: crates/host/src/state.rs (the     *)
(* capability calls), quota.rs (the tally of rows and bytes, charged under *)
(* a stripe lock) and backend.rs (the in-memory map, and the redb file     *)
(* whose writers combine: one caller drains the queue of jobs, commits     *)
(* them in a transaction and answers the others).  A row is its length; a  *)
(* crash takes the file back to its last durable commit.                   *)
(***************************************************************************)
EXTENDS Integers, FiniteSets, Functions, Sequences, SequencesExt

CONSTANTS Callers,         \* guest instances that call the host
          Keys,            \* namespaced keys: {filter}{tag}{key}
          NsOf,            \* the filter's namespace, kv_prefix
          TagOf,           \* "k", "c" or "r": kv, counter, rate limit
          StripeOf,        \* the stripe a key hashes to
          KeyLen,          \* bytes of the guest's key
          ValueLens,       \* lengths a guest writes with set
          CounterLen,      \* 8 bytes
          BucketLen,       \* 16 bytes
          MaxNsEntries, MaxNsBytes, MaxTotalEntries, MaxTotalBytes,
          MaxBatch,        \* MAX_BATCH_OPS
          MaxRounds,       \* MAX_COMBINE_ROUNDS
          FlushEvery,      \* DURABLE_FLUSH_EVERY
          Legacy,          \* the rows an earlier version may have left
          MaxFaults,       \* bound on I/O errors and panics
          None

Namespaces == Range(NsOf)

(* What a host is configured with.                                         *)
ASSUME ShapeAssumption ==
  /\ IsFiniteSet(Callers) /\ IsFiniteSet(Keys)
  /\ DOMAIN NsOf = Keys /\ DOMAIN StripeOf = Keys
  /\ TagOf \in [Keys -> {"k", "c", "r"}]
  /\ KeyLen \in [Keys -> Nat] /\ ValueLens \subseteq Nat
  /\ None \notin Callers \cup Nat \cup {"ok", "error"}
  /\ Legacy \subseteq [Keys -> Nat \cup {None}]

ASSUME BoundsAssumption ==
  /\ {CounterLen, BucketLen, MaxNsEntries, MaxNsBytes, MaxTotalEntries,
      MaxTotalBytes, MaxFaults} \subseteq Nat
  /\ {MaxBatch, MaxRounds, FlushEvery} \subseteq Nat \ {0}

VARIABLES backend,   \* "memory" or "redb": which KvBackend the host was given
          db,        \* what a read sees: the length of a row, or None
          durable,   \* what a crash leaves
          tally,     \* QuotaInner: rows and bytes by namespace
          stripe,    \* the holder of each stripe lock
          at, op,    \* a caller's place in charge_and_apply and submit
          delta,     \* what read_and_delta returned to it
          queue,     \* the jobs channel: WriteJobs in order
          combiner,  \* the holder of the combine lock
          rounds,    \* rounds the combiner has done
          batch,     \* the jobs it drained
          reply,     \* each caller's one-shot reply channel
          run,       \* non_durable_run
          unsynced,  \* history: ops of each kind committed since the last durable commit
          faults,    \* errors so far in this process
          boot       \* history: the keys the file held at the last start

storeVars == <<backend, boot, db, durable, tally, stripe, at, op, delta, queue, combiner,
          rounds, batch, reply, run, unsynced, faults>>
caller == <<at, op, delta, stripe>>
combining == <<queue, combiner, rounds, batch, reply>>
store == <<db, durable, run, unsynced>>
fixed == <<backend, boot>>

Row == Nat \cup {None}
(* The calls that reach the quota.  One that stops before it (an oversized *)
(* key or value, a read, a filter with no bucket) changes nothing.         *)
KvOps ==
  LET keys == {k \in Keys : TagOf[k] = "k"}
  IN  [kind : {"set"}, key : keys, len : ValueLens]
      \cup [kind : {"delete"}, key : keys, len : {None}]

CounterOps ==
  [kind : {"increment"}, key : {k \in Keys : TagOf[k] = "c"}, len : {CounterLen}]

BucketOps ==
  [kind : {"acquire"}, key : {k \in Keys : TagOf[k] = "r"}, len : {BucketLen}]

Ops == KvOps \cup CounterOps \cup BucketOps

(* -- quota.rs ----------------------------------------------------------- *)
Stored(rows, n) == {k \in Keys : NsOf[k] = n /\ rows[k] # None}

Bytes(rows, S) == SumFunction([k \in S |-> KeyLen[k] + rows[k]])

(* KvQuota::restore: one record_restored_entry per row of the inventory    *)
Restore(rows) ==
  [n \in Namespaces |-> [entries |-> Cardinality(Stored(rows, n)),
                         bytes |-> Bytes(rows, Stored(rows, n))]]

Total(t, field) == SumFunction([n \in Namespaces |-> t[n][field]])

(* The delta a mutation costs, given the row its closure read              *)
DeltaOf(o, old) ==
  CASE o.kind = "delete" -> IF old = None THEN [entries |-> 0, bytes |-> 0]
                            ELSE [entries |-> -1, bytes |-> -(KeyLen[o.key] + old)]
    [] OTHER -> IF old = None THEN [entries |-> 1, bytes |-> KeyLen[o.key] + o.len]
                ELSE [entries |-> 0, bytes |-> o.len - old]

Charged(n, d) ==
  [tally EXCEPT ![n] = [entries |-> @.entries + d.entries, bytes |-> @.bytes + d.bytes]]

AdmitsTotalsOnly(n, d) ==
  LET t == Charged(n, d)
  IN  /\ t[n].entries >= 0 /\ t[n].bytes >= 0
      /\ d.entries > 0 => Total(t, "entries") <= MaxTotalEntries

(* the checked additions, then growth against every cap                    *)
Admits(n, d) ==
  LET t == Charged(n, d)
  IN  /\ t[n].entries >= 0 /\ t[n].bytes >= 0
      /\ Total(t, "entries") >= 0 /\ Total(t, "bytes") >= 0
      /\ d.entries > 0 \/ d.bytes > 0 =>
           /\ t[n].entries <= MaxNsEntries /\ t[n].bytes <= MaxNsBytes
           /\ Total(t, "entries") <= MaxTotalEntries
           /\ Total(t, "bytes") <= MaxTotalBytes

(* -- backend.rs --------------------------------------------------------- *)
Durably(o) == o.kind \in {"set", "delete"}

ApplyOp(rows, o) == [rows EXCEPT ![o.key] = o.len]

ApplyBatch(rows, b) == FoldLeft(LAMBDA acc, job : ApplyOp(acc, job.op), rows, b)

NoneUnsynced == [k \in {"set", "delete", "increment", "acquire"} |-> 0]

ImmediateByCommits(b) ==
  \/ \E i \in DOMAIN b : Durably(b[i].op)
  \/ run + 1 > FlushEvery

(* durability_for_batch                                                    *)
Immediate(b) ==
  \/ \E i \in DOMAIN b : Durably(b[i].op)
  \/ run + Len(b) >= FlushEvery

StoreInit ==
  /\ backend \in {"memory", "redb"}
  /\ durable \in (IF backend = "redb" THEN Legacy ELSE {[k \in Keys |-> None]})
  /\ db = durable
  /\ boot = {k \in Keys : db[k] # None}
  /\ tally = Restore(db)
  /\ stripe = [s \in Range(StripeOf) |-> None]
  /\ at = [t \in Callers |-> "idle"]
  /\ op = [t \in Callers |-> None]
  /\ delta = [t \in Callers |-> None]
  /\ queue = <<>> /\ combiner = None /\ rounds = 0 /\ batch = <<>>
  /\ reply = [t \in Callers |-> None]
  /\ run = 0 /\ unsynced = NoneUnsynced /\ faults = 0

MoveTo(t, l) == at' = [at EXCEPT ![t] = l]

(* The call returns to the guest; the stripe guard is dropped.             *)
Leave(t) ==
  /\ at' = [at EXCEPT ![t] = "idle"]
  /\ stripe' = [stripe EXCEPT ![StripeOf[op[t].key]] = None]
  /\ op' = [op EXCEPT ![t] = None]
  /\ delta' = [delta EXCEPT ![t] = None]

Fault == /\ faults < MaxFaults
         /\ faults' = faults + 1

CallUnlocked(t, o) ==
  /\ at[t] = "idle"
  /\ stripe' = [stripe EXCEPT ![StripeOf[o.key]] = t]
  /\ op' = [op EXCEPT ![t] = o]
  /\ MoveTo(t, "read")
  /\ UNCHANGED <<fixed, delta, tally, combining, store, faults>>

(* set, delete, increment or try_acquire takes its key's stripe            *)
Call(t, o) ==
  /\ at[t] = "idle"
  /\ stripe[StripeOf[o.key]] = None
  /\ stripe' = [stripe EXCEPT ![StripeOf[o.key]] = t]
  /\ op' = [op EXCEPT ![t] = o]
  /\ MoveTo(t, "read")
  /\ UNCHANGED <<fixed, delta, tally, combining, store, faults>>

Reads(t, old) ==
  /\ at[t] = "read"
  /\ delta' = [delta EXCEPT ![t] = DeltaOf(op[t], old)]
  /\ MoveTo(t, "charge")
  /\ UNCHANGED <<fixed, stripe, op, tally, combining, store>>

(* read_and_delta: kv.get in the closure                                   *)
Read(t) == Reads(t, db[op[t].key]) /\ UNCHANGED faults

(* RedbBackend::get treats a failed read as an absent key                  *)
ReadFails(t) == backend = "redb" /\ Reads(t, None) /\ Fault

(* the tally's critical section: an admitted call goes on to apply()       *)
Charge(t) ==
  /\ at[t] = "charge"
  /\ Admits(NsOf[op[t].key], delta[t])
  /\ tally' = Charged(NsOf[op[t].key], delta[t])
  /\ MoveTo(t, "apply")
  /\ UNCHANGED <<fixed, stripe, op, delta, combining, store, faults>>

(* over quota: None, and the write never happens                           *)
Deny(t) ==
  /\ at[t] = "charge"
  /\ ~ Admits(NsOf[op[t].key], delta[t])
  /\ Leave(t)
  /\ UNCHANGED <<fixed, tally, combining, store, faults>>

(* MemoryBackend: the map changes under its own lock                       *)
ApplyInMemory(t) ==
  /\ at[t] = "apply" /\ backend = "memory"
  /\ db' = ApplyOp(db, op[t])
  /\ Leave(t)
  /\ UNCHANGED <<fixed, durable, run, unsynced, tally, combining, faults>>

(* RedbBackend::submit queues its job and enters the loop                  *)
Submit(t) ==
  /\ at[t] = "apply" /\ backend = "redb"
  /\ queue' = Append(queue, [owner |-> t, op |-> op[t]])
  /\ MoveTo(t, "poll")
  /\ UNCHANGED <<fixed, stripe, op, delta, tally, combiner, rounds, batch, reply,
                 store, faults>>

(* try_recv, or recv_timeout, finds the answer                             *)
Return(t) ==
  /\ at[t] \in {"poll", "parked"} /\ reply[t] # None
  /\ reply' = [reply EXCEPT ![t] = None]
  /\ Leave(t)
  /\ UNCHANGED <<fixed, tally, queue, combiner, rounds, batch, store, faults>>

(* try_recv comes up empty                                                 *)
PollEmpty(t) ==
  /\ at[t] = "poll" /\ reply[t] = None
  /\ MoveTo(t, "elect")
  /\ UNCHANGED <<fixed, stripe, op, delta, tally, combining, store, faults>>

(* combine.try_lock()                                                      *)
Elect(t) ==
  /\ at[t] = "elect" /\ combiner = None
  /\ combiner' = t
  /\ MoveTo(t, "drain")
  /\ UNCHANGED <<fixed, stripe, op, delta, tally, queue, rounds, batch, reply, store, faults>>

(* another caller combines: wait on the reply, 100 microseconds at most    *)
Park(t) ==
  /\ at[t] = "elect" /\ combiner # None
  /\ MoveTo(t, "parked")
  /\ UNCHANGED <<fixed, stripe, op, delta, tally, combining, store, faults>>

ParkHeld(t) == FALSE

(* recv_timeout expires: the caller re-enters the election                 *)
ParkExpires(t) ==
  /\ at[t] = "parked" /\ reply[t] = None
  /\ MoveTo(t, "poll")
  /\ UNCHANGED <<fixed, stripe, op, delta, tally, combining, store, faults>>

(* one round: at most MaxBatch jobs leave the queue                        *)
Drain(t) ==
  /\ at[t] = "drain" /\ rounds < MaxRounds /\ queue # <<>>
  /\ LET n == IF Len(queue) < MaxBatch THEN Len(queue) ELSE MaxBatch
     IN  /\ batch' = SubSeq(queue, 1, n)
         /\ queue' = SubSeq(queue, n + 1, Len(queue))
  /\ rounds' = rounds + 1
  /\ MoveTo(t, "commit")
  /\ UNCHANGED <<fixed, stripe, op, delta, tally, combiner, reply, store, faults>>

(* an empty drain, or the last round: the lock is still held               *)
DrainEnds(t) ==
  /\ at[t] = "drain" /\ (rounds = MaxRounds \/ queue = <<>>)
  /\ MoveTo(t, "unlock")
  /\ UNCHANGED <<fixed, stripe, op, delta, tally, combining, store, faults>>

(* every caller of the batch gets its outcome                              *)
Owners(b) == {b[i].owner : i \in DOMAIN b}

Answer(outcome) ==
  /\ reply' = [u \in Callers |-> IF u \in Owners(batch) THEN outcome ELSE reply[u]]
  /\ batch' = <<>>

(* record_successful_commit: the flush cadence moves                       *)
RecordCommit(b) ==
  IF Immediate(b)
  THEN durable' = db' /\ run' = 0 /\ unsynced' = NoneUnsynced
  ELSE /\ run' = run + Len(b)
       /\ unsynced' = [k \in DOMAIN unsynced |->
            unsynced[k] + Cardinality({i \in DOMAIN b : b[i].op.kind = k})]
       /\ UNCHANGED durable

(* apply_batch, one transaction; then the replies                          *)
Commit(t) ==
  /\ at[t] = "commit"
  /\ db' = ApplyBatch(db, batch)
  /\ RecordCommit(batch)
  /\ Answer("ok")
  /\ MoveTo(t, "drain")
  /\ UNCHANGED <<fixed, stripe, op, delta, tally, queue, combiner, rounds, faults>>

(* the transaction fails: all of the batch fails with it, and the          *)
(* combiner stops                                                          *)
CommitFails(t) ==
  /\ at[t] = "commit"
  /\ Fault
  /\ Answer("error")
  /\ MoveTo(t, "unlock")
  /\ UNCHANGED <<fixed, stripe, op, delta, tally, queue, combiner, rounds, store>>

(* the combiner unwinds: its lock and its stripe are released, the reply   *)
(* channels of its batch disconnect, and a job of its own that is still    *)
(* queued behind the batch stays there with nobody to answer               *)
CombinerDies(t) ==
  /\ at[t] = "commit"
  /\ Fault
  /\ reply' = [u \in Callers |-> CASE u = t -> None
                                   [] u \in Owners(batch) \ {t} -> "error"
                                   [] OTHER -> reply[u]]
  /\ queue' = [i \in DOMAIN queue |->
                 IF queue[i].owner = t THEN [queue[i] EXCEPT !.owner = None]
                 ELSE queue[i]]
  /\ batch' = <<>> /\ combiner' = None /\ rounds' = 0
  /\ Leave(t)
  /\ UNCHANGED <<fixed, tally, store>>

(* The guard goes out of scope and the caller looks for its own answer.    *)
Unlock(t) ==
  /\ at[t] = "unlock"
  /\ combiner' = None /\ rounds' = 0
  /\ MoveTo(t, "poll")
  /\ UNCHANGED <<fixed, stripe, op, delta, tally, queue, batch, reply, store, faults>>

(* The process is killed and started again over the same file: the tally   *)
(* is counted anew from what the file holds.                               *)
Crash ==
  /\ backend = "redb"
  /\ db' = durable
  /\ tally' = Restore(durable)
  /\ stripe' = [s \in Range(StripeOf) |-> None]
  /\ at' = [t \in Callers |-> "idle"]
  /\ op' = [t \in Callers |-> None] /\ delta' = [t \in Callers |-> None]
  /\ queue' = <<>> /\ combiner' = None /\ rounds' = 0 /\ batch' = <<>>
  /\ reply' = [t \in Callers |-> None]
  /\ run' = 0 /\ unsynced' = NoneUnsynced /\ faults' = 0
  /\ boot' = {k \in Keys : durable[k] # None}
  /\ UNCHANGED <<backend, durable>>

StoreStep(t) ==
  \/ Read(t) \/ ReadFails(t) \/ Charge(t) \/ Deny(t) \/ ApplyInMemory(t)
  \/ Submit(t) \/ Return(t) \/ PollEmpty(t) \/ Elect(t) \/ Park(t) \/ ParkExpires(t)
  \/ Drain(t) \/ DrainEnds(t) \/ Commit(t)
  \/ CommitFails(t) \/ CombinerDies(t) \/ Unlock(t)

StoreNext ==
  \/ \E t \in Callers, o \in Ops : Call(t, o)
  \/ \E t \in Callers : StoreStep(t)
  \/ Crash

StoreFairness == \A t \in Callers : WF_storeVars(StoreStep(t))

StoreSpec == StoreInit /\ [][StoreNext]_storeVars /\ StoreFairness

-----------------------------------------------------------------------------
(* The state's shape; the combine lock has the holder its place in the     *)
(* code says.                                                              *)
StoreTypeOK ==
  /\ db \in [Keys -> Row] /\ durable \in [Keys -> Row]
  /\ \A n \in Namespaces : tally[n].entries \in Nat /\ tally[n].bytes \in Nat
  /\ op \in [Callers -> Ops \cup {None}]
  /\ \A q \in {queue, batch} : \A i \in DOMAIN q :
       q[i].owner \in Callers \cup {None} /\ q[i].op \in Ops
  /\ reply \in [Callers -> {None, "ok", "error"}]
  /\ \A t \in Callers :
       (at[t] \in {"drain", "commit", "unlock"}) = (combiner = t)

(* A call whose delta is in the tally and whose write is not in the rows   *)
Pending(t) ==
  /\ at[t] \notin {"idle", "read", "charge"}
  /\ reply[t] = None

(* While no read or write has failed, the tally of a namespace is its rows *)
(* and bytes plus what the calls under way have charged for: two instances *)
(* of one filter that race on a key neither charge it twice nor release it *)
(* twice.  (A failed write is not rolled back, quota.rs line 294.)         *)
TallyExact ==
  faults = 0 => \A n \in Namespaces :
    LET calls == {t \in Callers : Pending(t) /\ NsOf[op[t].key] = n}
    IN  /\ tally[n].entries = Cardinality(Stored(db, n))
                              + SumFunction([t \in calls |-> delta[t].entries])
        /\ tally[n].bytes = Bytes(db, Stored(db, n))
                            + SumFunction([t \in calls |-> delta[t].bytes])

(* A charged write that takes a row away or makes it shorter               *)
Releasing(t) == Pending(t) /\ (delta[t].entries < 0 \/ delta[t].bytes < 0)

(* While nothing has failed and nothing is being released, a filter is     *)
(* over its caps only with rows an earlier version left, and all filters   *)
(* together are over theirs only with such rows: what growth the host      *)
(* admits stays within the caps, counted in the rows themselves.  (A       *)
(* delete or a shorter value is released from the tally before the row     *)
(* changes, so rows may exceed a cap by the releases in progress.)         *)
CapsHold ==
  faults = 0 /\ ~(\E t \in Callers : Releasing(t)) =>
    /\ \A n \in Namespaces :
         \/ /\ Cardinality(Stored(db, n)) <= MaxNsEntries
            /\ Bytes(db, Stored(db, n)) <= MaxNsBytes
         \/ Stored(db, n) \subseteq boot
    /\ \/ /\ Total(Restore(db), "entries") <= MaxTotalEntries
          /\ Total(Restore(db), "bytes") <= MaxTotalBytes
       \/ {k \in Keys : db[k] # None} \subseteq boot

(* A crash never takes back a set or a delete that was answered, and fewer *)
(* than FlushEvery operations in all: what the file has not synced holds   *)
(* hot operations only, and few of them.                                   *)
CrashLosesLittle ==
  backend = "redb" =>
    /\ unsynced["increment"] + unsynced["acquire"] < FlushEvery
    /\ unsynced["set"] + unsynced["delete"] = 0
    /\ unsynced = NoneUnsynced => db = durable

(* Every write that is queued is answered, although the combiner that      *)
(* drained last may not have seen it: its owner runs for combiner itself.  *)
WritesAnswered(t) == at[t] = "poll" ~> at[t] = "idle"
=============================================================================
