----------------------------- MODULE Transaction -----------------------------
(***************************************************************************)
(* The request path of crates/server/src/proxy.rs and what it keeps hold   *)
(* of: the admission permit of request_limit, shared by everything a       *)
(* request still has running; the byte reservations of body_buffer_budget, *)
(* which travel with the buffered bytes; the breaker slot of the upstream  *)
(* group.  A request is one task (its future) that may leave behind a      *)
(* blocking job, bytes in the upstream transport's write buffer, a drain,  *)
(* a tunnel and a response body, each ending in its own time.              *)
(*                                                                         *)
(* live and held, and likewise bytes and resv, say who still works and who *)
(* holds a clone of the permit; the code keeps the two together by moving  *)
(* clones, and the properties are about the first being covered by the     *)
(* second.  The code between two awaits is one step of the future.         *)
(***************************************************************************)
EXTENDS Integers, Sequences, FiniteSets

CONSTANTS Requests,     \* identities, reused once a request has left nothing behind
          MaxInflight,  \* MAX_INFLIGHT_REQUESTS
          Budget,       \* MAX_INFLIGHT_BODY_BUFFER_BYTES, in bodies of one cap
          MaxRequests   \* circuit_breaker max_requests of the one upstream group

ASSUME LimitsAssumption ==
  /\ IsFiniteSet(Requests)
  /\ MaxInflight \in Nat \ {0} /\ Budget \in Nat \ {0} /\ MaxRequests \in Nat \ {0}

VARIABLES pc,       \* where the future stands
          live,     \* what still works for the request
          held,     \* which of it owns a clone of the admission permit
          bytes,    \* where buffered bytes of each body sit
          resv,     \* which of those own the body's reservation
          breaker,  \* the owner of the breaker slot
          partial,  \* only the head of the response was buffered
          queue     \* the waiters of body_buffer_budget, first in first out

vars == <<pc, live, held, bytes, resv, breaker, partial, queue>>

Activities == {"future", "job", "wire", "drain", "tunnel", "body"}
Bodies == {"req", "resp"}
Phases == {"request", "switch", "response"}

Waiting(k) == [req |-> "wait req", resp |-> "wait resp"][k]
Reading(k) == [req |-> "read req", resp |-> "read resp"][k]

(* The body hook runs as a blocking job.                                   *)
Hooking(k) == [req |-> "hook req", resp |-> "hook resp"][k]

(* A header chain is about to run, continues as a blocking job, or has let *)
(* the message through.                                                    *)
Chain(ph) == [request |-> "chain request", switch |-> "chain switch",
              response |-> "chain response"][ph]
Job(ph) == [request |-> "job request", switch |-> "job switch",
            response |-> "job response"][ph]
Chained(ph) == [request |-> "after request", switch |-> "after switch",
                response |-> "after response"][ph]

Awaits == {Waiting(k) : k \in Bodies} \cup {Reading(k) : k \in Bodies}
            \cup {Hooking(k) : k \in Bodies} \cup {Job(ph) : ph \in Phases}
            \cup {"forward"}

TypeOK ==
  /\ pc \in [Requests -> {"idle", "breaker", "deliver"} \cup Awaits
               \cup {Chain(ph) : ph \in Phases} \cup {Chained(ph) : ph \in Phases}]
  /\ live \in [Requests -> SUBSET Activities]
  /\ held \in [Requests -> SUBSET Activities]
  /\ bytes \in [Requests -> [Bodies -> SUBSET Activities]]
  /\ resv \in [Requests -> [Bodies -> SUBSET Activities]]
  /\ breaker \in [Requests -> {"none", "future", "tunnel"}]
  /\ partial \in [Requests -> BOOLEAN]
  /\ queue \in Seq(Requests \X Bodies)

Init ==
  /\ pc = [r \in Requests |-> "idle"]
  /\ live = [r \in Requests |-> {}]
  /\ held = [r \in Requests |-> {}]
  /\ bytes = [r \in Requests |-> [k \in Bodies |-> {}]]
  /\ resv = [r \in Requests |-> [k \in Bodies |-> {}]]
  /\ breaker = [r \in Requests |-> "none"]
  /\ partial = [r \in Requests |-> FALSE]
  /\ queue = <<>>

-----------------------------------------------------------------------------
(* The three semaphores.  A permit is back once its last clone is dropped. *)
Admitted == {r \in Requests : held[r] # {}}

Reserved == {b \in Requests \X Bodies : resv[b[1]][b[2]] # {}}

InFlight == {r \in Requests : breaker[r] # "none"}

Goto(r, l) == pc' = [pc EXCEPT ![r] = l]

ActivityDrainBare(r, gone, new) ==
  /\ live' = [live EXCEPT ![r] = (@ \ gone) \cup new]
  /\ held' = [held EXCEPT ![r] = (@ \ gone) \cup (new \ {"drain"})]

(* Work of request r that ends, and work that starts with a clone of the   *)
(* admission permit.                                                       *)
Activity(r, gone, new) ==
  /\ live' = [live EXCEPT ![r] = (@ \ gone) \cup new]
  /\ held' = [held EXCEPT ![r] = (@ \ gone) \cup new]

SitsBareOnWire(r, k, places) ==
  /\ bytes' = [bytes EXCEPT ![r][k] = places]
  /\ resv' = [resv EXCEPT ![r][k] = places \ {"wire"}]

(* The buffered bytes of a body now sit in these places, each owning the   *)
(* reservation: the permit moves with the buffer, and bytes_with_permit    *)
(* makes it part of what the transport is given.                           *)
Sits(r, k, places) ==
  /\ bytes' = [bytes EXCEPT ![r][k] = places]
  /\ resv' = [resv EXCEPT ![r][k] = places]

AnswerWithSlot(r, new) ==
  /\ Goto(r, "deliver")
  /\ Activity(r, {"future"}, new \cup {"body"})
  /\ breaker' = [breaker EXCEPT ![r] = IF @ = "future" THEN "body" ELSE @]
  /\ partial' = [partial EXCEPT ![r] = FALSE]

(* The routed block returns a response: its locals are dropped, the breaker *)
(* slot with them, and the response body takes the admission permit along. *)
Answer(r, new) ==
  /\ Goto(r, "deliver")
  /\ Activity(r, {"future"}, new \cup {"body"})
  /\ breaker' = [breaker EXCEPT ![r] = "none"]
  /\ partial' = [partial EXCEPT ![r] = FALSE]

-----------------------------------------------------------------------------
(* try_acquire_owned; at the cap the request is answered 503 and leaves no *)
(* trace here.                                                             *)
Admit(r) ==
  /\ pc[r] = "idle" /\ live[r] = {} /\ held[r] = {}
  /\ Cardinality(Admitted) < MaxInflight
  /\ Goto(r, Chain("request"))
  /\ Activity(r, {}, {"future"})
  /\ UNCHANGED <<bytes, resv, breaker, partial, queue>>

(* A chain runs inline on the worker, or its first blocking filter and the *)
(* rest go to the blocking pool.                                           *)
ChainInline(r, ph) ==
  /\ pc[r] = Chain(ph)
  /\ Goto(r, Chained(ph))
  /\ UNCHANGED <<live, held, bytes, resv, breaker, partial, queue>>

ChainBlocks(r, ph) ==
  /\ pc[r] = Chain(ph)
  /\ Goto(r, Job(ph))
  /\ Activity(r, {}, {"job"})
  /\ UNCHANGED <<bytes, resv, breaker, partial, queue>>

ChainJobEnds(r, ph) ==
  /\ pc[r] = Job(ph)
  /\ Goto(r, Chained(ph))
  /\ Activity(r, {"job"}, {})
  /\ UNCHANGED <<bytes, resv, breaker, partial, queue>>

(* A bad path, no route, the rate limit, a filter's answer, a failed chain *)
(* or no healthy upstream.                                                 *)
EarlyAnswer(r) ==
  /\ pc[r] \in {Chain("request"), Chained("request")}
  /\ Answer(r, {})
  /\ UNCHANGED <<bytes, resv, queue>>

-----------------------------------------------------------------------------
(* request_body_hook.                                                      *)
HookSkipped(r) ==
  /\ pc[r] = Chained("request")
  /\ Goto(r, "breaker")
  /\ UNCHANGED <<live, held, bytes, resv, breaker, partial, queue>>

Wait(r, k) ==
  /\ Goto(r, Waiting(k))
  /\ queue' = Append(queue, <<r, k>>)

HookWaits(r) ==
  /\ pc[r] = Chained("request")
  /\ Wait(r, "req")
  /\ UNCHANGED <<live, held, bytes, resv, breaker, partial>>

(* acquire_many_owned on a fair semaphore.                                 *)
Granted(r, k) ==
  /\ pc[r] = Waiting(k)
  /\ queue # <<>> /\ Head(queue) = <<r, k>>
  /\ Cardinality(Reserved) < Budget
  /\ queue' = Tail(queue)
  /\ Goto(r, Reading(k))
  /\ Sits(r, k, {"future"})
  /\ UNCHANGED <<live, held, breaker, partial>>

(* 413, 400 or 408 for the client's body; 502 or 504 for the upstream's,   *)
(* whose connection is simply dropped.                                     *)
ReadFails(r, k) ==
  /\ pc[r] = Reading(k)
  /\ Answer(r, {})
  /\ Sits(r, k, {})
  /\ UNCHANGED queue

(* The buffer, its reservation and a clone of the admission permit move    *)
(* into the blocking job.                                                  *)
ReadDone(r, k, head) ==
  /\ pc[r] = Reading(k)
  /\ k = "req" => ~head
  /\ Goto(r, Hooking(k))
  /\ Activity(r, {}, {"job"})
  /\ Sits(r, k, {"job"})
  /\ partial' = [partial EXCEPT ![r] = head]
  /\ UNCHANGED <<breaker, queue>>

ReqHookForwards(r) ==
  /\ pc[r] = Hooking("req")
  /\ Goto(r, "breaker")
  /\ Activity(r, {"job"}, {})
  /\ Sits(r, "req", {"future"})
  /\ UNCHANGED <<breaker, partial, queue>>

(* The filter answers: the tuple's permit and the bytes are dropped.  On   *)
(* the response side the rest of a partly read body is drained; a rewrite  *)
(* of a partly read body is refused the same way.  A job that panicked     *)
(* only drops what it had.                                                 *)
HookAnswers(r, k, drain) ==
  /\ pc[r] = Hooking(k)
  /\ drain \in (IF partial[r] THEN {{}, {"drain"}} ELSE {{}})
  /\ Goto(r, "deliver")
  /\ Activity(r, {"future", "job"}, {"body"} \cup drain)
  /\ Sits(r, k, {})
  /\ breaker' = [breaker EXCEPT ![r] = "none"]
  /\ partial' = [partial EXCEPT ![r] = FALSE]
  /\ UNCHANGED queue

-----------------------------------------------------------------------------
(* group.try_acquire, then the pick, with no await between: the 503s.      *)
Unavailable(r) ==
  /\ pc[r] = "breaker"
  /\ Answer(r, {})
  /\ Sits(r, "req", {})
  /\ UNCHANGED queue

OnWire(r) == IF bytes[r]["req"] = {} THEN {} ELSE {"future", "wire"}

(* The first attempt, with the body clone the transport may keep.          *)
Forward(r) ==
  /\ pc[r] = "breaker"
  /\ Cardinality(InFlight) < MaxRequests
  /\ breaker' = [breaker EXCEPT ![r] = "future"]
  /\ Goto(r, "forward")
  /\ Activity(r, {}, {"wire"})
  /\ Sits(r, "req", OnWire(r))
  /\ UNCHANGED <<partial, queue>>

(* A retry once the transport has let go of the earlier attempt; while it  *)
(* has not, a retry adds nothing to what the wire holds.                   *)
Retry(r) ==
  /\ pc[r] = "forward" /\ "wire" \notin live[r]
  /\ Activity(r, {}, {"wire"})
  /\ Sits(r, "req", OnWire(r))
  /\ UNCHANGED <<pc, breaker, partial, queue>>

ReturnsKeepingBody(r, ph) ==
  /\ pc[r] = "forward"
  /\ Goto(r, Chain(ph))
  /\ UNCHANGED <<live, held, bytes, resv, breaker, partial, queue>>

(* Response headers: the body went into forward_with_retry by value and is *)
(* dropped with it, so what is left of its reservation is the transport's. *)
ForwardReturns(r, ph) ==
  /\ pc[r] = "forward"
  /\ ph \in {"switch", "response"}
  /\ Goto(r, Chain(ph))
  /\ Sits(r, "req", bytes[r]["req"] \ {"future"})
  /\ UNCHANGED <<live, held, breaker, partial, queue>>

ForwardFails(r) ==
  /\ pc[r] = "forward"
  /\ Answer(r, {})
  /\ Sits(r, "req", bytes[r]["req"] \ {"future"})
  /\ UNCHANGED queue

-----------------------------------------------------------------------------
(* upgrade_switch: an unsolicited or mismatched 101, and a chain that      *)
(* vetoes it, are answered; otherwise the tunnel task takes the breaker    *)
(* slot and a clone of the admission permit.                               *)
SwitchRefused(r) ==
  /\ pc[r] \in {Chain("switch"), Chained("switch")}
  /\ Answer(r, {})
  /\ UNCHANGED <<bytes, resv, queue>>

SwitchForgetsSlot(r) ==
  /\ pc[r] = Chained("switch")
  /\ Answer(r, {"tunnel"})
  /\ UNCHANGED <<bytes, resv, queue>>

Switch(r) ==
  /\ pc[r] = Chained("switch")
  /\ Goto(r, "deliver")
  /\ Activity(r, {"future"}, {"body", "tunnel"})
  /\ breaker' = [breaker EXCEPT ![r] = "tunnel"]
  /\ UNCHANGED <<bytes, resv, partial, queue>>

-----------------------------------------------------------------------------
(* respond_through_chain after the chain.  A filterless route streams at   *)
(* once; so does a body out of scope or passed through.                    *)
RespondStreams(r) ==
  /\ pc[r] \in {Chain("response"), Chained("response")}
  /\ Answer(r, {})
  /\ UNCHANGED <<bytes, resv, queue>>

(* A replaced or uninspectable response: discard_upstream_body.            *)
RespondDiscards(r) ==
  /\ pc[r] = Chained("response")
  /\ Answer(r, {"drain"})
  /\ UNCHANGED <<bytes, resv, queue>>

Inspect(r) ==
  /\ pc[r] = Chained("response")
  /\ Wait(r, "resp")
  /\ UNCHANGED <<live, held, bytes, resv, breaker, partial>>

(* Over the cap: refused with a drain, or passed through behind the head,  *)
(* whose reservation stays with the response.                              *)
OverCapReject(r) ==
  /\ pc[r] = Reading("resp")
  /\ Answer(r, {"drain"})
  /\ Sits(r, "resp", {})
  /\ UNCHANGED queue

OverCapPassthrough(r) ==
  /\ pc[r] = Reading("resp")
  /\ Answer(r, {})
  /\ Sits(r, "resp", {"body"})
  /\ UNCHANGED queue

RespHookForwards(r) ==
  /\ pc[r] = Hooking("resp")
  /\ Goto(r, "deliver")
  /\ Activity(r, {"future", "job"}, {"body"})
  /\ Sits(r, "resp", {"body"})
  /\ breaker' = [breaker EXCEPT ![r] = "none"]
  /\ partial' = [partial EXCEPT ![r] = FALSE]
  /\ UNCHANGED queue

-----------------------------------------------------------------------------
CancelKeepsWaiter(r) ==
  /\ pc[r] \in Awaits
  /\ Goto(r, "idle")
  /\ Activity(r, {"future"}, {})
  /\ bytes' = [bytes EXCEPT ![r] = [k \in Bodies |-> @[k] \ {"future"}]]
  /\ resv' = [resv EXCEPT ![r] = [k \in Bodies |-> @[k] \ {"future"}]]
  /\ breaker' = [breaker EXCEPT ![r] = "none"]
  /\ partial' = [partial EXCEPT ![r] = FALSE]
  /\ UNCHANGED queue

(* The client's connection dies and hyper drops the future at an await: a  *)
(* waiter leaves the queue, a blocking job runs on.                        *)
Cancel(r) ==
  /\ pc[r] \in Awaits
  /\ Goto(r, "idle")
  /\ Activity(r, {"future"}, {})
  /\ bytes' = [bytes EXCEPT ![r] = [k \in Bodies |-> @[k] \ {"future"}]]
  /\ resv' = [resv EXCEPT ![r] = [k \in Bodies |-> @[k] \ {"future"}]]
  /\ breaker' = [breaker EXCEPT ![r] = "none"]
  /\ partial' = [partial EXCEPT ![r] = FALSE]
  /\ queue' = SelectSeq(queue, LAMBDA w : w[1] # r)

(* What outlives the future: an abandoned job, the bytes in the upstream   *)
(* transport, a drain, a tunnel, the response on its way to the client.    *)
Leftover(r, a) ==
  /\ a \in live[r]
  /\ a = "job" => pc[r] = "idle"
  /\ Activity(r, {a}, {})
  /\ bytes' = [bytes EXCEPT ![r] = [k \in Bodies |-> @[k] \ {a}]]
  /\ resv' = [resv EXCEPT ![r] = [k \in Bodies |-> @[k] \ {a}]]
  /\ UNCHANGED <<partial, queue>>

JobAbandoned(r) == Leftover(r, "job") /\ UNCHANGED <<pc, breaker>>

WireEnds(r) == Leftover(r, "wire") /\ UNCHANGED <<pc, breaker>>

DrainEnds(r) == Leftover(r, "drain") /\ UNCHANGED <<pc, breaker>>

TunnelEnds(r) ==
  /\ Leftover(r, "tunnel")
  /\ breaker' = [breaker EXCEPT ![r] = "none"]
  /\ UNCHANGED pc

Delivered(r) == Leftover(r, "body") /\ Goto(r, "idle") /\ UNCHANGED breaker

-----------------------------------------------------------------------------
(* The steps the server takes by itself: code that runs, jobs that end by  *)
(* the epoch deadline, reads and attempts that end by their timeouts.      *)
ChainStep(r) == \E ph \in Phases :
  ChainInline(r, ph) \/ ChainBlocks(r, ph) \/ ChainJobEnds(r, ph)

BodyStep(r) == \E k \in Bodies :
  \/ Granted(r, k) \/ ReadFails(r, k)
  \/ \E drain \in SUBSET {"drain"} : HookAnswers(r, k, drain)
  \/ \E head \in BOOLEAN : ReadDone(r, k, head)

ServerStep(r) ==
  \/ ChainStep(r) \/ BodyStep(r)
  \/ EarlyAnswer(r) \/ HookSkipped(r) \/ HookWaits(r) \/ ReqHookForwards(r)
  \/ Unavailable(r) \/ Forward(r) \/ ForwardFails(r)
  \/ \E ph \in Phases : ForwardReturns(r, ph)
  \/ SwitchRefused(r) \/ Switch(r)
  \/ RespondStreams(r) \/ RespondDiscards(r) \/ Inspect(r)
  \/ OverCapReject(r) \/ OverCapPassthrough(r) \/ RespHookForwards(r)
  \/ JobAbandoned(r)

(* The steps of the two peers and of the connections to them.              *)
PeersStep(r) == WireEnds(r) \/ DrainEnds(r) \/ TunnelEnds(r) \/ Delivered(r)

Next == \E r \in Requests :
  Admit(r) \/ ServerStep(r) \/ PeersStep(r) \/ Retry(r) \/ Cancel(r)

Spec == Init /\ [][Next]_vars

(* The peers let go: clients read their responses or hang up, upstreams    *)
(* take or refuse the bytes sent to them and end what is being drained,    *)
(* tunnels close.  Nothing is assumed of arrivals, retries, cancellations. *)
Fairness == \A r \in Requests :
  /\ WF_vars(ServerStep(r))
  /\ WF_vars(WireEnds(r)) /\ WF_vars(DrainEnds(r))
  /\ WF_vars(TunnelEnds(r)) /\ WF_vars(Delivered(r))

FairSpec == Spec /\ Fairness

-----------------------------------------------------------------------------
(* Everything the server still does for some request, whichever task does  *)
(* it and whether or not the client is still there, belongs to at most     *)
(* MAX_INFLIGHT_REQUESTS requests (lib.rs, request_limit).                 *)
AdmissionCoversWork ==
  Cardinality({r \in Requests : live[r] # {}}) <= MaxInflight

(* The buffered bodies resident anywhere, in a future, a blocking job or a *)
(* transport, stay within the shared byte budget (body_buffer_budget).     *)
BudgetCoversBytes ==
  Cardinality({b \in Requests \X Bodies : bytes[b[1]][b[2]] # {}}) <= Budget

(* The requests the upstream is working on, tunnels included, stay within  *)
(* max_requests (proxy.rs: the permit lives as long as the tunnel).        *)
BreakerCovers ==
  Cardinality({r \in Requests : pc[r] = "forward" \/ "tunnel" \in live[r]}) <= MaxRequests

(* What runs for clients, gone or not, stays within all three limits.      *)
LimitsCover == AdmissionCoversWork /\ BudgetCoversBytes /\ BreakerCovers

(* A permit of request_limit comes back: no sequence of cancellations,     *)
(* abandoned jobs and waits for the byte budget strands it.                *)
PermitsReturn == \A r \in Requests : held[r] # {} ~> held[r] = {}

(* The wait for the byte budget has no timeout, and ends all the same: no  *)
(* request waits for bytes while holding bytes of its own that only it     *)
(* can release, and the queue is served in order.                          *)
BudgetServed == \A r \in Requests, k \in Bodies :
  pc[r] = Waiting(k) ~> pc[r] # Waiting(k)

(* upstream/mod.rs says the breaker permit is held until the response      *)
(* headers arrive: a request whose response is being filtered, waits for   *)
(* the byte budget or is being inspected holds none.  Refuted: the permit  *)
(* is a local of the block that also filters and inspects the response.    *)
BreakerEndsAtHeaders == \A r \in Requests :
  pc[r] \in {Job("response"), Waiting("resp"), Reading("resp"), Hooking("resp")}
    => breaker[r] = "none"
=============================================================================
