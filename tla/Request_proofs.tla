--------------------------- MODULE Request_proofs ---------------------------
(***************************************************************************)
(* Proofs about what a request meets on its way, for all the constants of  *)
(* MCRequest: the limits it is held to, the loop of attempts, the reloads  *)
(* of the health-checked group.  One part per component of MCRequest, with *)
(* its inductive invariant, and the theorems about RequestSpec at the end. *)
(***************************************************************************)
EXTENDS MCRequest, FiniteSetTheorems, SequenceTheorems, TLAPS

-----------------------------------------------------------------------------
(* Transaction.  Whatever works for a request owns a clone of its permit,  *)
(* and buffered bytes own their reservation, so the three counts can be    *)
(* taken over the owners.  A step that starts work or moves bytes does so  *)
(* for a request that holds the permit already, which is what a request    *)
(* needs to know of itself, in Steady.                                     *)
Running(r) == pc[r] \notin {"idle", "deliver"}

Steady(r) ==
  /\ Running(r) => "future" \in live[r] /\ "tunnel" \notin live[r]
  /\ pc[r] \in {"forward", "chain switch", "job switch", "after switch"}
       => breaker[r] = "future"
  /\ "tunnel" \in live[r] => breaker[r] # "none"
  /\ pc[r] = "read req" => "future" \in bytes[r]["req"]
  /\ pc[r] = "read resp" => "future" \in bytes[r]["resp"]
  /\ pc[r] = "hook req" => "job" \in bytes[r]["req"]
  /\ pc[r] = "hook resp" => "job" \in bytes[r]["resp"]

(* The places of the future, spelled out.                                  *)
Places ==
  {"idle", "breaker", "deliver", "forward",
   "wait req", "wait resp", "read req", "read resp", "hook req", "hook resp",
   "chain request", "chain switch", "chain response",
   "job request", "job switch", "job response",
   "after request", "after switch", "after response"}

Shape ==
  /\ pc \in [Requests -> Places]
  /\ live \in [Requests -> SUBSET Activities] /\ held = live
  /\ bytes \in [Requests -> [Bodies -> SUBSET Activities]] /\ resv = bytes
  /\ breaker \in [Requests -> {"none", "future", "tunnel"}]
  /\ partial \in [Requests -> BOOLEAN]

Counted ==
  /\ Cardinality(Admitted) <= MaxInflight
  /\ Cardinality(Reserved) <= Budget
  /\ Cardinality(InFlight) <= MaxRequests

LimitsInv ==
  /\ Shape
  /\ \A r \in Requests : Steady(r)
  /\ Counted

LEMMA Finite ==
  IsFiniteSet(Admitted) /\ IsFiniteSet(Reserved) /\ IsFiniteSet(InFlight)
  <1>1. IsFiniteSet({"req"} \cup {"resp"})  BY FS_Singleton, FS_AddElement
  <1>2. Bodies = {"req"} \cup {"resp"}  BY DEF Bodies
  <1>3. IsFiniteSet(Requests \X Bodies)  BY <1>1, <1>2, LimitsAssumption, FS_Product
  <1>4. IsFiniteSet(Reserved)  BY <1>3, FS_Subset DEF Reserved
  <1> QED  BY <1>4, LimitsAssumption, FS_Subset DEF Admitted, InFlight

(* A step that acquires nothing keeps the counts.                          *)
Frees ==
  Admitted' \subseteq Admitted /\ Reserved' \subseteq Reserved /\ InFlight' \subseteq InFlight

LEMMA CountsKeep == Counted /\ Frees => Counted'
  <1> SUFFICES ASSUME Counted, Frees PROVE Counted'
    OBVIOUS
  <1>1. /\ Cardinality(Admitted') <= Cardinality(Admitted)
        /\ Cardinality(Reserved') <= Cardinality(Reserved)
        /\ Cardinality(InFlight') <= Cardinality(InFlight)
        /\ IsFiniteSet(Admitted') /\ IsFiniteSet(Reserved') /\ IsFiniteSet(InFlight')
    BY Finite, FS_Subset DEF Frees
  <1>2. /\ Cardinality(Admitted) \in Nat /\ Cardinality(Admitted') \in Nat
        /\ Cardinality(Reserved) \in Nat /\ Cardinality(Reserved') \in Nat
        /\ Cardinality(InFlight) \in Nat /\ Cardinality(InFlight') \in Nat
    BY <1>1, Finite, FS_CardinalityType
  <1> QED  BY <1>1, <1>2, LimitsAssumption DEF Counted

LEMMA PlacesSpelled ==
  /\ Waiting("req") = "wait req" /\ Waiting("resp") = "wait resp"
  /\ Reading("req") = "read req" /\ Reading("resp") = "read resp"
  /\ Hooking("req") = "hook req" /\ Hooking("resp") = "hook resp"
  /\ Chain("request") = "chain request" /\ Chain("switch") = "chain switch"
  /\ Chain("response") = "chain response"
  /\ Job("request") = "job request" /\ Job("switch") = "job switch"
  /\ Job("response") = "job response"
  /\ Chained("request") = "after request" /\ Chained("switch") = "after switch"
  /\ Chained("response") = "after response"
  BY DEF Waiting, Reading, Hooking, Chain, Job, Chained

LEMMA PlacesAll ==
  /\ Awaits = {"forward", "wait req", "wait resp", "read req", "read resp",
               "hook req", "hook resp", "job request", "job switch", "job response"}
  /\ {"idle", "breaker", "deliver"} \cup Awaits \cup {Chain(ph) : ph \in Phases}
       \cup {Chained(ph) : ph \in Phases} = Places
  <1>1. /\ {Waiting(k) : k \in Bodies} = {"wait req", "wait resp"}
        /\ {Reading(k) : k \in Bodies} = {"read req", "read resp"}
        /\ {Hooking(k) : k \in Bodies} = {"hook req", "hook resp"}
    BY PlacesSpelled DEF Bodies
  <1>2. {Chain(ph) : ph \in Phases} = {"chain request", "chain switch", "chain response"}
    BY PlacesSpelled DEF Phases
  <1>3. {Job(ph) : ph \in Phases} = {"job request", "job switch", "job response"}
    BY PlacesSpelled DEF Phases
  <1>4. {Chained(ph) : ph \in Phases} = {"after request", "after switch", "after response"}
    BY PlacesSpelled DEF Phases
  <1>5. Awaits = {"forward", "wait req", "wait resp", "read req", "read resp",
                  "hook req", "hook resp", "job request", "job switch", "job response"}
    BY <1>1, <1>3 DEF Awaits
  <1> QED  BY <1>2, <1>4, <1>5 DEF Places

(* What a step of request r does to the functions of the state: it changes *)
(* them at r alone.                                                        *)
LEMMA GotoIs ==
  ASSUME Shape, NEW r \in Requests, NEW l \in Places, Goto(r, l)
  PROVE  /\ pc' \in [Requests -> Places] /\ pc'[r] = l
         /\ \A q \in Requests \ {r} : pc'[q] = pc[q]
  BY PlacesAll DEF Shape, Goto

LEMMA ActivityIs ==
  ASSUME Shape, NEW r \in Requests, NEW gone, NEW new \in SUBSET Activities,
         Activity(r, gone, new)
  PROVE  /\ live' \in [Requests -> SUBSET Activities] /\ held' = live'
         /\ live'[r] = (live[r] \ gone) \cup new
         /\ \A q \in Requests \ {r} : live'[q] = live[q]
  BY DEF Shape, Activity

LEMMA SitsIs ==
  ASSUME Shape, NEW r \in Requests, NEW k \in Bodies,
         NEW places \in SUBSET Activities, Sits(r, k, places)
  PROVE  /\ bytes' \in [Requests -> [Bodies -> SUBSET Activities]] /\ resv' = bytes'
         /\ bytes'[r][k] = places
         /\ \A j \in Bodies \ {k} : bytes'[r][j] = bytes[r][j]
         /\ \A q \in Requests \ {r} : bytes'[q] = bytes[q]
  BY DEF Shape, Sits

(* Such a step acquires nothing when what r holds afterwards it held       *)
(* before, and it is Steady when r is.                                     *)
Elsewhere(r) == \A q \in Requests \ {r} :
  pc'[q] = pc[q] /\ live'[q] = live[q] /\ bytes'[q] = bytes[q] /\ breaker'[q] = breaker[q]

HoldsNoMore(r) ==
  /\ live'[r] # {} => live[r] # {}
  /\ \A k \in Bodies : bytes'[r][k] # {} => bytes[r][k] # {}
  /\ breaker'[r] # "none" => breaker[r] # "none"

LEMMA SteadyAll ==
  ASSUME LimitsInv, NEW r \in Requests, Elsewhere(r), Steady(r)'
  PROVE  \A q \in Requests : Steady(q)'
  BY DEF LimitsInv, Elsewhere, Steady, Running

LEMMA LocalStep ==
  ASSUME LimitsInv, NEW r \in Requests, Shape', Elsewhere(r), Steady(r)', HoldsNoMore(r)
  PROVE  LimitsInv'
  <1>2. \A q \in Requests : Steady(q)'  BY SteadyAll
  <1>3. Admitted' \subseteq Admitted
    BY DEF LimitsInv, Shape, Elsewhere, HoldsNoMore, Admitted
  <1>4. Reserved' \subseteq Reserved
    BY DEF LimitsInv, Shape, Elsewhere, HoldsNoMore, Reserved
  <1>5. InFlight' \subseteq InFlight
    BY DEF LimitsInv, Elsewhere, HoldsNoMore, InFlight
  <1>6. Counted'  BY <1>3, <1>4, <1>5, CountsKeep DEF LimitsInv, Frees
  <1> QED  BY <1>2, <1>6 DEF LimitsInv

LEMMA ChainKeeps ==
  ASSUME LimitsInv, NEW r \in Requests, ChainStep(r) PROVE LimitsInv'
  <1>1. PICK ph \in Phases : ChainInline(r, ph) \/ ChainBlocks(r, ph) \/ ChainJobEnds(r, ph)
    BY DEF ChainStep
  <1>2. Steady(r) /\ Shape  BY DEF LimitsInv
  <1>3. CASE ChainInline(r, ph)
    <2>1. \/ pc[r] = "chain request" /\ Goto(r, "after request")
          \/ pc[r] = "chain switch" /\ Goto(r, "after switch")
          \/ pc[r] = "chain response" /\ Goto(r, "after response")
      BY <1>3, PlacesSpelled DEF ChainInline, Phases
    <2>2. PICK l \in {"after request", "after switch", "after response"} : Goto(r, l)
      BY <2>1
    <2>3. /\ pc' \in [Requests -> Places] /\ pc'[r] = l
          /\ \A q \in Requests \ {r} : pc'[q] = pc[q]
      BY <2>2, <1>2, GotoIs DEF Places
    <2>4. Shape' /\ Elsewhere(r)
      BY <1>3, <2>3 DEF LimitsInv, Shape, ChainInline, Elsewhere
    <2>5. HoldsNoMore(r)
      BY <1>3 DEF ChainInline, HoldsNoMore
    <2>6. Steady(r)'
      BY <1>2, <1>3, <2>1, <2>3 DEF ChainInline, Goto, Steady, Running, Shape
    <2> QED  BY <2>4, <2>5, <2>6, LocalStep
  <1>4. CASE ChainBlocks(r, ph)
    <2>1. \/ pc[r] = "chain request" /\ Goto(r, "job request")
          \/ pc[r] = "chain switch" /\ Goto(r, "job switch")
          \/ pc[r] = "chain response" /\ Goto(r, "job response")
      BY <1>4, PlacesSpelled DEF ChainBlocks, Phases
    <2>2. PICK l \in {"job request", "job switch", "job response"} : Goto(r, l)
      BY <2>1
    <2>3. /\ pc' \in [Requests -> Places] /\ pc'[r] = l
          /\ \A q \in Requests \ {r} : pc'[q] = pc[q]
      BY <2>2, <1>2, GotoIs DEF Places
    <2>4. /\ live' \in [Requests -> SUBSET Activities] /\ held' = live'
          /\ live'[r] = (live[r] \ {}) \cup {"job"}
          /\ \A q \in Requests \ {r} : live'[q] = live[q]
      BY <1>4, ActivityIs DEF LimitsInv, ChainBlocks, Activities
    <2>5. Shape' /\ Elsewhere(r)
      BY <1>4, <2>3, <2>4 DEF LimitsInv, Shape, ChainBlocks, Elsewhere
    <2>6. Steady(r)'
      BY <1>2, <1>4, <2>1, <2>3, <2>4 DEF ChainBlocks, Goto, Steady, Running, Shape
    <2>7. HoldsNoMore(r)
      BY <1>2, <1>4, <2>1 DEF ChainBlocks, HoldsNoMore, Steady, Running
    <2> QED  BY <2>5, <2>6, <2>7, LocalStep
  <1>5. CASE ChainJobEnds(r, ph)
    <2>1. \/ pc[r] = "job request" /\ Goto(r, "after request")
          \/ pc[r] = "job switch" /\ Goto(r, "after switch")
          \/ pc[r] = "job response" /\ Goto(r, "after response")
      BY <1>5, PlacesSpelled DEF ChainJobEnds, Phases
    <2>2. PICK l \in {"after request", "after switch", "after response"} : Goto(r, l)
      BY <2>1
    <2>3. /\ pc' \in [Requests -> Places] /\ pc'[r] = l
          /\ \A q \in Requests \ {r} : pc'[q] = pc[q]
      BY <2>2, <1>2, GotoIs DEF Places
    <2>4. /\ live' \in [Requests -> SUBSET Activities] /\ held' = live'
          /\ live'[r] = (live[r] \ {"job"}) \cup {}
          /\ \A q \in Requests \ {r} : live'[q] = live[q]
      <3>1. {} \in SUBSET Activities /\ Activity(r, {"job"}, {})
        BY <1>5 DEF ChainJobEnds
      <3> QED  BY <3>1, ActivityIs DEF LimitsInv
    <2>5. Shape' /\ Elsewhere(r)
      BY <1>5, <2>3, <2>4 DEF LimitsInv, Shape, ChainJobEnds, Elsewhere
    <2>6. Steady(r)'
      BY <1>2, <1>5, <2>1, <2>3, <2>4 DEF ChainJobEnds, Goto, Steady, Running, Shape
    <2>7. HoldsNoMore(r)
      BY <1>2, <1>5, <2>1 DEF ChainJobEnds, HoldsNoMore, Steady, Running
    <2> QED  BY <2>5, <2>6, <2>7, LocalStep
  <1> QED  BY <1>1, <1>3, <1>4, <1>5

(* The steps that end in an answer: the future and the breaker slot go,    *)
(* what is left of the buffered bytes was reserved before.                 *)
BytesKept(r) ==
  /\ bytes' \in [Requests -> [Bodies -> SUBSET Activities]] /\ resv' = bytes'
  /\ \A q \in Requests \ {r} : bytes'[q] = bytes[q]
  /\ \A k \in Bodies : bytes'[r][k] # {} => bytes[r][k] # {}

LEMMA AnswersKeep ==
  ASSUME LimitsInv, NEW r \in Requests, Running(r), Goto(r, "deliver"),
         NEW gone, NEW new \in SUBSET {"body", "drain"}, Activity(r, gone, new),
         breaker' = [breaker EXCEPT ![r] = "none"],
         partial' = [partial EXCEPT ![r] = FALSE], BytesKept(r)
  PROVE  LimitsInv'
  <1>1. Shape /\ Steady(r)  BY DEF LimitsInv
  <1>2. /\ pc' \in [Requests -> Places] /\ pc'[r] = "deliver"
        /\ \A q \in Requests \ {r} : pc'[q] = pc[q]
    BY <1>1, GotoIs DEF Places
  <1>3. /\ live' \in [Requests -> SUBSET Activities] /\ held' = live'
        /\ live'[r] = (live[r] \ gone) \cup new
        /\ \A q \in Requests \ {r} : live'[q] = live[q]
    BY <1>1, ActivityIs DEF Activities
  <1>4. /\ breaker' \in [Requests -> {"none", "future", "tunnel"}] /\ breaker'[r] = "none"
        /\ \A q \in Requests \ {r} : breaker'[q] = breaker[q]
    BY <1>1 DEF Shape
  <1>5. Shape'
    BY <1>1, <1>2, <1>3, <1>4 DEF Shape, BytesKept
  <1>6. Elsewhere(r)
    BY <1>2, <1>3, <1>4 DEF Elsewhere, BytesKept
  <1>7. Steady(r)'  BY <1>1, <1>2, <1>3 DEF Steady, Running
  <1>8. HoldsNoMore(r)  BY <1>1, <1>4 DEF HoldsNoMore, BytesKept, Steady
  <1> QED  BY <1>5, <1>6, <1>7, <1>8, LocalStep

LEMMA SitsKept ==
  ASSUME LimitsInv, NEW r \in Requests, NEW k \in Bodies,
         NEW places \in SUBSET Activities, Sits(r, k, places),
         places # {} => bytes[r][k] # {}
  PROVE  BytesKept(r)
  <1>1. Shape  BY DEF LimitsInv
  <1> QED  BY <1>1, SitsIs DEF BytesKept

LEMMA BytesAlone ==
  ASSUME LimitsInv, NEW r \in Requests, UNCHANGED <<bytes, resv>> PROVE BytesKept(r)
  BY DEF LimitsInv, Shape, BytesKept

AnswerStep(r) ==
  \/ EarlyAnswer(r) \/ Unavailable(r) \/ ForwardFails(r) \/ SwitchRefused(r)
  \/ RespondStreams(r) \/ RespondDiscards(r) \/ OverCapReject(r)
  \/ OverCapPassthrough(r) \/ RespHookForwards(r)
  \/ \E k \in Bodies : \/ ReadFails(r, k)
                       \/ \E drain \in SUBSET {"drain"} : HookAnswers(r, k, drain)

LEMMA AnswerStepKeeps ==
  ASSUME LimitsInv, NEW r \in Requests, AnswerStep(r) PROVE LimitsInv'
  <1>1. Steady(r) /\ Shape  BY DEF LimitsInv
  <1>2. CASE EarlyAnswer(r) \/ SwitchRefused(r) \/ RespondStreams(r)
    <2>1. Running(r)
      BY <1>2, PlacesSpelled DEF EarlyAnswer, SwitchRefused, RespondStreams, Running
    <2>2. BytesKept(r)
      BY <1>2, BytesAlone DEF EarlyAnswer, SwitchRefused, RespondStreams
    <2>3. Answer(r, {})
      BY <1>2 DEF EarlyAnswer, SwitchRefused, RespondStreams
    <2> QED  BY <2>1, <2>2, <2>3, AnswersKeep DEF Answer
  <1>3. CASE RespondDiscards(r)
    <2>1. Running(r) /\ BytesKept(r)
      BY <1>3, PlacesSpelled, BytesAlone DEF RespondDiscards, Running
    <2> QED  BY <1>3, <2>1, AnswersKeep DEF RespondDiscards, Answer
  <1>4. CASE Unavailable(r)
    <2>1. Running(r) /\ BytesKept(r)
      BY <1>4, SitsKept DEF Unavailable, Running, Bodies
    <2> QED  BY <1>4, <2>1, AnswersKeep DEF Unavailable, Answer
  <1>5. CASE ForwardFails(r)
    <2>1. bytes[r]["req"] \in SUBSET Activities  BY <1>1 DEF Shape, Bodies
    <2>2. Running(r) /\ BytesKept(r)
      BY <1>5, <2>1, SitsKept DEF ForwardFails, Running, Bodies
    <2> QED  BY <1>5, <2>2, AnswersKeep DEF ForwardFails, Answer
  <1>6. CASE OverCapReject(r)
    <2>1. pc[r] = "read resp"  BY <1>6, PlacesSpelled DEF OverCapReject
    <2>2. Running(r) /\ BytesKept(r)
      <3>1. {} \in SUBSET Activities /\ "resp" \in Bodies /\ Sits(r, "resp", {})
        BY <1>6 DEF OverCapReject, Bodies
      <3> QED  BY <2>1, <3>1, SitsKept DEF Running
    <2> QED  BY <1>6, <2>2, AnswersKeep DEF OverCapReject, Answer
  <1>7. CASE OverCapPassthrough(r)
    <2>1. pc[r] = "read resp"  BY <1>7, PlacesSpelled DEF OverCapPassthrough
    <2>2. Running(r) /\ BytesKept(r)
      BY <1>1, <1>7, <2>1, SitsKept DEF OverCapPassthrough, Running, Bodies, Steady, Activities
    <2> QED  BY <1>7, <2>2, AnswersKeep DEF OverCapPassthrough, Answer
  <1>8. CASE RespHookForwards(r)
    <2>1. pc[r] = "hook resp"  BY <1>8, PlacesSpelled DEF RespHookForwards
    <2>2. Running(r) /\ BytesKept(r)
      BY <1>1, <1>8, <2>1, SitsKept DEF RespHookForwards, Running, Bodies, Steady, Activities
    <2> QED  BY <1>8, <2>2, AnswersKeep DEF RespHookForwards
  <1>9. ASSUME NEW k \in Bodies, ReadFails(r, k) PROVE LimitsInv'
    <2>1. Running(r) /\ BytesKept(r)
      BY <1>9, SitsKept, PlacesSpelled DEF ReadFails, Running, Bodies
    <2> QED  BY <1>9, <2>1, AnswersKeep DEF ReadFails, Answer
  <1>10. ASSUME NEW k \in Bodies, NEW drain \in SUBSET {"drain"}, HookAnswers(r, k, drain)
         PROVE  LimitsInv'
    <2>1. Running(r) /\ BytesKept(r)
      BY <1>10, SitsKept, PlacesSpelled DEF HookAnswers, Running, Bodies
    <2> QED  BY <1>10, <2>1, AnswersKeep DEF HookAnswers
  <1> QED
    BY <1>2, <1>3, <1>4, <1>5, <1>6, <1>7, <1>8, <1>9, <1>10 DEF AnswerStep

(* The steps that go on with the request.                                  *)
LEMMA HookKeeps ==
  ASSUME LimitsInv, NEW r \in Requests,
         \/ HookSkipped(r) \/ HookWaits(r) \/ Inspect(r) \/ ReqHookForwards(r)
         \/ \E k \in Bodies, head \in BOOLEAN : ReadDone(r, k, head)
  PROVE  LimitsInv'
  <1>1. Steady(r) /\ Shape  BY DEF LimitsInv
  <1>2. CASE HookSkipped(r)
    <2>1. pc[r] = "after request" /\ Goto(r, "breaker")
      BY <1>2, PlacesSpelled DEF HookSkipped
    <2>2. /\ pc' \in [Requests -> Places] /\ pc'[r] = "breaker"
          /\ \A q \in Requests \ {r} : pc'[q] = pc[q]
      BY <1>1, <2>1, GotoIs DEF Places
    <2>3. Shape' /\ Elsewhere(r)
      BY <1>1, <1>2, <2>2 DEF Shape, HookSkipped, Elsewhere
    <2>4. Steady(r)' /\ HoldsNoMore(r)
      BY <1>1, <1>2, <2>1, <2>2 DEF HookSkipped, Steady, Running, HoldsNoMore
    <2> QED  BY <2>3, <2>4, LocalStep
  <1>3. CASE HookWaits(r) \/ Inspect(r)
    <2>1. PICK k \in Bodies : Wait(r, k)  BY <1>3 DEF HookWaits, Inspect, Bodies
    <2>2. Running(r)
      BY <1>3, PlacesSpelled DEF HookWaits, Inspect, Running
    <2>3. PICK l \in {"wait req", "wait resp"} : Goto(r, l)
      BY <2>1, PlacesSpelled DEF Wait, Bodies
    <2>4. /\ pc' \in [Requests -> Places] /\ pc'[r] = l
          /\ \A q \in Requests \ {r} : pc'[q] = pc[q]
      BY <1>1, <2>3, GotoIs DEF Places
    <2>6. UNCHANGED <<live, held, bytes, resv, breaker, partial>>
      BY <1>3 DEF HookWaits, Inspect
    <2>7. Shape' /\ Elsewhere(r)
      BY <1>1, <2>4, <2>6 DEF Shape, Elsewhere
    <2>8. Steady(r)' /\ HoldsNoMore(r)
      BY <1>1, <2>2, <2>4, <2>6 DEF Steady, Running, HoldsNoMore
    <2> QED  BY <2>7, <2>8, LocalStep
  <1>4. CASE ReqHookForwards(r)
    <2>1. pc[r] = "hook req"  BY <1>4, PlacesSpelled DEF ReqHookForwards
    <2>2. /\ pc' \in [Requests -> Places] /\ pc'[r] = "breaker"
          /\ \A q \in Requests \ {r} : pc'[q] = pc[q]
      BY <1>1, <1>4, GotoIs DEF ReqHookForwards, Places
    <2>3. {} \in SUBSET Activities /\ Activity(r, {"job"}, {})  BY <1>4 DEF ReqHookForwards
    <2>4. /\ live' \in [Requests -> SUBSET Activities] /\ held' = live'
          /\ live'[r] = (live[r] \ {"job"}) \cup {}
          /\ \A q \in Requests \ {r} : live'[q] = live[q]
      BY <1>1, <2>3, ActivityIs
    <2>5. BytesKept(r)
      BY <1>1, <1>4, <2>1, SitsKept DEF ReqHookForwards, Bodies, Steady, Activities
    <2>6. Shape' /\ Elsewhere(r)
      BY <1>1, <1>4, <2>2, <2>4, <2>5 DEF Shape, ReqHookForwards, BytesKept, Elsewhere
    <2>7. Steady(r)' /\ HoldsNoMore(r)
      BY <1>1, <1>4, <2>1, <2>2, <2>4, <2>5
      DEF ReqHookForwards, BytesKept, Steady, Running, HoldsNoMore
    <2> QED  BY <2>6, <2>7, LocalStep
  <1>5. ASSUME NEW k \in Bodies, NEW head \in BOOLEAN, ReadDone(r, k, head)
        PROVE  LimitsInv'
    <2>1. /\ k = "req" => pc[r] = "read req" /\ Goto(r, "hook req")
          /\ k = "resp" => pc[r] = "read resp" /\ Goto(r, "hook resp")
      BY <1>5, PlacesSpelled DEF ReadDone
    <2>2. /\ pc' \in [Requests -> Places]
          /\ pc'[r] = IF k = "req" THEN "hook req" ELSE "hook resp"
          /\ \A q \in Requests \ {r} : pc'[q] = pc[q]
      BY <1>1, <2>1, GotoIs DEF Places, Bodies
    <2>3. /\ live' \in [Requests -> SUBSET Activities] /\ held' = live'
          /\ live'[r] = (live[r] \ {}) \cup {"job"}
          /\ \A q \in Requests \ {r} : live'[q] = live[q]
      BY <1>1, <1>5, ActivityIs DEF ReadDone, Activities
    <2>4. /\ bytes' \in [Requests -> [Bodies -> SUBSET Activities]] /\ resv' = bytes'
          /\ bytes'[r][k] = {"job"}
          /\ \A j \in Bodies \ {k} : bytes'[r][j] = bytes[r][j]
          /\ \A q \in Requests \ {r} : bytes'[q] = bytes[q]
      BY <1>1, <1>5, SitsIs DEF ReadDone, Activities
    <2>5. Shape' /\ Elsewhere(r)
      BY <1>1, <1>5, <2>2, <2>3, <2>4 DEF Shape, ReadDone, Elsewhere
    <2>6. Steady(r)'
      BY <1>1, <1>5, <2>1, <2>2, <2>3, <2>4 DEF ReadDone, Steady, Running, Bodies
    <2>7. HoldsNoMore(r)
      BY <1>1, <1>5, <2>1, <2>4 DEF ReadDone, HoldsNoMore, Steady, Running, Bodies
    <2> QED  BY <2>5, <2>6, <2>7, LocalStep
  <1> QED  BY <1>2, <1>3, <1>4, <1>5

LEMMA ForwardKeeps ==
  ASSUME LimitsInv, NEW r \in Requests,
         Retry(r) \/ Switch(r) \/ \E ph \in Phases : ForwardReturns(r, ph)
  PROVE  LimitsInv'
  <1>1. Steady(r) /\ Shape  BY DEF LimitsInv
  <1>2. bytes[r]["req"] \in SUBSET Activities  BY <1>1 DEF Shape, Bodies
  <1>3. CASE Retry(r)
    <2>1. pc[r] = "forward" /\ UNCHANGED <<pc, breaker, partial>>
      BY <1>3 DEF Retry
    <2>2. /\ live' \in [Requests -> SUBSET Activities] /\ held' = live'
          /\ live'[r] = (live[r] \ {}) \cup {"wire"}
          /\ \A q \in Requests \ {r} : live'[q] = live[q]
      BY <1>1, <1>3, ActivityIs DEF Retry, Activities
    <2>3. BytesKept(r)
      BY <1>3, SitsKept DEF Retry, OnWire, Bodies, Activities
    <2>4. Shape' /\ Elsewhere(r)
      BY <1>1, <2>1, <2>2, <2>3, PlacesAll DEF Shape, BytesKept, Elsewhere
    <2>5. Steady(r)' /\ HoldsNoMore(r)
      BY <1>1, <2>1, <2>2, <2>3 DEF BytesKept, Steady, Running, HoldsNoMore
    <2> QED  BY <2>4, <2>5, LocalStep
  <1>4. CASE Switch(r)
    <2>1. pc[r] = "after switch" /\ UNCHANGED <<bytes, resv, partial>>
      BY <1>4, PlacesSpelled DEF Switch
    <2>2. /\ pc' \in [Requests -> Places] /\ pc'[r] = "deliver"
          /\ \A q \in Requests \ {r} : pc'[q] = pc[q]
      BY <1>1, <1>4, GotoIs DEF Switch, Places
    <2>3. /\ live' \in [Requests -> SUBSET Activities] /\ held' = live'
          /\ \A q \in Requests \ {r} : live'[q] = live[q]
      BY <1>1, <1>4, ActivityIs DEF Switch, Activities
    <2>4. /\ breaker' \in [Requests -> {"none", "future", "tunnel"}]
          /\ breaker'[r] = "tunnel"
          /\ \A q \in Requests \ {r} : breaker'[q] = breaker[q]
      BY <1>1, <1>4 DEF Shape, Switch
    <2>5. Shape' /\ Elsewhere(r)
      BY <1>1, <2>1, <2>2, <2>3, <2>4 DEF Shape, Elsewhere
    <2>6. Steady(r)' /\ HoldsNoMore(r)
      BY <1>1, <2>1, <2>2, <2>3, <2>4 DEF Steady, Running, HoldsNoMore
    <2> QED  BY <2>5, <2>6, LocalStep
  <1>5. ASSUME NEW ph \in Phases, ForwardReturns(r, ph) PROVE LimitsInv'
    <2>1. /\ pc[r] = "forward" /\ UNCHANGED <<live, held, breaker, partial>>
          /\ Goto(r, "chain switch") \/ Goto(r, "chain response")
      BY <1>5, PlacesSpelled DEF ForwardReturns
    <2>2. PICK l \in {"chain switch", "chain response"} : Goto(r, l)  BY <2>1
    <2>3. /\ pc' \in [Requests -> Places] /\ pc'[r] = l
          /\ \A q \in Requests \ {r} : pc'[q] = pc[q]
      BY <1>1, <2>2, GotoIs DEF Places
    <2>4. BytesKept(r)
      BY <1>2, <1>5, SitsKept DEF ForwardReturns, Bodies
    <2>5. Shape' /\ Elsewhere(r)
      BY <1>1, <2>1, <2>3, <2>4 DEF Shape, BytesKept, Elsewhere
    <2>6. Steady(r)' /\ HoldsNoMore(r)
      BY <1>1, <2>1, <2>3, <2>4 DEF BytesKept, Steady, Running, HoldsNoMore
    <2> QED  BY <2>5, <2>6, LocalStep
  <1> QED  BY <1>3, <1>4, <1>5

(* What ends after the future: the rest of the request is as it was, less  *)
(* the one activity.                                                       *)
Drops(r, a) ==
  /\ bytes' = [bytes EXCEPT ![r] = [k \in Bodies |-> @[k] \ {a}]]
  /\ resv' = [resv EXCEPT ![r] = [k \in Bodies |-> @[k] \ {a}]]

LEMMA DropsIs ==
  ASSUME LimitsInv, NEW r \in Requests, NEW a, Drops(r, a)
  PROVE  BytesKept(r) /\ \A k \in Bodies : bytes'[r][k] = bytes[r][k] \ {a}
  <1>1. Shape  BY DEF LimitsInv
  <1>2. bytes[r] \in [Bodies -> SUBSET Activities]  BY <1>1 DEF Shape
  <1>3. [k \in Bodies |-> bytes[r][k] \ {a}] \in [Bodies -> SUBSET Activities]  BY <1>2
  <1>4. bytes' = [bytes EXCEPT ![r] = [k \in Bodies |-> bytes[r][k] \ {a}]] /\ resv' = bytes'
    BY <1>1 DEF Shape, Drops
  <1>5. bytes' \in [Requests -> [Bodies -> SUBSET Activities]]
    BY <1>1, <1>3, <1>4 DEF Shape
  <1>6. bytes'[r] = [k \in Bodies |-> bytes[r][k] \ {a}]
    BY <1>1, <1>4 DEF Shape
  <1>7. \A q \in Requests \ {r} : bytes'[q] = bytes[q]
    BY <1>1, <1>4 DEF Shape
  <1> QED  BY <1>4, <1>5, <1>6, <1>7 DEF BytesKept

LEMMA LeftoverKeeps ==
  ASSUME LimitsInv, NEW r \in Requests, JobAbandoned(r) \/ PeersStep(r)
  PROVE  LimitsInv'
  <1>1. Steady(r) /\ Shape  BY DEF LimitsInv
  <1>2. PICK a \in Activities \ {"future"} : Leftover(r, a) /\ (a = "tunnel" <=> TunnelEnds(r))
    <2>1. TunnelEnds(r) => Leftover(r, "tunnel")  BY DEF TunnelEnds
    <2>2. CASE TunnelEnds(r)  BY <2>1, <2>2 DEF Activities
    <2>3. CASE ~TunnelEnds(r)
      BY <2>3 DEF PeersStep, JobAbandoned, WireEnds, DrainEnds, Delivered, Activities
    <2> QED  BY <2>2, <2>3
  <1>3. a \in live[r]  BY <1>2 DEF Leftover
  <1>4. {} \in SUBSET Activities /\ Activity(r, {a}, {}) /\ Drops(r, a)
    BY <1>2 DEF Leftover, Drops
  <1>5. /\ live' \in [Requests -> SUBSET Activities] /\ held' = live'
        /\ live'[r] = (live[r] \ {a}) \cup {}
        /\ \A q \in Requests \ {r} : live'[q] = live[q]
    BY <1>1, <1>4, ActivityIs
  <1>6. BytesKept(r) /\ \A k \in Bodies : bytes'[r][k] = bytes[r][k] \ {a}
    BY <1>4, DropsIs
  <1>7. \/ pc' = pc
        \/ Goto(r, "idle")
    BY DEF PeersStep, JobAbandoned, WireEnds, DrainEnds, TunnelEnds, Delivered
  <1>8. /\ pc' \in [Requests -> Places] /\ pc'[r] \in {pc[r], "idle"}
        /\ \A q \in Requests \ {r} : pc'[q] = pc[q]
    BY <1>1, <1>7, GotoIs, PlacesAll DEF Places, Shape
  <1>9. \/ breaker' = breaker /\ a # "tunnel"
        \/ breaker' = [breaker EXCEPT ![r] = "none"] /\ a = "tunnel"
    BY <1>2 DEF PeersStep, JobAbandoned, WireEnds, DrainEnds, TunnelEnds, Delivered
  <1>10. /\ breaker' \in [Requests -> {"none", "future", "tunnel"}]
         /\ breaker'[r] = IF a = "tunnel" THEN "none" ELSE breaker[r]
         /\ \A q \in Requests \ {r} : breaker'[q] = breaker[q]
    BY <1>1, <1>9 DEF Shape
  <1>11. partial' = partial  BY <1>2 DEF Leftover
  <1>12. a = "job" => ~Running(r)  BY <1>2 DEF Leftover, Running
  <1>13. Shape' /\ Elsewhere(r)
    BY <1>1, <1>5, <1>6, <1>8, <1>10, <1>11 DEF Shape, BytesKept, Elsewhere
  <1>14. HoldsNoMore(r)
    BY <1>3, <1>6, <1>10 DEF BytesKept, HoldsNoMore
  <1>15. Steady(r)'
    BY <1>1, <1>2, <1>3, <1>5, <1>6, <1>8, <1>10, <1>12
    DEF Steady, Running, Bodies, Shape, Activities
  <1> QED  BY <1>13, <1>14, <1>15, LocalStep

LEMMA CancelKeeps ==
  ASSUME LimitsInv, NEW r \in Requests, Cancel(r) PROVE LimitsInv'
  <1>1. Steady(r) /\ Shape  BY DEF LimitsInv
  <1>2. Running(r)  BY PlacesAll DEF Cancel, Running
  <1>3. {} \in SUBSET Activities /\ Activity(r, {"future"}, {}) /\ Drops(r, "future")
    BY DEF Cancel, Drops
  <1>4. /\ live' \in [Requests -> SUBSET Activities] /\ held' = live'
        /\ live'[r] = (live[r] \ {"future"}) \cup {}
        /\ \A q \in Requests \ {r} : live'[q] = live[q]
    BY <1>1, <1>3, ActivityIs
  <1>5. BytesKept(r)  BY <1>3, DropsIs
  <1>6. /\ pc' \in [Requests -> Places] /\ pc'[r] = "idle"
        /\ \A q \in Requests \ {r} : pc'[q] = pc[q]
    BY <1>1, GotoIs DEF Cancel, Places
  <1>7. /\ breaker' \in [Requests -> {"none", "future", "tunnel"}]
        /\ breaker'[r] = "none"
        /\ \A q \in Requests \ {r} : breaker'[q] = breaker[q]
    BY <1>1 DEF Shape, Cancel
  <1>8. partial' \in [Requests -> BOOLEAN]
    BY <1>1 DEF Shape, Cancel
  <1>10. Shape' /\ Elsewhere(r)
    BY <1>4, <1>5, <1>6, <1>7, <1>8 DEF Shape, BytesKept, Elsewhere
  <1>11. Steady(r)' /\ HoldsNoMore(r)
    BY <1>1, <1>2, <1>4, <1>5, <1>6, <1>7 DEF BytesKept, Steady, Running, HoldsNoMore
  <1> QED  BY <1>10, <1>11, LocalStep

(* The three steps that take a permit, each behind the count it raises.    *)
LEMMA OneMore ==
  ASSUME NEW S, IsFiniteSet(S), NEW x, NEW T \in SUBSET (S \cup {x}), NEW n \in Nat,
         Cardinality(S) < n
  PROVE  Cardinality(T) <= n
  <1>1. /\ IsFiniteSet(S \cup {x}) /\ Cardinality(S) \in Nat
        /\ Cardinality(S \cup {x}) \in {Cardinality(S), Cardinality(S) + 1}
    BY FS_AddElement, FS_CardinalityType
  <1>2. IsFiniteSet(T) /\ Cardinality(T) <= Cardinality(S \cup {x})
    BY <1>1, FS_Subset
  <1>3. Cardinality(T) \in Nat  BY <1>2, FS_CardinalityType
  <1> QED  BY <1>1, <1>2, <1>3

LEMMA NoMore ==
  ASSUME NEW S, IsFiniteSet(S), NEW T \in SUBSET S, NEW n \in Nat, Cardinality(S) <= n
  PROVE  Cardinality(T) <= n
  <1>1. Cardinality(S) \in Nat /\ IsFiniteSet(T) /\ Cardinality(T) <= Cardinality(S)
    BY FS_Subset, FS_CardinalityType
  <1>2. Cardinality(T) \in Nat  BY <1>1, FS_CardinalityType
  <1> QED  BY <1>1, <1>2

LEMMA AdmitKeeps ==
  ASSUME LimitsInv, NEW r \in Requests, Admit(r) PROVE LimitsInv'
  <1>1. Shape /\ Counted  BY DEF LimitsInv
  <1>2. /\ pc' \in [Requests -> Places] /\ pc'[r] = "chain request"
        /\ \A q \in Requests \ {r} : pc'[q] = pc[q]
    BY <1>1, GotoIs, PlacesSpelled DEF Admit, Places
  <1>3. /\ live' \in [Requests -> SUBSET Activities] /\ held' = live'
        /\ live'[r] = (live[r] \ {}) \cup {"future"}
        /\ \A q \in Requests \ {r} : live'[q] = live[q]
    BY <1>1, ActivityIs DEF Admit, Activities
  <1>4. Shape' /\ Elsewhere(r)
    BY <1>1, <1>2, <1>3 DEF Admit, Shape, Elsewhere
  <1>5. Steady(r)'  BY <1>2, <1>3 DEF Admit, Steady, Running
  <1>6. Admitted' \in SUBSET (Admitted \cup {r})
    BY <1>1, <1>3 DEF Admitted, Shape
  <1>7. Cardinality(Admitted') <= MaxInflight
    BY <1>6, Finite, OneMore, LimitsAssumption DEF Admit
  <1>8. Counted'
    BY <1>1, <1>7 DEF Counted, Admit, Reserved, InFlight
  <1> QED  BY <1>4, <1>5, <1>8, SteadyAll DEF LimitsInv

LEMMA GrantedKeeps ==
  ASSUME LimitsInv, NEW r \in Requests, NEW k \in Bodies, Granted(r, k) PROVE LimitsInv'
  <1>1. Shape /\ Counted /\ Steady(r)  BY DEF LimitsInv
  <1>2. /\ k = "req" => pc[r] = "wait req" /\ Goto(r, "read req")
        /\ k = "resp" => pc[r] = "wait resp" /\ Goto(r, "read resp")
    BY PlacesSpelled DEF Granted
  <1>3. /\ pc' \in [Requests -> Places]
        /\ pc'[r] = IF k = "req" THEN "read req" ELSE "read resp"
        /\ \A q \in Requests \ {r} : pc'[q] = pc[q]
    BY <1>1, <1>2, GotoIs DEF Places, Bodies
  <1>4. /\ bytes' \in [Requests -> [Bodies -> SUBSET Activities]] /\ resv' = bytes'
        /\ bytes'[r][k] = {"future"}
        /\ \A j \in Bodies \ {k} : bytes'[r][j] = bytes[r][j]
        /\ \A q \in Requests \ {r} : bytes'[q] = bytes[q]
    BY <1>1, SitsIs DEF Granted, Activities
  <1>5. Shape' /\ Elsewhere(r)
    BY <1>1, <1>3, <1>4 DEF Granted, Shape, Elsewhere
  <1>6. Steady(r)'
    BY <1>1, <1>2, <1>3, <1>4 DEF Granted, Steady, Running, Bodies
  <1>7. Reserved' \in SUBSET (Reserved \cup {<<r, k>>})
    BY <1>1, <1>4 DEF Reserved, Shape
  <1>8. Cardinality(Reserved') <= Budget
    BY <1>7, Finite, OneMore, LimitsAssumption DEF Granted
  <1>9. Counted'
    BY <1>1, <1>8 DEF Counted, Granted, Admitted, InFlight
  <1> QED  BY <1>5, <1>6, <1>9, SteadyAll DEF LimitsInv

LEMMA FirstAttemptKeeps ==
  ASSUME LimitsInv, NEW r \in Requests, Forward(r) PROVE LimitsInv'
  <1>1. Shape /\ Counted /\ Steady(r)  BY DEF LimitsInv
  <1>2. pc[r] = "breaker"  BY DEF Forward
  <1>3. /\ pc' \in [Requests -> Places] /\ pc'[r] = "forward"
        /\ \A q \in Requests \ {r} : pc'[q] = pc[q]
    BY <1>1, GotoIs DEF Forward, Places
  <1>4. /\ live' \in [Requests -> SUBSET Activities] /\ held' = live'
        /\ live'[r] = (live[r] \ {}) \cup {"wire"}
        /\ \A q \in Requests \ {r} : live'[q] = live[q]
    BY <1>1, ActivityIs DEF Forward, Activities
  <1>5. BytesKept(r)  BY SitsKept DEF Forward, OnWire, Bodies, Activities
  <1>6. /\ breaker' \in [Requests -> {"none", "future", "tunnel"}]
        /\ breaker'[r] = "future"
        /\ \A q \in Requests \ {r} : breaker'[q] = breaker[q]
    BY <1>1 DEF Shape, Forward
  <1>7. Shape' /\ Elsewhere(r)
    BY <1>1, <1>3, <1>4, <1>5, <1>6 DEF Forward, Shape, BytesKept, Elsewhere
  <1>8. Steady(r)'
    BY <1>1, <1>2, <1>3, <1>4, <1>6 DEF Steady, Running
  <1>9. Admitted' \in SUBSET Admitted
    BY <1>1, <1>2, <1>4 DEF Admitted, Shape, Steady, Running
  <1>10. Reserved' \in SUBSET Reserved
    BY <1>1, <1>5 DEF Reserved, Shape, BytesKept
  <1>11. InFlight' \in SUBSET (InFlight \cup {r})
    BY <1>6 DEF InFlight
  <1>12. Cardinality(InFlight') <= MaxRequests
    BY <1>11, Finite, OneMore, LimitsAssumption DEF Forward
  <1>13. Cardinality(Admitted') <= MaxInflight /\ Cardinality(Reserved') <= Budget
    BY <1>1, <1>9, <1>10, Finite, NoMore, LimitsAssumption DEF Counted
  <1> QED  BY <1>7, <1>8, <1>12, <1>13, SteadyAll DEF LimitsInv, Counted

LEMMA LimitsInitInv == Init => LimitsInv
  <1> SUFFICES ASSUME Init PROVE LimitsInv
    OBVIOUS
  <1>1. Shape  BY DEF Init, Shape, Places
  <1>2. \A r \in Requests : Steady(r)  BY DEF Init, Steady, Running
  <1>3. Admitted = {} /\ Reserved = {} /\ InFlight = {}
    BY DEF Init, Admitted, Reserved, InFlight, Bodies
  <1>4. Counted  BY <1>3, FS_EmptySet, LimitsAssumption DEF Counted
  <1> QED  BY <1>1, <1>2, <1>4 DEF LimitsInv

LEMMA LimitsStepInv == LimitsInv /\ [Next]_vars => LimitsInv'
  <1> SUFFICES ASSUME LimitsInv, [Next]_vars PROVE LimitsInv'
    OBVIOUS
  <1>1. CASE UNCHANGED vars
    BY <1>1 DEF vars, LimitsInv, Shape, Steady, Running, Counted, Admitted, Reserved, InFlight
  <1>2. ASSUME NEW r \in Requests,
               Admit(r) \/ ServerStep(r) \/ PeersStep(r) \/ Retry(r) \/ Cancel(r)
        PROVE  LimitsInv'
    <2>1. CASE ServerStep(r)
      <3>1. CASE ChainStep(r)  BY <3>1, ChainKeeps
      <3>2. CASE AnswerStep(r)  BY <3>2, AnswerStepKeeps
      <3>3. CASE \E k \in Bodies : Granted(r, k)  BY <3>3, GrantedKeeps
      <3>4. CASE \/ HookSkipped(r) \/ HookWaits(r) \/ Inspect(r) \/ ReqHookForwards(r)
                 \/ \E k \in Bodies, head \in BOOLEAN : ReadDone(r, k, head)
        BY <3>4, HookKeeps
      <3>5. CASE Switch(r) \/ \E ph \in Phases : ForwardReturns(r, ph)
        BY <3>5, ForwardKeeps
      <3>6. CASE Forward(r)  BY <3>6, FirstAttemptKeeps
      <3>7. CASE JobAbandoned(r)  BY <3>7, LeftoverKeeps
      <3> QED
        BY <2>1, <3>1, <3>2, <3>3, <3>4, <3>5, <3>6, <3>7
        DEF ServerStep, BodyStep, AnswerStep
    <2> QED
      BY <1>2, <2>1, AdmitKeeps, LeftoverKeeps, ForwardKeeps, CancelKeeps
  <1> QED  BY <1>1, <1>2 DEF Next

LEMMA LimitsInvCovers == LimitsInv => LimitsCover
  <1> SUFFICES ASSUME LimitsInv PROVE LimitsCover
    OBVIOUS
  <1>1. AdmissionCoversWork
    BY DEF LimitsInv, Shape, Counted, Admitted, AdmissionCoversWork
  <1>2. BudgetCoversBytes
    BY DEF LimitsInv, Shape, Counted, Reserved, BudgetCoversBytes
  <1>3. {r \in Requests : pc[r] = "forward" \/ "tunnel" \in live[r]} \in SUBSET InFlight
    BY DEF LimitsInv, Steady, InFlight
  <1>4. BreakerCovers
    BY <1>3, Finite, NoMore, LimitsAssumption DEF LimitsInv, Counted, BreakerCovers
  <1> QED  BY <1>1, <1>2, <1>4 DEF LimitsCover

-----------------------------------------------------------------------------
(* Forward.  Between attempts the request is unsent as far as it must be:  *)
(* its body is whole, nothing but an idempotent request has reached an     *)
(* upstream, the pick differs from the last one, and the clock is where    *)
(* the backoff cannot carry it a full cap past the deadline.               *)
Between == step \in {"top", "backoff"}
Attempting == step \in {"sending", "judge"}

TriesCounted ==
  /\ attempt = MaxRetries - tries
  /\ Between => Len(log) = attempt
  /\ Attempting => Len(log) = attempt + 1
  /\ Len(log) <= attempt + 1

PicksDiffer ==
  /\ \A a \in 2..Len(log) : log[a].inst # log[a - 1].inst
  /\ Attempting => log[Len(log)].inst = inst
  /\ Between /\ Len(log) > 0 => log[Len(log)].inst # inst

BodyKept ==
  /\ \A a \in 1..Len(log) : log[a].whole
  /\ Between => body # "spent"

ReachedLast ==
  /\ ~idempotent => \A a \in 1..Len(log) : log[a].reached => a = Len(log) /\ ~Between
  /\ step = "judge" /\ result = "connect" => ~log[Len(log)].reached

ClockBounded ==
  overall > 0 => /\ step = "sending" => timer \in Nat /\ clock + timer <= overall
                 /\ step = "judge" => clock <= overall
                 /\ step = "backoff" => timer \in Nat /\ clock + timer < overall + Cap
                 /\ clock < overall + Cap

AttemptsInv ==
  Fw!TypeOK /\ TriesCounted /\ PicksDiffer /\ BodyKept /\ ReachedLast /\ ClockBounded

LEMMA AttemptsInvSound == AttemptsInv => AttemptsSound
  <1> SUFFICES ASSUME AttemptsInv PROVE AttemptsSound
    OBVIOUS
  <1>1. Len(log) \in Nat /\ DOMAIN log = 1..Len(log)
    BY DEF AttemptsInv, Fw!TypeOK
  <1>2. Fw!AtMostOnce
    <2>1. CASE idempotent  BY <2>1 DEF Fw!AtMostOnce
    <2>2. CASE ~idempotent
      <3>1. \A a, b \in DOMAIN log : log[a].reached /\ log[b].reached => a = b
        <4>1. \A a \in 1..Len(log) : log[a].reached => a = Len(log)
          BY <2>2 DEF AttemptsInv, ReachedLast
        <4> QED  BY <1>1, <4>1
      <3> QED  BY <3>1 DEF Fw!AtMostOnce
    <2> QED  BY <2>1, <2>2
  <1>3. Fw!BodyWhole  BY <1>1 DEF AttemptsInv, BodyKept, Fw!BodyWhole
  <1>4. Fw!RetriesElsewhere
    BY <1>1, PartsAssumption
    DEF AttemptsInv, Fw!TypeOK, Fw!BoundsOK, TriesCounted, PicksDiffer, Fw!RetriesElsewhere
  <1>5. Fw!DeadlineWithSlack
    BY PartsAssumption
    DEF AttemptsInv, Fw!TypeOK, Fw!BoundsOK, ClockBounded, Fw!DeadlineWithSlack
  <1> QED  BY <1>2, <1>3, <1>4, <1>5 DEF AttemptsSound

LEMMA AttemptsInitInv == Fw!Init => AttemptsInv
  <1> SUFFICES ASSUME Fw!Init PROVE AttemptsInv
    OBVIOUS
  <1>1. log = <<>> /\ Len(log) = 0 /\ log \in Seq(Fw!Attempt)  BY DEF Fw!Init
  <1>2. Fw!TypeOK
    BY <1>1, PartsAssumption DEF Fw!Init, Fw!TypeOK, Fw!BoundsOK, Fw!Never
  <1>3. TriesCounted /\ PicksDiffer /\ BodyKept /\ ReachedLast
    BY <1>1, PartsAssumption
    DEF Fw!Init, Fw!BoundsOK, TriesCounted, PicksDiffer, BodyKept, ReachedLast,
        Between, Attempting
  <1>4. ClockBounded
    BY <1>2, PartsAssumption DEF Fw!Init, Fw!TypeOK, Fw!BoundsOK, ClockBounded
  <1> QED  BY <1>2, <1>3, <1>4 DEF AttemptsInv

LEMMA MinOfTwo ==
  ASSUME NEW a \in Int, NEW b \in Int
  PROVE  Fw!Min({a, b}) \in {a, b} /\ Fw!Min({a, b}) <= a /\ Fw!Min({a, b}) <= b
  <1>1. \E x \in {a, b} : \A y \in {a, b} : x <= y
    <2>1. CASE a <= b  BY <2>1
    <2>2. CASE b <= a  BY <2>2
    <2> QED  BY <2>1, <2>2
  <1> DEFINE m == CHOOSE x \in {a, b} : \A y \in {a, b} : x <= y
  <1>2. m \in {a, b} /\ \A y \in {a, b} : m <= y  BY <1>1
  <1>3. Fw!Min({a, b}) = m  BY DEF Fw!Min
  <1> QED  BY <1>2, <1>3

(* The two ways a step changes the log.                                    *)
Extends(e) ==
  /\ log' \in Seq(Fw!Attempt) /\ Len(log') = Len(log) + 1
  /\ log'[Len(log) + 1] = e
  /\ \A a \in 1..Len(log) : log'[a] = log[a]

Rewrites(e) ==
  /\ log' \in Seq(Fw!Attempt) /\ Len(log') = Len(log)
  /\ log'[Len(log)] = e
  /\ \A a \in 1..Len(log) - 1 : log'[a] = log[a]

LEMMA LogExtends ==
  ASSUME Fw!TypeOK, NEW e \in Fw!Attempt, log' = Append(log, e) PROVE Extends(e)
  BY DEF Fw!TypeOK, Extends

LEMMA LogRewrites ==
  ASSUME Fw!TypeOK, Len(log) > 0, NEW e \in Fw!Attempt, log' = [log EXCEPT ![Len(log)] = e]
  PROVE  Rewrites(e)
  <1>1. log \in Seq(Fw!Attempt) /\ Len(log) \in Nat /\ Len(log) \in 1..Len(log)
    BY DEF Fw!TypeOK
  <1>2. log' \in Seq(Fw!Attempt) /\ Len(log') = Len(log)
    BY <1>1, ExceptSeq
  <1>3. \A j \in 1..Len(log) : log'[j] = IF j = Len(log) THEN e ELSE log[j]
    BY <1>1, ExceptSeq
  <1>4. \A j \in 1..Len(log) - 1 : j \in 1..Len(log) /\ j # Len(log)  BY <1>1
  <1> QED  BY <1>1, <1>2, <1>3, <1>4 DEF Rewrites

LEMMA SendKeeps == ASSUME AttemptsInv, Fw!Send PROVE AttemptsInv'
  <1>1. Fw!TypeOK /\ Len(log) \in Nat /\ step = "top"
    BY DEF AttemptsInv, Fw!TypeOK, Fw!Send
  <1>2. body # "spent"  BY <1>1 DEF AttemptsInv, BodyKept, Between
  <1> DEFINE e == [inst |-> inst, whole |-> TRUE, reached |-> FALSE, report |-> "none"]
  <1>3. e \in Fw!Attempt  BY <1>1 DEF Fw!TypeOK, Fw!Attempt
  <1>4. (body # "spent") = TRUE  BY <1>2
  <1>5. log' = Append(log, e)  BY <1>4 DEF Fw!Send
  <1>6. Extends(e)  BY <1>1, <1>3, <1>5, LogExtends
  <1>7. e.inst = inst /\ e.whole /\ ~e.reached  OBVIOUS
  <1> HIDE DEF e
  <1>8. PICK t : t = Fw!PerTryTimeout  OBVIOUS
  <1>9. /\ t \in Nat \cup {-1}
        /\ overall > 0 => t \in Nat /\ clock + t <= overall
    <2>1. /\ overall \in Nat /\ clock \in Nat /\ PerTry \in Nat
          /\ overall > 0 => clock < overall
      BY <1>1, PartsAssumption
      DEF Fw!TypeOK, Fw!BoundsOK, Fw!Send, Fw!OverallElapsed
    <2>2. CASE overall = 0  BY <1>8, <2>1, <2>2 DEF Fw!PerTryTimeout, Fw!Never
    <2>3. CASE overall > 0
      <3>1. CASE PerTry = 0  BY <1>8, <2>1, <2>3, <3>1 DEF Fw!PerTryTimeout
      <3>2. CASE PerTry # 0
        <4>1. t = Fw!Min({PerTry, overall - clock})
          BY <1>8, <2>1, <2>3, <3>2 DEF Fw!PerTryTimeout
        <4>2. /\ t \in {PerTry, overall - clock} /\ t <= overall - clock
          <5>1. PerTry \in Int /\ overall - clock \in Int  BY <2>1
          <5> QED  BY <4>1, <5>1, MinOfTwo
        <4> QED  BY <2>1, <2>3, <4>2
      <3> QED  BY <3>1, <3>2
    <2> QED  BY <2>1, <2>2, <2>3
  <1>10. timer' = t /\ step' = "sending" /\ UNCHANGED <<clock, inst, overall, idempotent, tries, attempt, result>>
    BY <1>8 DEF Fw!Send, Fw!policy
  <1>11. Fw!TypeOK'
    BY <1>1, <1>6, <1>9, <1>10 DEF Fw!TypeOK, Fw!Send, Fw!AttemptBody, Fw!Never, Extends
  <1>12. TriesCounted' /\ PicksDiffer'
    BY <1>1, <1>6, <1>7, <1>10
    DEF AttemptsInv, Extends, TriesCounted, PicksDiffer, Between, Attempting
  <1>13. BodyKept'  BY <1>1, <1>6, <1>7, <1>10 DEF AttemptsInv, Extends, BodyKept, Between
  <1>14. ReachedLast'
    BY <1>1, <1>6, <1>7, <1>10 DEF AttemptsInv, Extends, ReachedLast, Between
  <1>15. ClockBounded'
    BY <1>1, <1>9, <1>10 DEF AttemptsInv, ClockBounded
  <1> QED  BY <1>11, <1>12, <1>13, <1>14, <1>15 DEF AttemptsInv

LEMMA ReachKeeps == ASSUME AttemptsInv, Fw!Reach PROVE AttemptsInv'
  <1>1. Fw!TypeOK /\ Len(log) \in Nat /\ Len(log) > 0 /\ step = "sending"
    BY PartsAssumption
    DEF AttemptsInv, Fw!TypeOK, Fw!BoundsOK, Fw!Reach, TriesCounted, Attempting
  <1>2. log[Len(log)] \in Fw!Attempt  BY <1>1 DEF Fw!TypeOK
  <1> DEFINE e == [log[Len(log)] EXCEPT !.reached = TRUE]
  <1>3. /\ e \in Fw!Attempt /\ e.inst = log[Len(log)].inst
        /\ e.whole = log[Len(log)].whole
    BY <1>2 DEF Fw!Attempt
  <1>4. log' = [log EXCEPT ![Len(log)] = e]  BY DEF Fw!Reach
  <1>5. Rewrites(e)  BY <1>1, <1>3, <1>4, LogRewrites
  <1> HIDE DEF e
  <1>6. UNCHANGED <<clock, body, step, inst, timer, overall, idempotent, tries, attempt, result>>
    BY DEF Fw!Reach, Fw!policy
  <1>7. Fw!TypeOK'  BY <1>1, <1>5, <1>6 DEF Fw!TypeOK, Rewrites
  <1>8. TriesCounted'
    BY <1>5, <1>6 DEF AttemptsInv, Rewrites, TriesCounted, Between, Attempting
  <1>9. PicksDiffer' /\ BodyKept'
    <2>1. \A a \in 1..Len(log) : log'[a].inst = log[a].inst /\ log'[a].whole = log[a].whole
      BY <1>1, <1>3, <1>5 DEF Rewrites
    <2>2. Len(log') = Len(log) /\ \A a \in 2..Len(log) : a \in 1..Len(log) /\ a - 1 \in 1..Len(log)
      BY <1>1, <1>5 DEF Rewrites
    <2>3. PicksDiffer'
      BY <1>1, <1>6, <2>1, <2>2 DEF AttemptsInv, PicksDiffer, Between, Attempting
    <2>4. BodyKept'
      BY <1>1, <1>6, <2>1, <2>2 DEF AttemptsInv, BodyKept, Between
    <2> QED  BY <2>3, <2>4
  <1>10. ReachedLast'
    BY <1>1, <1>5, <1>6 DEF AttemptsInv, Rewrites, ReachedLast, Between
  <1>11. ClockBounded'  BY <1>6 DEF AttemptsInv, ClockBounded
  <1> QED  BY <1>7, <1>8, <1>9, <1>10, <1>11 DEF AttemptsInv

(* A tick moves the clock at most as far as it moves the timer.            *)
LEMMA TickArithmetic ==
  ASSUME NEW c \in Nat, NEW d \in Nat, d <= c + 1, NEW t \in Nat, t # 0,
         NEW o \in Nat, NEW cap \in Nat, cap > 0
  PROVE  /\ t - 1 \in Nat
         /\ c + t <= o => d + (t - 1) <= o /\ d < o + cap
         /\ c + t < o + cap => d + (t - 1) < o + cap /\ d < o + cap
  OBVIOUS

LEMMA BackoffArithmetic ==
  ASSUME NEW c \in Nat, NEW o \in Nat, c < o, NEW cap \in Nat, NEW t \in 0..cap
  PROVE  t \in Nat /\ c + t < o + cap /\ c < o + cap
  OBVIOUS

(* The steps that leave the log alone.                                     *)
LEMMA QuietKeeps ==
  ASSUME AttemptsInv,
         \/ Fw!DeadlineAtTop \/ Fw!BuildFails \/ Fw!JudgeOverall
         \/ Fw!Wake \/ Fw!Cancel \/ Fw!Tick \/ Fw!Terminated
         \/ \E o \in Fw!Outcomes : Fw!Ends(o)
  PROVE  AttemptsInv'
  <1>1. Fw!TypeOK /\ Len(log) \in Nat /\ log' = log
    BY DEF AttemptsInv, Fw!TypeOK, Fw!DeadlineAtTop, Fw!BuildFails, Fw!JudgeOverall,
           Fw!Wake, Fw!Cancel, Fw!Tick, Fw!Terminated, Fw!vars, Fw!Ends
  <1>2. ASSUME NEW o \in Fw!Returned, Fw!Return(o),
               body' \in {"bodyless", "oneshot", "spent", "replayable"},
               UNCHANGED <<clock, inst, overall, idempotent, tries, attempt>>
        PROVE  AttemptsInv'
    <2>1. Fw!TypeOK'  BY <1>1, <1>2 DEF Fw!TypeOK, Fw!Return
    <2>2. TriesCounted' /\ PicksDiffer' /\ BodyKept'
      BY <1>1, <1>2
      DEF AttemptsInv, Fw!Return, TriesCounted, PicksDiffer, BodyKept, Between, Attempting
    <2>3. ReachedLast'
      BY <1>1, <1>2 DEF AttemptsInv, Fw!Return, ReachedLast, Between
    <2>4. ClockBounded'  BY <1>2 DEF AttemptsInv, Fw!Return, ClockBounded
    <2> QED  BY <2>1, <2>2, <2>3, <2>4 DEF AttemptsInv
  <1>3. CASE \/ Fw!DeadlineAtTop \/ Fw!BuildFails \/ Fw!JudgeOverall \/ Fw!Cancel
    <2>1. PICK o \in Fw!Returned : Fw!Return(o)
      BY <1>3
      DEF Fw!DeadlineAtTop, Fw!BuildFails, Fw!JudgeOverall, Fw!Cancel, Fw!Returned
    <2>2. /\ body' \in {"bodyless", "oneshot", "spent", "replayable"}
          /\ UNCHANGED <<clock, inst, overall, idempotent, tries, attempt>>
      BY <1>1, <1>3
      DEF Fw!DeadlineAtTop, Fw!BuildFails, Fw!JudgeOverall, Fw!Cancel, Fw!AttemptBody,
          Fw!TypeOK, Fw!policy
    <2> QED  BY <1>2, <2>1, <2>2
  <1>4. ASSUME NEW o \in Fw!Outcomes, Fw!Ends(o) PROVE AttemptsInv'
    <2>1. /\ step = "sending" /\ step' = "judge" /\ result' = o /\ timer' = Fw!Never
          /\ o = "connect" => ~log[Len(log)].reached
          /\ UNCHANGED <<clock, body, inst, overall, idempotent, tries, attempt>>
      BY <1>4 DEF Fw!Ends, Fw!policy, Fw!Last
    <2>2. Fw!TypeOK'  BY <1>1, <2>1 DEF Fw!TypeOK
    <2>3. TriesCounted' /\ PicksDiffer' /\ BodyKept'
      BY <1>1, <2>1
      DEF AttemptsInv, TriesCounted, PicksDiffer, BodyKept, Between, Attempting
    <2>4. ReachedLast'  BY <1>1, <2>1 DEF AttemptsInv, ReachedLast, Between
    <2>5. ClockBounded'
      BY <1>1, <2>1, PartsAssumption DEF AttemptsInv, Fw!TypeOK, Fw!BoundsOK, ClockBounded
    <2> QED  BY <2>2, <2>3, <2>4, <2>5 DEF AttemptsInv
  <1>5. CASE Fw!Wake
    <2>1. /\ step = "backoff" /\ step' = "top" /\ timer' = Fw!Never
          /\ UNCHANGED <<clock, body, inst, overall, idempotent, tries, attempt, result>>
      BY <1>5 DEF Fw!Wake, Fw!policy
    <2>2. Fw!TypeOK'  BY <1>1, <2>1 DEF Fw!TypeOK
    <2>3. TriesCounted' /\ PicksDiffer' /\ BodyKept'
      BY <1>1, <2>1
      DEF AttemptsInv, TriesCounted, PicksDiffer, BodyKept, Between, Attempting
    <2>4. ReachedLast'  BY <1>1, <2>1 DEF AttemptsInv, ReachedLast, Between
    <2>5. ClockBounded'
      BY <1>1, <2>1 DEF AttemptsInv, Fw!TypeOK, ClockBounded
    <2> QED  BY <2>2, <2>3, <2>4, <2>5 DEF AttemptsInv
  <1>6. CASE Fw!Tick
    <2>1. /\ step \in {"sending", "backoff"} /\ timer # 0
          /\ timer' = IF timer = -1 THEN -1 ELSE timer - 1
          /\ UNCHANGED <<step, body, inst, overall, idempotent, tries, attempt, result>>
      BY <1>6 DEF Fw!Tick, Fw!policy, Fw!Never
    <2>2. clock' \in 0..Horizon /\ clock' <= clock + 1
      <3>1. clock + 1 \in Int /\ Horizon \in Int /\ clock \in 0..Horizon
        BY <1>1, PartsAssumption DEF Fw!TypeOK, Fw!BoundsOK
      <3>2. clock' \in {clock + 1, Horizon} /\ clock' <= clock + 1 /\ clock' <= Horizon
        BY <1>6, <3>1, MinOfTwo DEF Fw!Tick
      <3> QED  BY <3>1, <3>2
    <2>3. Fw!TypeOK'  BY <1>1, <2>1, <2>2 DEF Fw!TypeOK, Fw!Never
    <2>4. TriesCounted' /\ PicksDiffer' /\ BodyKept'
      BY <1>1, <2>1
      DEF AttemptsInv, TriesCounted, PicksDiffer, BodyKept, Between, Attempting
    <2>5. ReachedLast'  BY <1>1, <2>1 DEF AttemptsInv, ReachedLast, Between
    <2>6. ClockBounded'
      <3>1. /\ overall \in Nat /\ clock \in Nat /\ clock' \in Nat /\ clock' <= clock + 1
            /\ Cap \in Nat /\ Cap > 0
        BY <1>1, <2>2, PartsAssumption DEF Fw!TypeOK, Fw!BoundsOK
      <3>2. CASE step = "sending" /\ overall > 0
        <4>1. timer \in Nat /\ clock + timer <= overall
          BY <3>2 DEF AttemptsInv, ClockBounded
        <4>2. timer # 0 /\ timer' = timer - 1 /\ overall' = overall /\ step' = "sending"
          BY <2>1, <3>2, <4>1
        <4>3. timer' \in Nat /\ clock' + timer' <= overall /\ clock' < overall + Cap
          BY <3>1, <4>1, <4>2, TickArithmetic
        <4> QED  BY <4>2, <4>3 DEF ClockBounded
      <3>3. CASE step = "backoff" /\ overall > 0
        <4>1. timer \in Nat /\ clock + timer < overall + Cap
          BY <3>3 DEF AttemptsInv, ClockBounded
        <4>2. timer # 0 /\ timer' = timer - 1 /\ overall' = overall /\ step' = "backoff"
          BY <2>1, <3>3, <4>1
        <4>3. timer' \in Nat /\ clock' + timer' < overall + Cap /\ clock' < overall + Cap
          BY <3>1, <4>1, <4>2, TickArithmetic
        <4> QED  BY <4>2, <4>3 DEF ClockBounded
      <3> QED  BY <2>1, <3>1, <3>2, <3>3 DEF ClockBounded
    <2> QED  BY <2>3, <2>4, <2>5, <2>6 DEF AttemptsInv
  <1>7. CASE Fw!Terminated
    BY <1>7
    DEF Fw!Terminated, Fw!vars, AttemptsInv, Fw!TypeOK, TriesCounted, PicksDiffer,
        BodyKept, ReachedLast, ClockBounded, Between, Attempting
  <1> QED  BY <1>3, <1>4, <1>5, <1>6, <1>7

(* The steps that report on the last attempt.                              *)
LEMMA ReportIs ==
  ASSUME Fw!TypeOK, Len(log) > 0, Fw!Report
  PROVE  \E e \in Fw!Attempt : /\ Rewrites(e) /\ e.inst = log[Len(log)].inst
                               /\ e.whole = log[Len(log)].whole
                               /\ e.reached = log[Len(log)].reached
  <1>1. PICK x \in {"none", "good", "bad", "passive"} :
          log' = [log EXCEPT ![Len(log)].report = x]
    BY DEF Fw!Report
  <1>2. log[Len(log)] \in Fw!Attempt  BY DEF Fw!TypeOK
  <1> DEFINE e == [log[Len(log)] EXCEPT !.report = x]
  <1>3. /\ e \in Fw!Attempt /\ e.inst = log[Len(log)].inst
        /\ e.whole = log[Len(log)].whole /\ e.reached = log[Len(log)].reached
    BY <1>2 DEF Fw!Attempt
  <1>4. log' = [log EXCEPT ![Len(log)] = e]  BY <1>1
  <1>5. Rewrites(e)  BY <1>3, <1>4, LogRewrites
  <1> HIDE DEF e
  <1> QED  BY <1>3, <1>5

LEMMA JudgeKeeps ==
  ASSUME AttemptsInv, Fw!GiveUp \/ \E i \in Instances : Fw!Retry(i)
  PROVE  AttemptsInv'
  <1>1. Fw!TypeOK /\ Len(log) \in Nat /\ Len(log) > 0 /\ step = "judge" /\ Fw!Report
    BY PartsAssumption
    DEF AttemptsInv, Fw!TypeOK, Fw!BoundsOK, Fw!GiveUp, Fw!Retry, Fw!Judging, TriesCounted,
        Attempting
  <1>2. PICK e \in Fw!Attempt : /\ Rewrites(e) /\ e.inst = log[Len(log)].inst
                               /\ e.whole = log[Len(log)].whole
                               /\ e.reached = log[Len(log)].reached
    BY <1>1, ReportIs
  <1>3. \A a \in 1..Len(log) :
          /\ log'[a].inst = log[a].inst /\ log'[a].whole = log[a].whole
          /\ log'[a].reached = log[a].reached
    BY <1>1, <1>2 DEF Rewrites
  <1>4. /\ Len(log') = Len(log) /\ log' \in Seq(Fw!Attempt)
        /\ \A a \in 2..Len(log) : a \in 1..Len(log) /\ a - 1 \in 1..Len(log)
    BY <1>1, <1>2 DEF Rewrites
  <1>5. Len(log) \in 1..Len(log)  BY <1>1
  <1>6. CASE Fw!GiveUp
    <2>1. /\ step' = "done" /\ timer' = -1 /\ result' \in Fw!Returned
          /\ UNCHANGED <<clock, body, inst, overall, idempotent, tries, attempt>>
      BY <1>6 DEF Fw!GiveUp, Fw!Return, Fw!policy, Fw!Never, Fw!Returned
    <2>2. Fw!TypeOK'  BY <1>1, <1>4, <2>1 DEF Fw!TypeOK, Fw!Never
    <2>3. TriesCounted'
      BY <1>4, <2>1 DEF AttemptsInv, TriesCounted, Between, Attempting
    <2>4. PicksDiffer'
      BY <1>3, <1>4, <2>1 DEF AttemptsInv, PicksDiffer, Between, Attempting
    <2>5. BodyKept'  BY <1>3, <1>4, <2>1 DEF AttemptsInv, BodyKept, Between
    <2>6. ReachedLast'
      BY <1>3, <1>4, <2>1 DEF AttemptsInv, ReachedLast, Between
    <2>7. ClockBounded'  BY <2>1 DEF AttemptsInv, ClockBounded
    <2> QED  BY <2>2, <2>3, <2>4, <2>5, <2>6, <2>7 DEF AttemptsInv
  <1>7. ASSUME NEW i \in Instances, Fw!Retry(i) PROVE AttemptsInv'
    <2>1. /\ step' = "backoff" /\ result' = "none" /\ inst' = i /\ i # inst
          /\ timer' \in 0..Cap /\ tries' = tries - 1 /\ attempt' = attempt + 1
          /\ UNCHANGED <<clock, overall, idempotent, body>>
      BY <1>7 DEF Fw!Retry, Fw!Backoffs
    <2>2. /\ tries > 0 /\ body \in {"bodyless", "replayable"}
          /\ ~idempotent => result = "connect"
          /\ overall > 0 => clock < overall
      BY <1>1, <1>7, PartsAssumption
      DEF Fw!Retry, Fw!ShouldAttemptRetry, Fw!MayRetry, Fw!Replayable, Fw!OverallElapsed,
          Fw!TypeOK, Fw!BoundsOK
    <2>3. /\ overall \in Nat /\ clock \in Nat /\ MaxRetries \in Nat /\ Cap \in Nat /\ Cap > 0
          /\ tries \in Nat /\ tries <= MaxRetries /\ attempt = MaxRetries - tries
          /\ Len(log) = attempt + 1
      BY <1>1, PartsAssumption
      DEF AttemptsInv, TriesCounted, Attempting, Fw!TypeOK, Fw!BoundsOK
    <2>4. Fw!TypeOK'
      BY <1>1, <1>4, <2>1, <2>2, <2>3 DEF Fw!TypeOK
    <2>5. TriesCounted'
      BY <1>4, <2>1, <2>2, <2>3 DEF TriesCounted, Between, Attempting
    <2>6. PicksDiffer'
      BY <1>1, <1>3, <1>4, <1>5, <2>1 DEF AttemptsInv, PicksDiffer, Between, Attempting
    <2>7. BodyKept'
      BY <1>3, <1>4, <2>1, <2>2 DEF AttemptsInv, BodyKept, Between
    <2>8. ReachedLast'
      BY <1>1, <1>3, <1>4, <2>1, <2>2 DEF AttemptsInv, ReachedLast, Between
    <2>9. ClockBounded'
      <3>1. timer' \in 0..Cap /\ clock' = clock /\ overall' = overall /\ step' = "backoff"
        BY <2>1
      <3>2. overall > 0 => timer' \in Nat /\ clock + timer' < overall + Cap /\ clock < overall + Cap
        BY <2>2, <2>3, <3>1, BackoffArithmetic
      <3> QED  BY <3>1, <3>2 DEF ClockBounded
    <2> QED  BY <2>4, <2>5, <2>6, <2>7, <2>8, <2>9 DEF AttemptsInv
  <1> QED  BY <1>6, <1>7

LEMMA AttemptsStepInv == AttemptsInv /\ [Fw!Next]_forwardState => AttemptsInv'
  <1> SUFFICES ASSUME AttemptsInv, [Fw!Next]_forwardState PROVE AttemptsInv'
    OBVIOUS
  <1>1. CASE UNCHANGED forwardState
    BY <1>1
    DEF forwardState, AttemptsInv, Fw!TypeOK, TriesCounted, PicksDiffer, BodyKept,
        ReachedLast, ClockBounded, Between, Attempting
  <1>2. CASE Fw!Next
    BY <1>2, SendKeeps, ReachKeeps, QuietKeeps, JudgeKeeps DEF Fw!Next
  <1> QED  BY <1>1, <1>2

-----------------------------------------------------------------------------
(* HealthCheck.  Only Reload touches the registry, and only a probe that   *)
(* the backend answered promotes.  The instances of a group value were     *)
(* created by it or an earlier one, so creating the next one's leaves what *)
(* they were created with alone; an answered probe is on record for the    *)
(* instance it was sent for until it is counted there.                     *)
HealthPolicies == {strict, lax}

Created == [policy : HealthPolicies, weight : Nat]

RegistryTypes ==
  /\ gen \in 1..Gens
  /\ group \in [1..Gens -> Sections]
  /\ eps \in [1..Gens -> SUBSET Hc!Insts]
  /\ made \in [Hc!Insts -> Created]

MadeEarlier == \A g \in 1..gen : \A i \in eps[g] : i[1] <= g

MadeAsDeclared ==
  \A g \in 1..gen : \A i \in eps[g] :
    made[i].policy = group[g].policy /\ made[i].weight = group[g].weight[i[2]]

RegistryInv == RegistryTypes /\ MadeEarlier /\ MadeAsDeclared

MeritInv ==
  /\ healthy \in [Hc!Insts -> BOOLEAN]
  /\ probes \in [Hc!Insts -> [sent : Int, ok : Int, bad : Int]]
  /\ \A i \in Hc!Insts : healthy[i] \/ probes[i].ok > 0 => i \in answered

HealthInv == RegistryInv /\ MeritInv

LEMMA HealthBounds ==
  /\ Gens \in Nat \ {0}
  /\ \A d \in Sections : /\ d.policy \in HealthPolicies /\ Hc!Listed(d) \subseteq Addrs
                          /\ \A a \in Addrs : d.weight[a] \in Nat
  BY PartsAssumption DEF Hc!BoundsOK, HealthPolicies, Hc!Listed

LEMMA HealthInitInv == Hc!Init => HealthInv
  <1> SUFFICES ASSUME Hc!Init PROVE HealthInv
    OBVIOUS
  <1>1. Gens \in Nat \ {0}  BY HealthBounds
  <1>2. gen = 1 /\ gen \in 1..Gens /\ 1..gen = {1}  BY <1>1 DEF Hc!Init
  <1>3. PICK d \in Sections : group = [g \in 1..Gens |-> d]
    BY DEF Hc!Init
  <1>4. group[1] = d /\ group \in [1..Gens -> Sections]  BY <1>1, <1>3
  <1>5. eps = [g \in 1..Gens |-> IF g = 1 THEN {1} \X Hc!Listed(d) ELSE {}]
    BY <1>4 DEF Hc!Init
  <1>6. made = [i \in Hc!Insts |-> [policy |-> d.policy, weight |-> d.weight[i[2]]]]
    BY <1>4 DEF Hc!Init
  <1>7. {1} \X Hc!Listed(d) \in SUBSET Hc!Insts /\ \A i \in {1} \X Hc!Listed(d) : i[1] = 1
    <2>1. {1} \subseteq 1..Gens  BY <1>1
    <2> QED  BY <2>1, HealthBounds DEF Hc!Insts
  <1>8. made \in [Hc!Insts -> Created]
    <2>1. \A i \in Hc!Insts : d.weight[i[2]] \in Nat  BY HealthBounds DEF Hc!Insts
    <2> QED  BY <1>6, <2>1, HealthBounds DEF Created
  <1>9. RegistryTypes  BY <1>2, <1>4, <1>5, <1>7, <1>8 DEF RegistryTypes
  <1>10. eps[1] = {1} \X Hc!Listed(d)  BY <1>1, <1>5
  <1>11. MadeEarlier
    <2>1. \A i \in {1} \X Hc!Listed(d) : i[1] <= 1  BY <1>7
    <2>2. \A i \in eps[1] : i[1] <= 1  BY <1>10, <2>1
    <2> QED  BY <1>2, <2>2 DEF MadeEarlier
  <1>12. MadeAsDeclared  BY <1>2, <1>4, <1>6, <1>7, <1>10 DEF MadeAsDeclared
  <1>13. MeritInv  BY DEF MeritInv, Hc!Init, Hc!NoProbe
  <1> QED  BY <1>9, <1>11, <1>12, <1>13 DEF HealthInv, RegistryInv

(* What a reload makes of the registry.                                    *)
LEMMA ReloadIs ==
  ASSUME RegistryTypes, NEW d \in Sections, Hc!Reload(d)
  PROVE  /\ gen < Gens /\ gen' = gen + 1 /\ gen' \in 1..Gens
         /\ group' \in [1..Gens -> Sections] /\ group'[gen + 1] = d
         /\ \A g \in 1..gen : group'[g] = group[g] /\ eps'[g] = eps[g]
         /\ \E kept \in SUBSET Hc!Reusable(d), new \in SUBSET ({gen + 1} \X Addrs) :
              /\ eps' \in [1..Gens -> SUBSET Hc!Insts] /\ eps'[gen + 1] = kept \cup new
              /\ made' = [i \in Hc!Insts |->
                             IF i \in new THEN [policy |-> d.policy, weight |-> d.weight[i[2]]]
                             ELSE made[i]]
  <1> DEFINE kept == {i \in Hc!Reusable(d) : i[2] \in Hc!Listed(d)}
             new == {gen + 1} \X (Hc!Listed(d) \ {i[2] : i \in kept})
  <1>1. Gens \in Nat \ {0}  BY HealthBounds
  <1>2. gen < Gens /\ gen' = gen + 1 /\ gen' \in 1..Gens
    BY <1>1 DEF RegistryTypes, Hc!Reload
  <1>3. /\ group' = [group EXCEPT ![gen + 1] = d]
        /\ eps' = [eps EXCEPT ![gen + 1] = kept \cup new]
        /\ made' = [i \in Hc!Insts |->
                       IF i \in new THEN [policy |-> d.policy, weight |-> d.weight[i[2]]]
                       ELSE made[i]]
    BY DEF Hc!Reload
  <1>4. kept \in SUBSET Hc!Reusable(d) /\ new \in SUBSET ({gen + 1} \X Addrs)
    BY HealthBounds
  <1>5. Hc!Reusable(d) \in SUBSET Hc!Insts /\ {gen + 1} \X Addrs \in SUBSET Hc!Insts
    BY <1>1, <1>2 DEF RegistryTypes, Hc!Insts, Hc!Reusable
  <1>6. kept \cup new \in SUBSET Hc!Insts  BY <1>4, <1>5
  <1>7. \A g \in 1..gen : g \in 1..Gens /\ g # gen + 1
    BY <1>1 DEF RegistryTypes
  <1> HIDE DEF kept, new
  <1>8. /\ group' \in [1..Gens -> Sections] /\ group'[gen + 1] = d
        /\ eps' \in [1..Gens -> SUBSET Hc!Insts] /\ eps'[gen + 1] = kept \cup new
        /\ \A g \in 1..gen : group'[g] = group[g] /\ eps'[g] = eps[g]
    BY <1>2, <1>3, <1>6, <1>7 DEF RegistryTypes
  <1> QED  BY <1>2, <1>3, <1>4, <1>8

LEMMA ReloadKeeps ==
  ASSUME RegistryInv, NEW d \in Sections, Hc!Reload(d)
  PROVE  RegistryInv'
  <1>1. RegistryTypes  BY DEF RegistryInv
  <1>2. /\ gen < Gens /\ gen' = gen + 1 /\ gen' \in 1..Gens
        /\ group' \in [1..Gens -> Sections] /\ group'[gen + 1] = d
        /\ \A g \in 1..gen : group'[g] = group[g] /\ eps'[g] = eps[g]
    BY <1>1, ReloadIs
  <1>3. PICK kept \in SUBSET Hc!Reusable(d), new \in SUBSET ({gen + 1} \X Addrs) :
          /\ eps' \in [1..Gens -> SUBSET Hc!Insts] /\ eps'[gen + 1] = kept \cup new
          /\ made' = [i \in Hc!Insts |->
                         IF i \in new THEN [policy |-> d.policy, weight |-> d.weight[i[2]]]
                         ELSE made[i]]
    BY <1>1, ReloadIs
  <1>4. RegistryTypes'
    <2>1. \A i \in Hc!Insts : d.weight[i[2]] \in Nat  BY HealthBounds DEF Hc!Insts
    <2>2. made' \in [Hc!Insts -> Created]
      BY <1>1, <1>3, <2>1, HealthBounds DEF RegistryTypes, Created
    <2> QED  BY <1>2, <1>3, <2>2 DEF RegistryTypes
  <1>5. gen \in Nat /\ gen \in 1..gen /\ 1..(gen + 1) = (1..gen) \cup {gen + 1}
    BY <1>1, HealthBounds DEF RegistryTypes
  <1>6. \A i \in new : i[1] = gen + 1 /\ i \in Hc!Insts  BY <1>2, <1>3 DEF Hc!Insts
  <1>7. \A g \in 1..gen : \A i \in eps[g] : /\ i \in Hc!Insts /\ i[1] \in Nat /\ g \in Nat
                                           /\ i[1] <= g /\ g <= gen
    BY <1>1, <1>5, HealthBounds DEF RegistryInv, MadeEarlier, RegistryTypes, Hc!Insts
  <1>8. \A g \in 1..gen : \A i \in eps[g] : i \notin new /\ i[1] <= gen + 1
    BY <1>5, <1>6, <1>7
  <1>9. \A i \in kept : i \in eps[gen] /\ i \notin new /\ i \in Hc!Insts
    BY <1>3, <1>5, <1>7, <1>8 DEF Hc!Reusable
  <1>10. MadeEarlier'
    <2>1. \A g \in 1..gen : \A i \in eps'[g] : i[1] <= g
      BY <1>2 DEF RegistryInv, MadeEarlier
    <2>2. \A i \in kept : i[1] <= gen + 1  BY <1>5, <1>8, <1>9
    <2>3. \A i \in new : i[1] <= gen + 1  BY <1>5, <1>6
    <2>4. \A i \in eps'[gen + 1] : i[1] <= gen + 1  BY <1>3, <2>2, <2>3
    <2> QED  BY <1>2, <1>5, <2>1, <2>4 DEF MadeEarlier
  <1>11. MadeAsDeclared'
    <2>1. \A g \in 1..gen : \A i \in eps'[g] :
            made'[i].policy = group'[g].policy /\ made'[i].weight = group'[g].weight[i[2]]
      BY <1>2, <1>3, <1>7, <1>8 DEF RegistryInv, MadeAsDeclared
    <2>2. \A i \in kept : made'[i].policy = d.policy /\ made'[i].weight = d.weight[i[2]]
      BY <1>3, <1>5, <1>9 DEF RegistryInv, MadeAsDeclared, Hc!Reusable
    <2>3. \A i \in new : made'[i].policy = d.policy /\ made'[i].weight = d.weight[i[2]]
      BY <1>3, <1>6
    <2>4. \A i \in eps'[gen + 1] :
            made'[i].policy = group'[gen + 1].policy /\ made'[i].weight = group'[gen + 1].weight[i[2]]
      BY <1>2, <1>3, <2>2, <2>3
    <2> QED  BY <1>2, <1>5, <2>1, <2>4 DEF MadeAsDeclared
  <1> QED  BY <1>4, <1>10, <1>11 DEF RegistryInv

(* A step of the registry is a reload.                                     *)
LEMMA RegistryStep ==
  ASSUME [Hc!Next]_healthState
  PROVE  UNCHANGED <<gen, group, eps, made>> \/ \E d \in Sections : Hc!Reload(d)
  <1>1. CASE UNCHANGED healthState  BY <1>1 DEF healthState
  <1>2. CASE Hc!Publish \/ Hc!Tick  BY <1>2 DEF Hc!Publish, Hc!Tick, Hc!registry
  <1>3. ASSUME NEW a \in Addrs, Hc!IntervalElapses(a) \/ Hc!Flip(a)
        PROVE  UNCHANGED <<gen, group, eps, made>>
    BY <1>3 DEF Hc!IntervalElapses, Hc!Flip, Hc!registry
  <1>4. ASSUME NEW i \in Hc!Insts, Hc!Answer(i) \/ Hc!ProbeOk(i) \/ Hc!ProbeBad(i)
        PROVE  UNCHANGED <<gen, group, eps, made>>
    BY <1>4 DEF Hc!Answer, Hc!ProbeOk, Hc!ProbeBad, Hc!registry
  <1>5. ASSUME NEW r \in Senders,
               (\E i \in Hc!Insts : Hc!Pick(r, i)) \/ Hc!Connect(r) \/ Hc!RecordPassive(r)
        PROVE  UNCHANGED <<gen, group, eps, made>>
    BY <1>5 DEF Hc!Pick, Hc!Connect, Hc!RecordPassive, Hc!registry
  <1> QED  BY <1>1, <1>2, <1>3, <1>4, <1>5 DEF Hc!Next

(* An answer is put on record for the instance it was sent for; counting   *)
(* it promotes only that instance, and a failure promotes none.            *)
LEMMA MeritStep == MeritInv /\ [Hc!Next]_healthState => MeritInv'
  <1> SUFFICES ASSUME MeritInv, [Hc!Next]_healthState PROVE MeritInv'
    OBVIOUS
  <1>1. CASE UNCHANGED <<healthy, probes, answered>>  BY <1>1 DEF MeritInv
  <1>2. CASE Hc!Tick
    <2>1. healthy' = healthy /\ answered' = answered  BY <1>2 DEF Hc!Tick, Hc!state
    <2>2. \A i \in Hc!Insts : /\ probes'[i] \in [sent : Int, ok : Int, bad : Int]
                             /\ probes'[i].ok = probes[i].ok
      BY <1>2 DEF Hc!Tick, MeritInv
    <2>3. probes' \in [Hc!Insts -> [sent : Int, ok : Int, bad : Int]]
      <3>1. PICK S : probes' = [i \in Hc!Insts |-> IF i \in S THEN [probes[i] EXCEPT !.sent = @ + 1]
                                                 ELSE probes[i]]
        BY <1>2 DEF Hc!Tick
      <3> QED  BY <2>2, <3>1
    <2> QED  BY <2>1, <2>2, <2>3 DEF MeritInv
  <1>3. ASSUME NEW i \in Hc!Insts, Hc!Answer(i) PROVE MeritInv'
    <2>1. healthy' = healthy /\ answered \subseteq answered'
      BY <1>3 DEF Hc!Answer, Hc!state
    <2>2. /\ probes' \in [Hc!Insts -> [sent : Int, ok : Int, bad : Int]]
          /\ \A j \in Hc!Insts : j # i => probes'[j] = probes[j]
      <3>1. CASE up[i[2]]
        <4>1. probes' = [probes EXCEPT ![i].sent = @ - 1, ![i].ok = @ + 1]
          BY <1>3, <3>1 DEF Hc!Answer
        <4> QED  BY <4>1 DEF MeritInv
      <3>2. CASE ~up[i[2]]
        <4>1. probes' = [probes EXCEPT ![i].sent = @ - 1, ![i].bad = @ + 1]
          BY <1>3, <3>2 DEF Hc!Answer
        <4> QED  BY <4>1 DEF MeritInv
      <3> QED  BY <3>1, <3>2
    <2>3. CASE up[i[2]]
      <3>1. i \in answered'  BY <1>3, <2>3 DEF Hc!Answer
      <3> QED  BY <2>1, <2>2, <3>1 DEF MeritInv
    <2>4. CASE ~up[i[2]]
      <3>1. probes'[i].ok = probes[i].ok  BY <1>3, <2>4 DEF Hc!Answer, MeritInv
      <3> QED  BY <2>1, <2>2, <3>1 DEF MeritInv
    <2> QED  BY <2>3, <2>4
  <1>4. ASSUME NEW i \in Hc!Insts, Hc!ProbeOk(i) PROVE MeritInv'
    <2>1. i \in answered /\ answered' = answered  BY <1>4 DEF Hc!ProbeOk, MeritInv
    <2>2. /\ probes' \in [Hc!Insts -> [sent : Int, ok : Int, bad : Int]]
          /\ \A j \in Hc!Insts : probes'[j].ok > 0 => j \in answered
      BY <1>4 DEF Hc!ProbeOk, MeritInv
    <2>3. \/ healthy' = healthy
          \/ \E b \in BOOLEAN : healthy' = [healthy EXCEPT ![i] = b]
      <3>1. CASE healthy[i]  BY <1>4, <3>1 DEF Hc!ProbeOk, Hc!RecordProbeSuccess
      <3>2. CASE ~healthy[i]
        <4> DEFINE promoted == streak[i].ok + 1 >= Hc!Need(i)
        <4>1. healthy' = [healthy EXCEPT ![i] = promoted]
          BY <1>4, <3>2 DEF Hc!ProbeOk, Hc!RecordProbeSuccess
        <4>2. promoted \in BOOLEAN  OBVIOUS
        <4> HIDE DEF promoted
        <4> QED  BY <4>1, <4>2
      <3> QED  BY <3>1, <3>2
    <2> QED  BY <2>1, <2>2, <2>3 DEF MeritInv
  <1>5. ASSUME NEW i, Hc!RecordFailure(i)
        PROVE  /\ healthy' \in [Hc!Insts -> BOOLEAN]
               /\ \A j \in Hc!Insts : healthy'[j] => healthy[j]
    BY <1>5 DEF Hc!RecordFailure, MeritInv
  <1>6. ASSUME NEW i \in Hc!Insts, Hc!ProbeBad(i) PROVE MeritInv'
    <2>1. /\ probes' \in [Hc!Insts -> [sent : Int, ok : Int, bad : Int]]
          /\ \A j \in Hc!Insts : probes'[j].ok = probes[j].ok
          /\ answered' = answered
      BY <1>6 DEF Hc!ProbeBad, MeritInv
    <2> QED  BY <1>5, <1>6, <2>1 DEF Hc!ProbeBad, MeritInv
  <1>7. ASSUME NEW r \in Senders, Hc!RecordPassive(r) PROVE MeritInv'
    BY <1>5, <1>7 DEF Hc!RecordPassive, MeritInv
  <1>8. \/ UNCHANGED <<healthy, probes, answered>> \/ Hc!Tick
        \/ \E i \in Hc!Insts : Hc!Answer(i) \/ Hc!ProbeOk(i) \/ Hc!ProbeBad(i)
        \/ \E r \in Senders : Hc!RecordPassive(r)
    BY DEF Hc!Next, Hc!Reload, Hc!Publish, Hc!IntervalElapses, Hc!Flip, Hc!Pick, Hc!Connect,
           Hc!state, healthState
  <1> QED  BY <1>1, <1>2, <1>3, <1>4, <1>6, <1>7, <1>8

LEMMA HealthStepInv == HealthInv /\ [Hc!Next]_healthState => HealthInv'
  <1> SUFFICES ASSUME HealthInv, [Hc!Next]_healthState PROVE HealthInv'
    OBVIOUS
  <1>1. CASE UNCHANGED <<gen, group, eps, made>>
    BY <1>1, MeritStep
    DEF HealthInv, RegistryInv, RegistryTypes, MadeEarlier, MadeAsDeclared
  <1>2. CASE \E d \in Sections : Hc!Reload(d)
    BY <1>2, ReloadKeeps, MeritStep DEF HealthInv
  <1> QED  BY <1>1, <1>2, RegistryStep

LEMMA HealthInvServes == HealthInv => ServesAsDeclared
  <1> SUFFICES ASSUME HealthInv, NEW g \in 1..gen, NEW i \in eps[g]
               PROVE  /\ made[i].policy = group[g].policy
                      /\ made[i].weight = group[g].weight[i[2]]
                      /\ healthy[i] => i \in answered
    BY DEF ServesAsDeclared, Hc!ServesAsDeclared
  <1>1. g \in 1..Gens  BY HealthBounds DEF HealthInv, RegistryInv, RegistryTypes
  <1>2. i \in Hc!Insts  BY <1>1 DEF HealthInv, RegistryInv, RegistryTypes
  <1> QED  BY <1>2 DEF HealthInv, RegistryInv, MadeAsDeclared, MeritInv

-----------------------------------------------------------------------------
(* The specification: each part steps alone, the others rest.              *)
RequestVars == <<part, vars, forwardState, healthState>>

RequestInv == LimitsInv /\ AttemptsInv /\ HealthInv

LEMMA RequestInvInit == RequestInit => RequestInv
  BY LimitsInitInv, AttemptsInitInv, HealthInitInv DEF RequestInit, RequestInv

LEMMA RequestStepParts ==
  [RequestNext]_RequestVars =>
    [Next]_vars /\ [Fw!Next]_forwardState /\ [Hc!Next]_healthState
  BY DEF RequestNext, RequestVars

LEMMA RequestInvStep == RequestInv /\ [RequestNext]_RequestVars => RequestInv'
  BY RequestStepParts, LimitsStepInv, AttemptsStepInv, HealthStepInv DEF RequestInv

LEMMA RequestInvariant == RequestSpec => []RequestInv
  BY RequestInvInit, RequestInvStep, PTL DEF RequestSpec, RequestVars

(* For every limit and any number of requests: the work still done for     *)
(* admitted requests, cancelled ones included, the buffered bytes wherever *)
(* they sit, and the requests and tunnels an upstream has, stay within     *)
(* MAX_INFLIGHT_REQUESTS, the byte budget and max_requests (proxy.rs).     *)
THEOREM RequestLimitsCover == RequestSpec => []LimitsCover
  BY RequestInvariant, LimitsInvCovers, PTL DEF RequestInv

(* For every retry budget, timeout and backoff: no request that is not     *)
(* idempotent reaches two upstreams, no attempt carries a spent body, each *)
(* retry goes elsewhere and within the budget, no attempt outlives the     *)
(* overall deadline and no request outlives it by a backoff cap            *)
(* (forward_with_retry).                                                   *)
THEOREM RequestAttemptsSound == RequestSpec => []AttemptsSound
  BY RequestInvariant, AttemptsInvSound, PTL DEF RequestInv

(* For every set of sections, any addresses and any number of reloads and  *)
(* probes: an instance serves with the policy and the weight its group     *)
(* declares, and is in rotation only if the backend answered a probe of    *)
(* its own (UpstreamRegistry::reconcile, probe_once).                      *)
THEOREM RequestServesAsDeclared == RequestSpec => []ServesAsDeclared
  BY RequestInvariant, HealthInvServes, PTL DEF RequestInv
=============================================================================
