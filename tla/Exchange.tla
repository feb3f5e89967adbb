------------------------------ MODULE Exchange ------------------------------
(***************************************************************************)
(* One HTTP exchange through the fast path: what a request and its         *)
(* response turn into between the client, the filters of the route and the *)
(* upstream (crates/server/src/proxy.rs, respond.rs, body.rs, headers.rs,  *)
(* compression.rs, crates/control/src/chain.rs and crates/host/src/        *)
(* filter.rs).  Resources, retries and limits are in Transaction and       *)
(* Forward; this module is about content: headers, framing, bodies, and    *)
(* which filter saw what in which order.                                   *)
(*                                                                         *)
(* A scenario is a request, the route it matches, the responses the        *)
(* upstream may give and what the guests may say at each hook.             *)
(***************************************************************************)
EXTENDS Contract

CONSTANTS Scenarios,   \* set of [request, route, upstreams, says]
          Trusted,     \* addresses of the declared front proxies
          MaxBody,     \* MAX_REQUEST_BODY_BUFFER
          AcceptEncodings   \* header lists of clients that ask for codings

-----------------------------------------------------------------------------
(* What the program can be given.  A header list has its list fields       *)
(* parsed; the HTTP library delivers bodies of the length they declare.    *)
IsList(s) == s \in Seq(ToSet(s))

IsHeaders(hs) ==
  /\ IsList(hs)
  /\ \A i \in DOMAIN hs :
       /\ hs[i][1] \in {"upgrade", "accept-encoding", "x-forwarded-for"} => IsList(hs[i][2])
       /\ hs[i][1] = "accept-encoding" => \A j \in DOMAIN hs[i][2] : hs[i][2][j][2] \in Int

LengthIsTrue(hs, bytes) == Values(hs, "content-length") \in {<<>>, <<Len(bytes)>>}

(* The answers that come without their body, whatever length they state:   *)
(* it is the length of a body that was not sent.                           *)
Unsent(status, method) == method = "HEAD" \/ status \in {204, 304}

(* path is the way the request really came, its client first and the peer  *)
(* last; every declared proxy at its end appended where it had it from.    *)
IsPath(path, hs) ==
  LET list == FlattenSeq(Values(hs, "x-forwarded-for"))
      last == Len(path)
  IN /\ IsList(path) /\ last > 0
     /\ path[1] \notin Trusted /\ \A i \in 1..last : path[i] # "malformed"
     /\ \A j \in 1..(last - 1) : (\A i \in (j + 1)..last : path[i] \in Trusted) =>
          last - j <= Len(list) /\ list[Len(list) - (last - j) + 1] = path[j]

(* bodyless: the framing says that there is no body.  A body sent in       *)
(* chunks may turn out empty.                                              *)
IsRequest(r) ==
  /\ r = [version |-> r.version, scheme |-> r.scheme, uri_scheme |-> r.uri_scheme, uri |-> r.uri,
          headers |-> r.headers, body |-> r.body, bodyless |-> r.bodyless, method |-> r.method,
          peer |-> r.peer, path |-> r.path]
  /\ r.uri = <<>> \/ r.uri = <<r.uri[1]>>
  /\ r.scheme \in {"http", "https"} /\ (r.uri = <<>> => r.uri_scheme = "none")
  /\ r.bodyless => r.body = <<>>
  /\ IsHeaders(r.headers) /\ IsList(r.body) /\ LengthIsTrue(r.headers, r.body)
  /\ IsPath(r.path, r.headers) /\ r.peer = r.path[Len(r.path)]

(* What `plecto validate` lets through of a route, its own headers in      *)
(* particular (declared_header_name).                                      *)
IsRoute(rt) ==
  /\ IsList(rt.filters) /\ rt.inspect.max \in Nat
  /\ rt.inspect.over_cap \in {"reject", "passthrough", "process-partial"}
  /\ rt.inspect.uninspectable \in {"reject", "passthrough"}
  /\ rt.compression = <<>> \/ /\ rt.compression = <<rt.compression[1]>>
                              /\ IsList(rt.compression[1].algorithms)
                              /\ ToSet(rt.compression[1].algorithms) \subseteq {"gzip", "br", "zstd"}
  /\ IsHeaders(rt.declared.set)
  /\ \A n \in HopByHop \cup {"content-length"} :
       ~Has(rt.declared.set, n) /\ n \notin rt.declared.remove

IsResponse(r, request) ==
  /\ r = [status |-> r.status, headers |-> r.headers, body |-> r.body, trailers |-> r.trailers]
  /\ IsHeaders(r.headers) /\ IsList(r.body)
  /\ IF Unsent(r.status, request.method) THEN r.body = <<>> ELSE LengthIsTrue(r.headers, r.body)

IsSaid(s) ==
  /\ s = Says(s.kind, s.set, s.remove, s.status, s.body)
  /\ s.kind \in {"continue", "modified", "answer", "fault"} /\ (s.kind = "fault" => s = Fault)
  /\ IsHeaders(s.set) /\ IsList(s.body)

Said(says) == says.on_request \cup says.on_request_body \cup says.on_response \cup says.on_response_body

ASSUME ScenarioAssumption ==
  /\ \A s \in Scenarios :
       /\ IsRequest(s.request) /\ IsRoute(s.route)
       /\ \A r \in s.upstreams : IsResponse(r, s.request)
       /\ \A said \in Said(s.says) : IsSaid(said)
  /\ \A hs \in AcceptEncodings :
       IsHeaders(hs) /\ \A i \in DOMAIN hs : hs[i][1] = "accept-encoding"
  /\ MaxForwarded \in Nat /\ MaxGuestBody \in Nat /\ MaxBody \in Nat

-----------------------------------------------------------------------------
VARIABLES scn,     \* the scenario
          stage,   \* what the transaction does next
          k,       \* the filter whose turn it is
          mode,    \* "inline" on the worker, "job" on the blocking pool
          line,    \* the request after ingress, method and body included
          client,  \* the address the transaction is attributed to
          fwd,     \* the headers of the request as the chain left them
          body,    \* ForwardBody: [kind, bytes]
          sent,    \* <<>> or the request the upstream received
          up,      \* <<>> or the response as the upstream sent it
          resp,    \* the response as the chain left it
          held,    \* the body the hooks work on: [bytes, rest, transformed]
          skip,    \* why a body escaped inspection
          ran,     \* the hooks that ran: <<hook, filter, body shown>>
          out      \* <<>> or what the client receives, and that before coding

vars == <<scn, stage, k, mode, line, client, fwd, body, sent, up, resp, held, skip, ran, out>>

route == scn.route
Filters == route.filters
inspect == route.inspect
N == Len(Filters)
reads(dir) == \E i \in 1..N : dir \in Filters[i].body

-----------------------------------------------------------------------------
(* Answers.                                                                *)

(* Every line of a list of changes in turn replaces its field, or adds to  *)
(* it where the field is one of a line per value.                          *)
PutAll(hs, set, adding) ==
  FoldLeft(LAMBDA acc, h : IF h[1] \in adding THEN Append(acc, h) ELSE Insert(acc, h[1], h[2]),
           hs, set)

(* ResponseHeaders::apply: removals first, then the operator's values.     *)
Declared(r) ==
  [r EXCEPT !.headers = PutAll(Without(@, route.declared.remove), route.declared.set, {})]

Answer(status, headers, bytes, kind) ==
  [status |-> status, headers |-> headers, body |-> bytes, trailers |-> <<>>, kind |-> kind]

(* A fail-closed answer with its fault marker.                             *)
synth(status, fault) ==
  Answer(status, << <<"x-plecto-fault", fault>> >>, <<fault>>, "synthesised")

(* A materialised body: the host frames it, whatever length the guest      *)
(* named.                                                                  *)
http_response(said) ==
  Answer(said.status, copy_headers_synth(said.set), said.body, "synthesised")

(* Headers as the chain left them over the upstream's stream, under the    *)
(* upstream's own length.                                                  *)
KeepsChainLength(r, bytes) ==
  [Answer(r.status, copy_headers(r.headers), bytes, "forwarded")
     EXCEPT !.trailers = up[1].trailers]

stream_response(r, bytes) ==
  LET hs == copy_headers_synth(r.headers)
      length == Values(up[1].headers, "content-length")
  IN [Answer(r.status, IF length = <<>> THEN hs ELSE Insert(hs, "content-length", length[1]),
             bytes, "forwarded")
        EXCEPT !.trailers = up[1].trailers]

stream_response_direct ==
  [Answer(up[1].status, Strip(up[1].headers), up[1].body, "forwarded")
     EXCEPT !.trailers = up[1].trailers]

(* An answer given before a route is chosen.                               *)
Unrouted(r) == stage' = "done" /\ out' = <<r, r>>

(* The single exit of a routed transaction.  Only what came from upstream  *)
(* is a candidate for compression, which negotiates with the client's own  *)
(* headers.                                                                *)
Respond(r) ==
  /\ stage' = "done"
  /\ IF r.kind # "forwarded" THEN out' = <<Declared(r), Declared(r)>>
     ELSE \E codec \in BOOLEAN :
            out' = <<apply_compression(Declared(r), route.compression, line.method,
                                       line.headers, codec), Declared(r)>>

-----------------------------------------------------------------------------
(* set_headers: Set-Cookie lines add up, every other field is replaced.    *)
set_headers(hs, set) == PutAll(hs, set, {"set-cookie"})

apply_edit(hs, said) == set_headers(Without(hs, said.remove), said.set)

-----------------------------------------------------------------------------
(* The headers the chain works on.                                         *)
to_http_request(r) == Strip(r.headers)

(* proxy_core: the client and the one authority are settled before         *)
(* anything reads the request.                                             *)
Arrive ==
  LET r == [scn.request EXCEPT !.headers =
              set_forwarded(@, scn.request.peer, scn.request.scheme, Trusted)]
  IN /\ stage = "arrived"
     /\ client' = AttributedClient(scn.request.headers, scn.request.peer, Trusted)
     /\ IF BadAuthority(r)
        THEN Unrouted(synth(400, "bad-authority")) /\ UNCHANGED <<line, fwd, k>>
        ELSE /\ line' = normalize_ingress_authority(r) /\ stage' = "request"
             /\ fwd' = to_http_request(line') /\ k' = 1 /\ UNCHANGED out
     /\ UNCHANGED <<scn, mode, body, sent, up, resp, held, skip, ran>>

(* A path that cannot be normalised and a request no route matches are     *)
(* answered before a route is chosen, one over its rate after.             *)
Refuse ==
  /\ stage = "request" /\ k = 1 /\ mode = "inline" /\ ran = <<>>
  /\ \/ \E status \in {400, 404} : Unrouted(synth(status, "not-routed"))
     \/ Respond(synth(429, "rate-limited"))
  /\ UNCHANGED <<scn, k, mode, line, client, fwd, body, sent, up, resp, held, skip, ran>>

-----------------------------------------------------------------------------
(* The chain.                                                              *)
ResumeNext(i) == i + 1

(* filter_index of Pending: the filter that did not run runs first.        *)
Resume(i) == i

(* A filter that would block or build an instance: the chain goes on at    *)
(* the same filter, on the blocking pool.                                  *)
WouldBlock ==
  /\ stage \in {"request", "response"} /\ k \in 1..N /\ mode = "inline"
  /\ mode' = "job" /\ k' = Resume(k)
  /\ UNCHANGED <<scn, stage, line, client, fwd, body, sent, up, resp, held, skip, ran, out>>

(* A panic in the chain is an error of the transaction.                    *)
ChainPanics ==
  /\ stage \in {"request", "request_body", "response", "response_body"} /\ k \in 1..N
  /\ Respond(synth(502, "upstream"))
  /\ UNCHANGED <<scn, k, mode, line, client, fwd, body, sent, up, resp, held, skip, ran>>

(* A filter off the inline path runs only in a job.                        *)
MayRun == k \in 1..N /\ (mode = "inline" => Filters[k].inline)

RequestFilter ==
  /\ stage = "request" /\ MayRun
  /\ ran' = Append(ran, <<"on-request", k, <<>>>>)
  /\ \E s \in scn.says.on_request :
       LET d == call_on_request(Filters[k].version, fwd, s) IN
       \/ /\ d.kind = "continue" /\ k' = k + 1 /\ UNCHANGED <<fwd, out, stage>>
       \/ /\ d.kind = "modified" /\ k' = k + 1 /\ fwd' = apply_edit(fwd, d)
          /\ UNCHANGED <<out, stage>>
       \/ /\ d.kind \in {"answer", "fault"} /\ Respond(http_response(d)) /\ UNCHANGED <<k, fwd>>
  /\ UNCHANGED <<scn, mode, line, client, body, sent, up, resp, held, skip>>

(* pick_upstream, before the body is looked at, may find no group with an  *)
(* eligible instance.                                                      *)
NoUpstream ==
  /\ stage = "request" /\ k = N + 1
  /\ Respond(synth(503, "no-healthy-upstream"))
  /\ UNCHANGED <<scn, k, mode, line, client, fwd, body, sent, up, resp, held, skip, ran>>

(* ForwardBody: a body nobody reads is streamed once.                      *)
RequestChainDone ==
  /\ stage = "request" /\ k = N + 1
  /\ body' = [kind |-> IF line.bodyless THEN "bodyless" ELSE "oneshot", bytes |-> line.body]
  /\ stage' = "buffer"
  /\ UNCHANGED <<scn, k, mode, line, client, fwd, sent, up, resp, held, skip, ran, out>>

-----------------------------------------------------------------------------
(* How reading the client's body may end; the wait for the budget it is    *)
(* read under may fail before.                                             *)
buffer_request_body(bytes) ==
  {"broken", "slow", "no-budget"} \cup (IF Len(bytes) > MaxBody THEN {"over-cap"} ELSE {"complete"})

(* request_body_hook.                                                      *)
BufferRequest ==
  /\ stage = "buffer"
  /\ IF ~reads("request") \/ body.kind = "bodyless"
     THEN stage' = "send" /\ UNCHANGED <<k, held, out>>
     ELSE \E o \in buffer_request_body(body.bytes) :
            IF o = "complete"
            THEN /\ stage' = "request_body" /\ k' = 1
                 /\ held' = [held EXCEPT !.bytes = body.bytes] /\ UNCHANGED out
            ELSE /\ Respond(synth(CASE o = "broken" -> 400 [] o = "slow" -> 408
                                    [] o = "over-cap" -> 413 [] OTHER -> 503, o))
                 /\ UNCHANGED <<k, held>>
  /\ UNCHANGED <<scn, mode, line, client, fwd, body, sent, up, resp, skip, ran>>

(* A filter that does not export the hook continues without being called.  *)
RequestBodyFilter ==
  /\ stage = "request_body" /\ k \in 1..N
  /\ IF "request" \notin Filters[k].body
     THEN k' = k + 1 /\ UNCHANGED <<fwd, held, ran, out, stage>>
     ELSE /\ ran' = Append(ran, <<"on-request-body", k, held.bytes>>)
          /\ \E s \in scn.says.on_request_body :
               LET d == call_body_hook(Filters[k].version, s) IN
               /\ CanSay(Filters[k].version, "on-request-body", s)
               /\ \/ /\ d.kind = "continue" /\ k' = k + 1
                     /\ UNCHANGED <<fwd, held, out, stage>>
                  \/ /\ d.kind = "modified" /\ Len(d.body) <= MaxBody /\ k' = k + 1
                     /\ fwd' = apply_edit(fwd, d) /\ held' = [held EXCEPT !.bytes = d.body]
                     /\ UNCHANGED <<out, stage>>
                  \/ /\ d.kind = "modified" /\ Len(d.body) > MaxBody
                     /\ Respond(synth(502, "request-body-guest-oversize"))
                     /\ UNCHANGED <<k, fwd, held>>
                  \/ /\ d.kind \in {"answer", "fault"} /\ Respond(http_response(d))
                     /\ UNCHANGED <<k, fwd, held>>
  /\ UNCHANGED <<scn, mode, line, client, body, sent, up, resp, skip>>

RequestBodyDone ==
  /\ stage = "request_body" /\ k = N + 1
  /\ body' = [kind |-> "replayable", bytes |-> held.bytes] /\ stage' = "send"
  /\ UNCHANGED <<scn, k, mode, line, client, fwd, sent, up, resp, held, skip, ran, out>>
-----------------------------------------------------------------------------
(* The attempt (forward_with_retry).                                       *)
InspectionHostile == {"accept-encoding", "range", "if-range"}

(* upgrade_intent: <<>> or the first offered token the route allows.       *)
upgrade_intent ==
  LET offered == IF upgrade_request_header(line.headers)
                 THEN Values(line.headers, "upgrade")[1] ELSE <<>>
      allowed == Only(offered, route.upgrade)
  IN IF line.bodyless /\ line.version = "1.1" /\ allowed # <<>> THEN <<allowed[1]>> ELSE <<>>

(* The length of the bytes that go out: the client's for an untouched      *)
(* stream, the buffer's for a rewritten one.                               *)
set_framing(hs) ==
  LET bare == Without(hs, {"content-length"})
      length == CASE body.kind = "replayable" -> <<Len(body.bytes)>>
                  [] body.kind = "oneshot" -> Values(line.headers, "content-length")
                  [] OTHER -> <<>>
  IN IF length = <<>> THEN bare ELSE Append(bare, <<"content-length", length[1]>>)

NoAuthority == [host |-> "", text |-> "", port |-> 0, ok |-> FALSE]

(* The forwarded headers, then what the proxy issues itself: Host where    *)
(* none is left, framing, its trace, TE on a TLS leg, the one upgrade      *)
(* token.                                                                  *)
AttemptHeaders ==
  LET base == IF N = 0 THEN Strip(line.headers)
              ELSE copy_headers(IF reads("response") THEN Without(fwd, InspectionHostile) ELSE fwd)
      hosted == IF Has(base, "host") THEN base
                ELSE Append(base, <<"host", (request_authority(line) \o <<NoAuthority>>)[1]>>)
      traced == Insert(set_framing(hosted), "traceparent", "own")
      te == IF route.scheme = "https" /\ te_requests_trailers(line.headers)
            THEN Insert(traced, "te", {"trailers"}) ELSE traced
  IN IF upgrade_intent = <<>> THEN te
     ELSE Insert(Insert(te, "upgrade", upgrade_intent), "connection", {"upgrade"})

(* The breaker may be at its cap, and the group may have lost its last     *)
(* eligible instance since it was picked.                                  *)
Send ==
  /\ stage = "send"
  /\ \/ /\ \E fault \in {"circuit-open", "no-healthy-upstream"} : Respond(synth(503, fault))
        /\ UNCHANGED sent
     \/ /\ sent' = <<[headers |-> AttemptHeaders, body |-> body.bytes]>>
        /\ stage' = "await" /\ UNCHANGED out
  /\ UNCHANGED <<scn, k, mode, line, client, fwd, body, up, resp, held, skip, ran>>

UpstreamFails ==
  /\ stage = "await"
  /\ \E status \in {502, 504} : Respond(synth(status, "upstream"))
  /\ UNCHANGED <<scn, k, mode, line, client, fwd, body, sent, up, resp, held, skip, ran>>

(* upgrade_switch: the token of a 101 must be the one the client was       *)
(* granted.                                                                *)
upstream_switched_to(r) ==
  /\ upgrade_intent # <<>> /\ Has(r.headers, "upgrade")
  /\ upgrade_intent[1] \in ToSet(Values(r.headers, "upgrade")[1])

UpstreamAnswers ==
  /\ stage = "await"
  /\ \E r \in scn.upstreams :
       /\ up' = <<r>>
       /\ IF r.status = 101 /\ ~upstream_switched_to(r)
          THEN Respond(synth(502, "bad-upgrade")) /\ UNCHANGED <<k, mode, resp>>
          ELSE /\ resp' = [status |-> r.status, headers |-> Strip(r.headers)]
               /\ stage' = "response" /\ k' = N /\ mode' = "inline" /\ UNCHANGED out
  /\ UNCHANGED <<scn, line, client, fwd, body, sent, held, skip, ran>>

-----------------------------------------------------------------------------
(* The chain on the way back, in reverse.                                  *)
ResponseFilter ==
  /\ stage = "response" /\ MayRun
  /\ ran' = Append(ran, <<"on-response", k, <<>>>>)
  /\ \E s \in scn.says.on_response :
       LET d == call_on_response(Filters[k].version, resp.headers, s) IN
       /\ CanSay(Filters[k].version, "on-response", s)
       /\ \/ d.kind = "continue" /\ k' = k - 1 /\ UNCHANGED <<resp, out, stage>>
          \/ /\ d.kind = "modified" /\ k' = k - 1
             /\ resp' = [status |-> IF d.status = 0 THEN resp.status ELSE d.status,
                         headers |-> apply_edit(resp.headers, d)]
             /\ UNCHANGED <<out, stage>>
          \/ /\ d.kind \in {"answer", "fault"} /\ Respond(http_response(d))
             /\ UNCHANGED <<k, resp>>
  /\ UNCHANGED <<scn, mode, line, client, fwd, body, sent, up, held, skip>>

(* The bytes behind these headers are a coding of the representation.      *)
is_content_encoded(hs) == (UNION ToSet(Values(hs, "content-encoding"))) \ {"identity"} # {}

classify_response(r) ==
  LET essence == (Values(r.headers, "content-type") \o <<"">>)[1] IN
  CASE essence = "text/event-stream" -> "streaming-content-type"
    [] essence # "text/event-stream" /\ essence \notin inspect.types -> "out-of-scope"
    [] r.status = 206 \/ Has(r.headers, "content-range") -> "partial-content"
    [] is_content_encoded(r.headers) -> "content-encoding"
    [] OTHER -> "inspect"

ClassifiedAfterChain == classify_response(resp)

(* Decided on the response as the upstream sent it.                        *)
Inspectability == classify_response(up[1])

(* The 101 goes back with the granted token, unless a filter demoted it.   *)
Switch ==
  Respond(IF resp.status # 101
          THEN http_response(Says("answer", resp.headers, {}, resp.status, <<>>))
          ELSE Answer(101, Insert(Insert(copy_headers(resp.headers), "upgrade", upgrade_intent),
                                  "connection", {"upgrade"}), <<>>, "switched"))

(* respond_through_chain, after the chain.                                 *)
ResponseChainDone ==
  /\ stage = "response" /\ k = 0
  /\ \/ up[1].status = 101 /\ Switch /\ UNCHANGED skip
     \/ /\ up[1].status # 101 /\ N = 0
        /\ Respond(stream_response_direct) /\ UNCHANGED skip
     \/ /\ up[1].status # 101 /\ N > 0 /\ (~reads("response") \/ Inspectability = "out-of-scope")
        /\ Respond(stream_response(resp, up[1].body)) /\ UNCHANGED skip
     \/ /\ up[1].status # 101 /\ reads("response")
        /\ Inspectability \notin {"inspect", "out-of-scope"}
        /\ skip' = Inspectability
        /\ Respond(IF inspect.uninspectable = "passthrough"
                   THEN stream_response(resp, up[1].body)
                   ELSE synth(502, "response-body-uninspectable"))
     \/ /\ up[1].status # 101 /\ reads("response") /\ Inspectability = "inspect"
        /\ stage' = "inspect" /\ UNCHANGED <<skip, out>>
  /\ UNCHANGED <<scn, k, mode, line, client, fwd, body, sent, up, resp, held, ran>>

-----------------------------------------------------------------------------
(* buffer_response_body keeps data and no trailers; over the cap it stops  *)
(* with the head and the unread rest.                                      *)
buffer_response_body(bytes) ==
  {"broken", "slow", "no-budget"} \cup (IF Len(bytes) > inspect.max THEN {"over-cap"} ELSE {"complete"})

(* PrefixedBody: the head that was read, then the rest of the stream.      *)
prefixed(head, rest) == head \o rest

(* inspect_response_body, up to the hooks.                                 *)
BufferResponse ==
  LET whole == up[1].body
      head == SubSeq(whole, 1, inspect.max)
      rest == SubSeq(whole, inspect.max + 1, Len(whole))
      Hooks(bytes, left) ==
        /\ held' = [bytes |-> bytes, rest |-> left, transformed |-> FALSE]
        /\ stage' = "response_body" /\ k' = N /\ UNCHANGED out
  IN /\ stage = "inspect"
     /\ \E o \in buffer_response_body(whole) :
          /\ skip' = IF o = "over-cap" THEN o ELSE skip
          /\ CASE o = "complete" -> Hooks(whole, <<>>)
               [] o = "over-cap" /\ inspect.over_cap = "process-partial" -> Hooks(head, rest)
               [] o = "over-cap" /\ inspect.over_cap = "passthrough" ->
                    Respond(stream_response(resp, prefixed(head, rest))) /\ UNCHANGED <<k, held>>
               [] OTHER ->
                    /\ Respond(synth(CASE o = "no-budget" -> 503 [] o = "slow" -> 504 [] OTHER -> 502,
                                     o))
                    /\ UNCHANGED <<k, held>>
     /\ UNCHANGED <<scn, mode, line, client, fwd, body, sent, up, resp, ran>>

ResponseBodyFilter ==
  /\ stage = "response_body" /\ k \in 1..N
  /\ IF "response" \notin Filters[k].body
     THEN k' = k - 1 /\ UNCHANGED <<resp, held, ran, out, stage>>
     ELSE /\ ran' = Append(ran, <<"on-response-body", k, held.bytes>>)
          /\ \E s \in scn.says.on_response_body :
               LET d == call_response_body_hook(s)
                   fits == Len(d.body) <= inspect.max IN
               /\ CanSay(Filters[k].version, "on-response-body", s)
               /\ \/ d.kind = "continue" /\ k' = k - 1 /\ UNCHANGED <<resp, held, out, stage>>
                  \/ /\ d.kind = "modified" /\ fits /\ k' = k - 1
                     /\ resp' = [resp EXCEPT !.headers = apply_edit(@, d)]
                     /\ held' = [held EXCEPT !.bytes = d.body, !.transformed = TRUE]
                     /\ UNCHANGED <<out, stage>>
                  \/ /\ d.kind \in {"modified", "answer"} /\ ~fits
                     /\ Respond(synth(502, "response-body-guest-oversize"))
                     /\ UNCHANGED <<k, resp, held>>
                  \/ /\ d.kind = "fault" \/ (d.kind = "answer" /\ fits)
                     /\ Respond(http_response(d)) /\ UNCHANGED <<k, resp, held>>
  /\ UNCHANGED <<scn, mode, line, client, fwd, body, sent, up, skip>>

(* A body inspected whole goes out as the hooks left it, framed by the     *)
(* host; behind an inspected head the rest follows, unless a hook rewrote  *)
(* the head.                                                               *)
Inspected(r) ==
  IF skip # "over-cap"
  THEN [http_response(Says("answer", r.headers, {}, r.status, held.bytes)) EXCEPT !.kind = "forwarded"]
  ELSE IF held.transformed THEN synth(502, "response-body-partial-modified")
  ELSE stream_response(r, prefixed(held.bytes, held.rest))

ResponseBodyDone ==
  /\ stage = "response_body" /\ k = 0
  /\ Respond(Inspected(resp))
  /\ UNCHANGED <<scn, k, mode, line, client, fwd, body, sent, up, resp, held, skip, ran>>

-----------------------------------------------------------------------------
Init ==
  /\ scn \in Scenarios
  /\ stage = "arrived" /\ k = 0 /\ mode = "inline"
  /\ line = scn.request /\ client = scn.request.peer /\ fwd = <<>>
  /\ body = [kind |-> "bodyless", bytes |-> <<>>]
  /\ sent = <<>> /\ up = <<>> /\ resp = [status |-> 0, headers |-> <<>>]
  /\ held = [bytes |-> <<>>, rest |-> <<>>, transformed |-> FALSE]
  /\ skip = "none" /\ ran = <<>> /\ out = <<>>

(* The exchange is over.                                                   *)
Over == stage = "done" /\ UNCHANGED vars

Next ==
  \/ Arrive \/ Refuse \/ WouldBlock \/ ChainPanics
  \/ RequestFilter \/ NoUpstream \/ RequestChainDone
  \/ BufferRequest \/ RequestBodyFilter \/ RequestBodyDone
  \/ Send \/ UpstreamFails \/ UpstreamAnswers
  \/ ResponseFilter \/ ResponseChainDone \/ BufferResponse \/ ResponseBodyFilter
  \/ ResponseBodyDone \/ Over

Spec == Init /\ [][Next]_vars
-----------------------------------------------------------------------------
(* Properties.                                                             *)

(* The filters whose hook ran, in that order.                              *)
HooksRun(hook) == Values(ran, hook)

(* Wherever the chain hands over from the worker to the blocking pool, no  *)
(* filter runs twice and none is passed over: a request reaches the        *)
(* upstream only after every filter in order, and the upstream's response  *)
(* reaches the client only after every filter in reverse                   *)
(* (chain.rs: filter_index of Pending, dispatch_*_from).                   *)
ChainInOrder ==
  LET there == HooksRun("on-request")
      back == HooksRun("on-response")
  IN /\ \A i \in DOMAIN there : there[i] = i
     /\ \A i \in DOMAIN back : back[i] = N + 1 - i
     /\ sent # <<>> => Len(there) = N
     /\ out # <<>> => (out[1].kind \in {"forwarded", "switched"} => Len(back) = N)

Codings(bytes) ==
  {bytes} \cup {<<c>> \o bytes \o <<"end">> : c \in {"gzip", "br", "zstd"}}

(* A response of a type the operator asked to inspect reaches the client   *)
(* only if every reading filter was called, the first was shown the        *)
(* upstream's bytes (of a body over the cap, each its beginning), and what *)
(* the client receives is what the last one left; whatever else passes is  *)
(* let past by the route's own modes and recorded, whatever a filter did   *)
(* to the headers in between (classify_response, inspect_response_body).   *)
InspectionComplete ==
  LET readers == Only([i \in 1..N |-> N + 1 - i], {i \in 1..N : "response" \in Filters[i].body})
      shown == FieldLines(ran, "on-response-body")
      type == Values(up[1].headers, "content-type")
      asked == /\ readers # <<>> /\ up[1].status # 101 /\ type # <<>>
               /\ type[1] \in inspect.types \cup {"text/event-stream"}
  IN (stage = "done" /\ out[1].kind = "forwarded" /\ asked) =>
       CASE skip = "none" ->
              /\ HooksRun("on-response-body") = readers
              /\ shown[1][3] = up[1].body
              /\ \A c \in ToSet(Values(up[1].headers, "content-encoding")) : c \subseteq {"identity"}
              /\ up[1].status # 206
              /\ out[1].body \in Codings(held.bytes)
         [] skip = "over-cap" ->
              /\ inspect.over_cap # "reject" /\ Len(up[1].body) > inspect.max
              /\ inspect.over_cap = "process-partial" =>
                   /\ HooksRun("on-response-body") = readers
                   /\ \A i \in DOMAIN shown : IsPrefix(shown[i][3], up[1].body)
              /\ out[1].body \in Codings(up[1].body)
         [] OTHER -> inspect.uninspectable = "passthrough"

(* A length that travels is the length of the bytes that travel with it,   *)
(* whatever a guest set or rewrote and whether or not the response was     *)
(* coded (set_framing, stream_response, http_response, mark_compressed),   *)
(* or it is the upstream's own word on a body that was not sent: one that  *)
(* answers HEAD, or a 204 or 304 on whose status a filter may have put     *)
(* another since.  A 101 has no body to frame.                             *)
FramingTrue ==
  /\ \A i \in DOMAIN sent : LengthIsTrue(sent[i].headers, sent[i].body)
  /\ out # <<>> /\ out[1].kind # "switched" =>
       \/ LengthIsTrue(out[1].headers, out[1].body)
       \/ /\ out[1].kind = "forwarded" /\ Unsent(up[1].status, line.method)
          /\ ToSet(Values(out[1].headers, "content-length"))
               \subseteq ToSet(Values(up[1].headers, "content-length"))

Strong(r) == Only(Values(r.headers, "etag"), {e \in ToSet(Values(r.headers, "etag")) : ~e.weak})

Varies(r) == (UNION ToSet(Values(r.headers, "vary"))) \cap {"*", "accept-encoding"} # {}

(* Of one response before coding, no two clients get different bytes that  *)
(* a cache could take for one another: both carry Vary, they share no      *)
(* strong validator (short of a second ETag line behind a weak first), and *)
(* a client gets a coding only if it gave it a weight above zero           *)
(* (compress_response).                                                    *)
CacheSafe == (stage = "done" /\ out[1].kind = "forwarded") =>
  LET plain == out[2]
      tags == Values(plain.headers, "etag")
      hidden == Len(tags) > 1 /\ tags[1].weak
      of(ae, codec) == apply_compression(plain, route.compression, line.method, ae, codec) IN
  \A one, other \in AcceptEncodings : \A c1, c2 \in BOOLEAN :
    LET a == of(one, c1)
        b == of(other, c2)
        coded == Values(a.headers, "content-encoding")
    IN /\ a.body # b.body =>
            /\ Varies(a) /\ Varies(b)
            /\ hidden \/ Strong(a) = <<>> \/ Strong(a) # Strong(b)
       /\ a.body # plain.body =>
            \E i \in DOMAIN one : \E j \in DOMAIN one[i][2] :
              one[i][2][j][1] \in {"*"} \cup UNION {coding_algo(c) : c \in coded[1]} /\ one[i][2][j][2] > 0

(* Unless a filter rewrote Host, the upstream's Host is the authority the  *)
(* route and the filters saw, letter for letter, and every authority the   *)
(* client named denotes it under the scheme the client named               *)
(* (normalize_ingress_authority).                                          *)
OneAuthority ==
  (sent # <<>> /\ ~\E s \in scn.says.on_request \cup scn.says.on_request_body : Has(s.set, "host")) =>
    /\ Values(sent[1].headers, "host")
         = (IF request_authority(line) = <<>> THEN <<NoAuthority>> ELSE request_authority(line))
    /\ Has(fwd, "host") => Values(fwd, "host") = request_authority(line)
    /\ \A i \in DOMAIN Authorities(scn.request) :
         authorities_match(Authorities(scn.request)[i], Values(sent[1].headers, "host")[1],
                           SchemeOf(scn.request))

(* A request is attributed to the last hop no declared proxy vouches for,  *)
(* or to the peer beyond the bound of the scan, never to an address the    *)
(* client only claimed, and upstream and filters are told the same address *)
(* unless a filter names another (set_forwarded).                          *)
ClientIsTheHop ==
  LET path == scn.request.path
      edited == \E s \in Said(scn.says) : Has(s.set, "x-forwarded-for")
      foreign == {i \in DOMAIN path : path[i] \notin Trusted}
      told == Values(IF sent = <<>> THEN fwd ELSE sent[1].headers, "x-forwarded-for")
  IN stage \notin {"arrived"} =>
       /\ client \in {path[Len(path)]} \cup (IF foreign = {} THEN {} ELSE {path[Max(foreign)]})
       /\ foreign # {} /\ Len(path) - Max(foreign) <= MaxForwarded =>
            client = path[Max(foreign)]
       /\ ~edited => told \in {<<>>, <<<<client>>>>}

(* No header of one connection crosses to another: neither the fixed ones  *)
(* nor those its Connection names, nor any a guest sets; only TE: trailers *)
(* on a TLS leg and the one granted upgrade token are issued anew, and a   *)
(* connection is switched only with a token the client asked for and the   *)
(* route allows (Strip, copy_headers, upgrade_switch).                     *)
HopByHopEnds ==
  LET issued == {"host", "content-length", "traceparent", "vary", "content-encoding",
                 "x-plecto-fault"}
                \cup (UNION {Names(s.set) : s \in Said(scn.says)}) \cup Names(route.declared.set)
      Crossing(hs, from) == Names(hs) \cap (HopByHop \cup (connection_named(from) \ issued))
      asked == IF Has(scn.request.headers, "upgrade")
               THEN ToSet(Values(scn.request.headers, "upgrade")[1]) \cap route.upgrade ELSE {}
      Granted(hs) == Has(hs, "upgrade") =>
        ToSet(Values(hs, "upgrade")[1]) \subseteq asked /\ Has(hs, "connection")
  IN /\ \A i \in DOMAIN sent :
          /\ Crossing(sent[i].headers, scn.request.headers) \subseteq {"te", "upgrade", "connection"}
          /\ Has(sent[i].headers, "te") =>
               route.scheme = "https" /\ te_requests_trailers(scn.request.headers)
          /\ Granted(sent[i].headers)
     /\ out # <<>> =>
          /\ up # <<>> => Crossing(out[1].headers, up[1].headers) \subseteq
                           (IF out[1].kind = "switched" THEN {"upgrade", "connection"} ELSE {})
          /\ out[1].kind = "switched" => Has(out[1].headers, "upgrade") /\ Granted(out[1].headers)

(* body.rs says of trailers that "they pass through untouched" when a body *)
(* is buffered for inspection: a forwarded response keeps the upstream's.  *)
TrailersPassThrough ==
  (stage = "done" /\ out[1].kind = "forwarded" /\ up # <<>>) => out[1].trailers = up[1].trailers

(* Every filter runs in its turn and sees the bytes that go on.            *)
ChainSound == ChainInOrder /\ InspectionComplete

(* A message says of its own bytes what is true of them.                   *)
MessageSound == FramingTrue /\ CacheSafe

(* Each hop learns who asks, for whom, and nothing of the hop before.      *)
HeadersSound == OneAuthority /\ ClientIsTheHop /\ HopByHopEnds
=============================================================================
