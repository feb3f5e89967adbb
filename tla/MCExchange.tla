----------------------------- MODULE MCExchange -----------------------------
(***************************************************************************)
(* Scenarios for Exchange, one family per question: what ingress makes of  *)
(* authorities, forwarded lists and connection headers; the chain and its  *)
(* edits; response inspection; coding.                                     *)
(***************************************************************************)
EXTENDS Exchange

CONSTANTS Families   \* which of the families below a run explores

-----------------------------------------------------------------------------
Authority(host, text, port, ok) == [host |-> host, text |-> text, port |-> port, ok |-> ok]
a == Authority("a", "a", 0, TRUE)
aDot == Authority("a", "A.", 0, TRUE)
aPort == Authority("a", "a:443", 443, TRUE)
a80 == Authority("a", "a:80", 80, TRUE)
b == Authority("b", "b", 0, TRUE)
bad == Authority("a", "a:x", 0, FALSE)

Request(version, uri, headers, bytes) ==
  [version |-> version, scheme |-> "https", uri_scheme |-> IF uri = <<>> THEN "none" ELSE "https",
   uri |-> uri, headers |-> headers, body |-> bytes, bodyless |-> bytes = <<>>,
   method |-> "POST", peer |-> "c", path |-> <<"c">>]

Plain == Request("1.1", <<>>, << <<"host", a>> >>, <<>>)

Post(bytes, more) ==
  Request("1.1", <<>>, << <<"host", a>>, <<"content-length", Len(bytes)>> >> \o more, bytes)

(* Sent in chunks, of which there may turn out to be none.                 *)
Chunked(bytes, more) ==
  [Request("1.1", <<>>, << <<"host", a>>, <<"transfer-encoding", "chunked">> >> \o more, bytes)
     EXCEPT !.bodyless = FALSE]

Filter(version, bodies, inline) == [version |-> version, body |-> bodies, inline |-> inline]

Inspect(max, over, un) == [max |-> max, over_cap |-> over, uninspectable |-> un, types |-> {"text/html"}]

Route(filters) ==
  [filters |-> filters, inspect |-> Inspect(2, "reject", "reject"), compression |-> <<>>,
   declared |-> [remove |-> {}, set |-> <<>>], upgrade |-> {}, scheme |-> "http"]

Response(status, headers, bytes, trailers) ==
  [status |-> status, headers |-> headers, body |-> bytes, trailers |-> trailers]

Ok == Response(200, << <<"content-type", "text/html">>, <<"content-length", 1>> >>, <<"u">>, <<>>)

Silent == [on_request |-> {Continue}, on_request_body |-> {Continue},
           on_response |-> {Continue}, on_response_body |-> {Continue}]

Scenario(request, rt, upstreams, says) ==
  [request |-> request, route |-> rt, upstreams |-> upstreams, says |-> says]

-----------------------------------------------------------------------------
(* Ingress: authorities in every place a version can name one, the URI's   *)
(* under its own scheme or none.                                           *)
AuthorityFamily ==
  {Scenario([Request(v, u[2], h, <<>>) EXCEPT !.uri_scheme = u[1]], Route(f), {Ok}, Silent) :
     v \in {"1.0", "1.1", "2", "3"},
     u \in {<<"none", <<>>>>, <<"none", <<a>>>>, <<"https", <<a>>>>, <<"http", <<aDot>>>>,
            <<"https", <<bad>>>>},
     h \in {<<>>, << <<"host", bad>> >>, << <<"host", a>>, <<"host", a>> >>}
           \cup {<< <<"connection", c>>, <<"host", n>> >> : c \in {{}, {"host"}}, n \in {a, aDot, aPort, a80, b}},
     f \in {<<>>, <<Filter("V04", {}, TRUE)>>}}

(* Forwarded lists: what the client claimed, then what each hop appended,  *)
(* on one line or on two.                                                  *)
ForwardedFamily ==
  LET paths == {<<"c">>, <<"c", "p1">>, <<"c", "p1", "p2">>, <<"c", "u", "p1">>,
                <<"c", "p1", "p2", "p1">>}
      claims == {<<>>, <<"claim">>, <<"claim", "p1">>, <<"malformed">>}
      Lines(list, cut) == << <<"x-forwarded-for", SubSeq(list, 1, cut)>>,
                             <<"x-forwarded-for", SubSeq(list, cut + 1, Len(list))>> >>
  IN {Scenario([Request("1.1", <<>>, << <<"host", a>>, <<"connection", n>>,
                                       <<"x-real-ip", "claim">> >>
                          \o Lines(c \o Front(p), Len(c)), <<>>)
                  EXCEPT !.peer = Last(p), !.path = p], Route(f), {Ok}, Silent) :
        c \in claims, p \in paths, n \in {{}, {"x-forwarded-for"}},
        f \in {<<>>, <<Filter("V04", {}, TRUE)>>}}

(* Connection options, TE and upgrades against every kind of answer.       *)
ConnectionFamily ==
  {Scenario([Request(v, <<>>, << <<"host", a>>, <<"connection", n>>, <<"x-named", "one">>,
                                 <<"upgrade", <<"h2c", "websocket">>>>, <<"te", t>> >>, bytes)
               EXCEPT !.method = "GET"],
            [Route(f) EXCEPT !.upgrade = g, !.scheme = s],
            {[Ok EXCEPT !.headers = @ \o << <<"connection", {"x-up"}>>, <<"x-up", "one">> >>],
             Response(101, << <<"connection", {"upgrade", "x-up"}>>, <<"x-up", "one">>,
                              <<"upgrade", <<"websocket">>>> >>, <<>>, <<>>),
             Response(101, << <<"upgrade", <<"h2c">>>> >>, <<>>, <<>>)},
            [Silent EXCEPT !.on_response =
               {Continue, Says("modified", << <<"connection", {"x-f"}>> >>, {}, 403, <<>>),
                Says("modified", << <<"content-length", 9>>, <<"x-up", "two">> >>, {}, 101, <<>>)}]) :
     v \in {"1.1", "2"}, n \in {{"close"}, {"upgrade", "x-named", "te"}},
     t \in {{}, {"trailers"}, {"gzip"}}, bytes \in {<<>>, <<"r">>},
     f \in {<<>>, <<Filter("V04", {}, TRUE)>>}, g \in {{}, {"websocket"}}, s \in {"http", "https"}}

-----------------------------------------------------------------------------
(* The chain: two or three filters of several versions, on or off the      *)
(* inline path, and everything a guest may say of headers and bodies.      *)
Edit(set, remove, status, bytes) == Says("modified", set, remove, status, bytes)
Sayings(statuses) ==
  {Continue, Fault, Edit(<< <<"content-length", 9>>, <<"te", {"trailers"}>> >>, {"x-bin"}, 0, <<>>),
   Edit(<< <<"set-cookie", "one">>, <<"set-cookie", "two">>, <<"x-bin", "shown">> >>, {}, 0, <<>>),
   Edit(<< <<"x-bin", "bad">> >>, {}, 0, <<>>)}
  \cup {Says("answer", << <<"content-length", 9>>, <<"x-f", "one">> >>, {}, st, <<"g">>) : st \in statuses}

ChainFamily ==
  {Scenario(r,
            [Route(<<Filter(v[1], {"request"}, i[1]), Filter(v[2], q, i[2])>> \o third)
               EXCEPT !.declared = [remove |-> {"x-up"}, set |-> << <<"x-f", "operator">> >>]],
            {[Ok EXCEPT !.headers = @ \o << <<"x-up", "one">>, <<"x-bin", "bytes">> >>]},
            [on_request |-> Sayings({101, 900}), on_response |-> Sayings({503}),
             on_request_body |->
               {Continue, Fault, Says("continue", <<>>, {}, 0, <<"g">>),
                Edit(<< <<"content-length", 9>> >>, {}, 0, <<"g", "g">>),
                Edit(<<>>, {}, 0, <<"g", "g", "g", "g">>),
                Says("answer", <<>>, {}, 403, <<"g">>)},
             on_response_body |-> {Continue}]) :
     r \in {Chunked(<<>>, << <<"x-bin", "bytes">> >>)}
           \cup {Post(bytes, << <<"x-bin", "bytes">> >>) :
                   bytes \in {<<>>, <<"r", "r", "r">>, <<"r", "r", "r", "r">>}},
     v \in {<<"V01", "V04">>, <<"V04", "V02">>, <<"V03", "V04">>}, q \in {{}, {"request"}},
     i \in {<<TRUE, TRUE>>, <<TRUE, FALSE>>}, third \in {<<>>, <<Filter("V04", {}, TRUE)>>}}

-----------------------------------------------------------------------------
(* Inspection: every class of response under every mode, with a filter     *)
(* that rewrites the headers a careless classifier would look at.          *)
InspectionFamily ==
  LET Body(n) == SubSeq(<<"u", "v", "w">>, 1, n)
      Typed(t, more, st, n, tr) ==
        Response(st, << <<"content-type", t>>, <<"content-length", n>> >> \o more, Body(n), tr)
  IN {Scenario([Plain EXCEPT !.headers = @ \o << <<"accept-encoding", << <<"gzip", 1000>> >>>>,
                                                  <<"range", "one">> >>],
               [Route(f) EXCEPT !.inspect = Inspect(2, o, u),
                                !.compression = IF o = "reject" THEN <<>> ELSE
                                  <<[algorithms |-> <<"gzip">>, min |-> 0, types |-> {"text/html"}]>>],
               {Typed("text/html", <<>>, 200, n, tr) : n \in 0..3, tr \in {<<>>, <<"t">>}}
               \cup {Typed("text/html", << <<"content-encoding", {"gzip"}>> >>, 200, 1, <<>>),
                     Typed("text/html", << <<"content-encoding", {"identity"}>> >>, 200, 1, <<>>),
                     Typed("text/html", <<>>, 206, 1, <<>>),
                     Typed("text/html", << <<"content-range", "one">> >>, 200, 1, <<>>),
                     Typed("text/event-stream", <<>>, 200, 1, <<>>),
                     Typed("image/png", <<>>, 200, 1, <<>>),
                     Response(200, <<>>, <<"u">>, <<>>)}
               \cup {Response(st, << <<"content-type", t>>, <<"content-length", 2>> >>, <<>>, <<>>) :
                       st \in {204, 304}, t \in {"text/html", "image/png"}},
               [Silent EXCEPT
                  !.on_response = {Continue, Edit(<< <<"content-type", "image/png">> >>, {}, 0, <<>>),
                                   Edit(<< <<"content-length", 9>> >>, {}, 201, <<>>)},
                  !.on_response_body =
                    {Continue, Fault, Edit(<< <<"x-f", "one">> >>, {}, 0, <<"g">>),
                     Edit(<<>>, {}, 0, <<"g", "g", "g">>),
                     Edit(<< <<"content-length", 9>> >>, {}, 0, <<"g">>),
                     Says("answer", <<>>, {}, 403, <<"g">>)}]) :
        o \in {"reject", "passthrough", "process-partial"}, u \in {"reject", "passthrough"},
        f \in {<<Filter("V04", {"response"}, TRUE)>>,
               <<Filter("V04", {"response"}, TRUE), Filter("V04", {}, TRUE)>>,
               <<Filter("V04", {"response"}, TRUE), Filter("V04", {"response"}, FALSE)>>}}

-----------------------------------------------------------------------------
(* Coding: client weights against the route's preferences and the          *)
(* response's own headers, ETag lines above all.                           *)
Weights ==
  {<<>>} \cup {<< <<"accept-encoding", m>> >> :
     m \in {<<>>, << <<"gzip", 1000>> >>, << <<"x-gzip", 500>>, <<"br", 500>> >>,
            << <<"gzip", 1000>>, <<"gzip", 0>> >>, << <<"*", 300>>, <<"br", 0>> >>,
            << <<"br", 200>>, <<"identity", 900>> >>, << <<"br", -1>>, <<"*", 0>> >>,
            << <<"gzip", 400>>, <<"identity", 400>> >>}}

CodingFamily ==
  {Scenario([Plain EXCEPT !.headers = @ \o ae, !.method = mt],
            [Route(<<>>) EXCEPT !.compression =
               <<[algorithms |-> al, min |-> 2, types |-> {"text/html"}]>>],
            {Response(st, << <<"content-type", ty>> >>
                            \o [i \in DOMAIN w |-> <<"etag", [tag |-> i, weak |-> w[i]]>>] \o cl \o x,
                      IF st = 304 \/ mt = "HEAD" THEN <<>> ELSE <<"u", "v">>, <<"t">>) :
               st \in {200, 206, 304}, ty \in {"text/html", "image/png"},
               w \in {<<TRUE>>, <<FALSE>>, <<FALSE, FALSE>>, <<TRUE, FALSE>>},
               cl \in {<<>>, << <<"content-length", 2>>, <<"accept-ranges", "bytes">> >>},
               x \in {<<>>, << <<"vary", {"cookie"}>> >>, << <<"vary", {"*"}>> >>,
                      << <<"cache-control", {"no-transform"}>> >>,
                      << <<"content-encoding", {"br"}>> >>}},
            Silent) :
     ae \in Weights, al \in {<<"gzip">>, <<"br", "gzip">>, <<"zstd", "gzip">>},
     mt \in {"GET", "HEAD"}}

-----------------------------------------------------------------------------
MCScenarios ==
  UNION {CASE f = "authority" -> AuthorityFamily [] f = "forwarded" -> ForwardedFamily
           [] f = "connection" -> ConnectionFamily [] f = "chain" -> ChainFamily
           [] f = "inspection" -> InspectionFamily [] f = "coding" -> CodingFamily : f \in Families}

MCAcceptEncodings == Weights
=============================================================================
