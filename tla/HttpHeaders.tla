---------------------------- MODULE HttpHeaders -----------------------------
(***************************************************************************)
(* Header handling of the fast path (crates/server/src/headers.rs): the    *)
(* hop-by-hop strip of both legs, the client a transaction is attributed   *)
(* to, and the one authority an inbound request is left with; and response *)
(* compression (compression.rs): which coding an Accept-Encoding and a     *)
(* route settle on, which responses may be coded, and what coding does to  *)
(* the headers that describe the bytes.                                    *)
(*                                                                         *)
(* A header is <<name, value>>, a header map or list a sequence of them.   *)
(* Names are lower-case.  A list-valued field has the sequence or set of   *)
(* its members as its value: Accept-Encoding's is the sequence of its      *)
(* <<token, weight>> members, weight -1 for a member that does not parse;  *)
(* Vary's, Cache-Control's and Content-Encoding's is a set; an ETag is     *)
(* [tag, weak].  A response is [status, headers, body, trailers].          *)
(***************************************************************************)
EXTENDS Integers, Sequences, SequencesExt, FiniteSetsExt

CONSTANT MaxForwarded   \* MAX_FORWARDED_ELEMENTS

HopByHop == {"connection", "keep-alive", "proxy-connection", "transfer-encoding", "te",
             "trailer", "upgrade", "proxy-authorization", "proxy-authenticate"}

ForwardedHeaders == {"forwarded", "x-forwarded-for", "x-forwarded-proto",
                     "x-forwarded-host", "x-real-ip", "true-client-ip", "cf-connecting-ip",
                     "fastly-client-ip", "x-client-ip", "x-cluster-client-ip"}

-----------------------------------------------------------------------------
(* The elements of a sequence that are in S, in order: SelectSeq, whose    *)
(* test is an operator, over a set instead.                                *)
Only(s, S) ==
  LET kept[i \in 0..Len(s)] ==
        IF i = 0 THEN <<>> ELSE IF s[i] \in S THEN Append(kept[i - 1], s[i]) ELSE kept[i - 1]
  IN kept[Len(s)]

Has(hs, n) == \E i \in DOMAIN hs : hs[i][1] = n

Names(hs) == {hs[i][1] : i \in DOMAIN hs}

(* The lines of a field, in order, and the value of each.                  *)
FieldLines(hs, n) == Only(hs, {h \in ToSet(hs) : h[1] = n})

Values(hs, n) == [i \in DOMAIN FieldLines(hs, n) |-> FieldLines(hs, n)[i][2]]

Without(hs, names) == Only(hs, {h \in ToSet(hs) : h[1] \notin names})

(* HeaderMap::insert.                                                      *)
Insert(hs, n, v) == Append(Without(hs, {n}), <<n, v>>)

(* The names Connection makes hop-by-hop on this message.                  *)
connection_named(hs) == (UNION ToSet(Values(hs, "connection"))) \ {"close", "keep-alive"}

(* A protocol switch needs the option in Connection and the header itself. *)
upgrade_request_header(hs) == "upgrade" \in connection_named(hs) /\ Has(hs, "upgrade")

te_requests_trailers(hs) == "trailers" \in UNION ToSet(Values(hs, "te"))

StripStatic(hs) == Without(hs, HopByHop)

(* headers_to_vec, and copy_headers_direct on a filterless route.          *)
Strip(hs) == Without(hs, HopByHop \cup connection_named(hs))

(* copy_headers: what a chain produced names no Connection options.        *)
copy_headers(hs) == Without(hs, HopByHop)

copy_headers_synth(hs) == Without(hs, HopByHop \cup {"content-length"})

-----------------------------------------------------------------------------
(* X-Forwarded-For is one list over all its lines, the newest hop last.    *)
(* The scan from the right stops at the first element no declared proxy    *)
(* vouched for, at an element that is no address, or at its bound.         *)
ForwardedFirst(hs, trusted) ==
  LET list == FlattenSeq(Values(hs, "x-forwarded-for"))
      stops == {i \in DOMAIN list : list[i] \notin trusted}
  IN IF stops = {} THEN <<>> ELSE <<list[Min(stops)]>>

forwarded_client(hs, trusted) ==
  LET list == FlattenSeq(Values(hs, "x-forwarded-for"))
      stops == {i \in DOMAIN list : list[i] \notin trusted}
      last == Max(stops)
  IN IF stops = {} \/ Len(list) - last >= MaxForwarded \/ list[last] = "malformed"
     THEN <<>>
     ELSE <<list[last]>>

AttributedClient(hs, peer, trusted) ==
  LET named == forwarded_client(hs, trusted)
  IN IF peer \in trusted /\ named # <<>> THEN named[1] ELSE peer

(* The client's own claims go, the attributed client and the scheme of the *)
(* wire come.                                                              *)
set_forwarded(hs, peer, scheme, trusted) ==
  LET client == AttributedClient(hs, peer, trusted)
  IN Without(hs, ForwardedHeaders)
       \o << <<"x-forwarded-for", <<client>>>>, <<"x-real-ip", client>>,
             <<"x-forwarded-proto", scheme>> >>

-----------------------------------------------------------------------------
(* An authority is [host, text, port, ok]: the name it denotes, how it is  *)
(* spelled (case, trailing dot), its port or 0, and whether it parses.     *)
DefaultPort(scheme) == IF scheme = "https" THEN 443 ELSE 80

authorities_match(l, r, scheme) ==
  /\ l.host = r.host
  /\ \/ l.port = r.port
     \/ {l.port, r.port} = {0, DefaultPort(scheme)}

(* A request line: version, the scheme of the wire, the scheme of its URI  *)
(* ("none" in origin form) and its authority (<<>> there), and headers.    *)
Authorities(r) == r.uri \o Values(r.headers, "host")

(* What the client's authorities are compared under: the URI's own scheme, *)
(* the wire's where the URI names none.                                    *)
SchemeOf(r) == IF r.uri_scheme = "none" THEN r.scheme ELSE r.uri_scheme

BadAuthority(r) ==
  LET hosts == Values(r.headers, "host") IN
  \/ \E i \in DOMAIN Authorities(r) : ~Authorities(r)[i].ok
  \/ Len(hosts) > 1
  \/ r.uri # <<>> /\ hosts # <<>> /\ ~authorities_match(r.uri[1], hosts[1], SchemeOf(r))
  \/ r.version = "1.1" /\ hosts = <<>>
  \/ r.version \in {"2", "3"} /\ Authorities(r) = <<>>

(* transport_host_fallback: on HTTP/2 and HTTP/3 only Host named one.      *)
HostFallback(r) == r.version \in {"2", "3"} /\ r.uri = <<>>

NormalizeKeepsHost(r) ==
  [r EXCEPT !.uri = IF HostFallback(r) THEN Values(r.headers, "host") ELSE @,
            !.uri_scheme = IF HostFallback(r) THEN r.scheme ELSE @]

(* The URI's authority wins, Host is rewritten to it, and where only Host  *)
(* named one the URI receives it, under the scheme of the wire.            *)
normalize_ingress_authority(r) ==
  IF Authorities(r) = <<>>
  THEN [r EXCEPT !.headers = Without(@, {"host"})]
  ELSE [r EXCEPT !.headers = Insert(@, "host", Authorities(r)[1]),
                 !.uri = IF HostFallback(r) THEN <<Authorities(r)[1]>> ELSE @,
                 !.uri_scheme = IF HostFallback(r) THEN r.scheme ELSE @]

(* The URI's authority, else Host's, else none.                            *)
request_authority(r) == IF Authorities(r) = <<>> THEN <<>> ELSE <<Authorities(r)[1]>>

-----------------------------------------------------------------------------
(* coding_algo: x-gzip is an old name of gzip.                             *)
coding_algo(c) == IF c = "gzip" THEN {"gzip", "x-gzip"} ELSE {c}

(* The last well-formed weight the client gave any of these names, or -1.  *)
Weight(members, names) ==
  LET given == {i \in DOMAIN members : members[i][1] \in names /\ members[i][2] >= 0}
  IN IF given = {} THEN -1 ELSE members[Max(given)][2]

(* The client's weight decides, the route's order breaks a tie, and an     *)
(* identity weighted above the best coding wins.                           *)
negotiate(hs, algorithms) ==
  LET members == FlattenSeq(Values(hs, "accept-encoding"))
      q(c) == IF Weight(members, coding_algo(c)) >= 0
              THEN Weight(members, coding_algo(c))
              ELSE Max({0, Weight(members, {"*"})})
      top == Max({0} \cup {q(algorithms[i]) : i \in DOMAIN algorithms})
  IN IF top = 0 \/ top < Weight(members, {"identity"})
     THEN "identity"
     ELSE Only(algorithms, {c \in ToSet(algorithms) : q(c) = top})[1]

(* cfg is the route's [algorithms, min, types].  A declared length that    *)
(* does not parse is -1, below any floor.                                  *)
response_eligible(r, cfg) ==
  /\ r.status \notin (100..199) \cup {204, 206, 304}
  /\ ~Has(r.headers, "content-encoding")
  /\ "no-transform" \notin UNION ToSet(Values(r.headers, "cache-control"))
  /\ Has(r.headers, "content-type") /\ Values(r.headers, "content-type")[1] \in cfg.types
  /\ Has(r.headers, "content-length") => Values(r.headers, "content-length")[1] >= cfg.min

NoVary(hs) == hs

add_vary_accept_encoding(hs) ==
  IF (UNION ToSet(Values(hs, "vary"))) \cap {"*", "accept-encoding"} # {}
  THEN hs
  ELSE Append(hs, <<"vary", {"accept-encoding"}>>)

(* The length and the byte ranges named the identity bytes, and so did a   *)
(* strong validator.  Only the first ETag line is looked at; a strong one  *)
(* gives way, with every other line, to its weak form.                     *)
mark_compressed(hs, c) ==
  LET marked == Insert(Without(hs, {"content-length", "accept-ranges"}), "content-encoding", {c})
      tags == Values(marked, "etag")
  IN IF tags = <<>> \/ tags[1].weak THEN marked
     ELSE Insert(marked, "etag", [tag |-> tags[1].tag, weak |-> TRUE])

(* What a CompressBody that is read to its end has given: every frame      *)
(* coded in turn, the closing bytes, and only then the trailers.  A codec  *)
(* that fails on the way breaks the stream off, as a failing upstream      *)
(* does; the headers are out by then.                                      *)
CompressBody(r, c) == [r EXCEPT !.body = <<c>> \o @ \o <<"end">>]

(* codec: whether Encoder::new succeeds; without it the response goes out  *)
(* as it is.                                                               *)
compress_response(r, hs, cfg, codec) ==
  LET varied == [r EXCEPT !.headers = add_vary_accept_encoding(@)]
      c == negotiate(hs, cfg.algorithms)
  IN IF ~response_eligible(r, cfg) THEN r
     ELSE IF c = "identity" \/ ~codec THEN varied
     ELSE CompressBody([varied EXCEPT !.headers = mark_compressed(@, c)], c)

(* compression: <<>> or <<cfg>>.                                           *)
apply_compression(r, compression, method, hs, codec) ==
  IF compression = <<>> \/ method = "HEAD" THEN r
  ELSE compress_response(r, hs, compression[1], codec)
=============================================================================
