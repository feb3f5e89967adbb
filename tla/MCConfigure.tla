---------------------------- MODULE MCConfigure -----------------------------
(***************************************************************************)
(* A disk an operator edits, from a manifest that loads: each variant      *)
(* differs from it in what one check of the code looks at.  The ticket     *)
(* keys share no state with it, so that a behaviour runs one of the two    *)
(* and the other rests.                                                    *)
(***************************************************************************)
EXTENDS Configure, Tickets

VARIABLE part
mcVars == <<part, vars, ticketVars>>

(* Components, their provenance and the layouts that hold them.            *)
Good == [kind |-> "component", uses |-> {}, imports |-> {"types", "host-log"}, version |-> "0.4",
         worlds |-> {"0.4"}, exports |-> {"request", "response"}, init |-> TRUE]
Outgoing == [Good EXCEPT !.imports = {"types", "host-kv", "wasi:http"}, !.version = "0.3",
                         !.worlds = {"0.3"}]
Datagrams == [Good EXCEPT !.imports = {"types", "wasi:io", "wasi:sockets/udp"}]
Unlisted == [Good EXCEPT !.imports = {"types"}]
Odd == {[Good EXCEPT !.kind = "module"], [Good EXCEPT !.uses = {"gc"}], [Good EXCEPT !.version = Absent],
        [Good EXCEPT !.worlds = {}], [Good EXCEPT !.init = FALSE]}

Sign(key, content) == [by |-> key, over |-> content]
Names(c) == [subjects |-> {Digest(c)}]
Parts(c, sig, sbom, sbomSig) ==
  [t \in MediaTypes |-> CASE t = "wasm" -> c [] t = "sig" -> sig
                          [] t = "sbom" -> sbom [] OTHER -> sbomSig]
SignedParts(c, key) == Parts(c, Sign(key, c), Names(c), Sign(key, Names(c)))
Borrowed == Parts(Unlisted, Sign("A", Unlisted), Names(Outgoing), Sign("A", Names(Outgoing)))
Bare == Parts(Good, Sign("A", Good), Absent, Absent)

Image(parts) == [t \in DOMAIN parts |-> Digest(parts[t])]
Stored(content) == [regular |-> TRUE, size |-> 1, declared |-> 1, content |-> content]
Layout(parts) ==
  LET image == Image(parts)
  IN  [inside |-> TRUE, first |-> Digest(image),
       blobs |-> [d \in {Digest(image)} \cup {image[t] : t \in DOMAIN image} |-> Stored(d[2])]]
Pin(parts) == Digest(Image(parts))
GoodPin == Pin(SignedParts(Good, "A"))
GoodLayout == Layout(SignedParts(Good, "A"))

MCLayouts == [s \in {"f"} |->
  {GoodLayout, Layout(SignedParts(Good, "B")), Layout(Borrowed), Layout(Bare),
   Layout(SignedParts(Outgoing, "A")), Layout(SignedParts(Datagrams, "A")), Absent,
   [GoodLayout EXCEPT !.inside = FALSE], [GoodLayout EXCEPT !.first = Absent],
   [GoodLayout EXCEPT !.blobs[Digest(Good)].content = Outgoing],
   [GoodLayout EXCEPT !.blobs[Digest(Good)].size = 2],
   [GoodLayout EXCEPT !.blobs[GoodPin].regular = FALSE]}
  \cup {Layout(SignedParts(c, "A")) : c \in Odd}]
MCSignatures == {Sign(k, c) : k \in {"A", "B"},
                              c \in {Good, Outgoing, Datagrams, Unlisted, Names(Good), Names(Outgoing),
                                    Names(Datagrams)} \cup Odd
                                      \cup {Names(o) : o \in Odd}}
MCSboms == {Names(c) : c \in {Good, Outgoing, Datagrams} \cup Odd}

(* Files.                                                                  *)
Content(body, kind) == [body |-> body, kind |-> kind, owner |-> TRUE]
GoodFiles ==
  [n \in {"pub", "cert", "key", "ca", "stek", "text"} |->
     Content(IF n = "pub" THEN "A" ELSE n,
             CASE n = "pub" -> "public_key" [] OTHER -> n)]
MCFiles == [n \in {"pub", "key", "ca", "stek", "text"} |->
  CASE n = "pub" -> {Content("B", "public_key"), Content("A", "text")}
    [] n = "key" -> {Content("other", "key"), [GoodFiles["key"] EXCEPT !.owner = FALSE]}
    [] n = "ca" -> {Absent, Content("junk", "text")}
    [] n = "stek" -> {Absent, [GoodFiles["stek"] EXCEPT !.owner = FALSE]}
    [] OTHER -> {Absent}]
MCPairs == {<<"cert", "key">>}

(* Manifests.                                                              *)
Filter == [id |-> "f", source |-> "f", digest |-> GoodPin, config |-> << >>,
           config_files |-> [greeting |-> "text"], limits |-> [pool_size |-> 2],
           isolation |-> "trusted", dispatch |-> "auto", ratelimit |-> Absent,
           outbound_http |-> Absent, outbound_tcp |-> Absent, wasi |-> "none"]
Plain == [name |-> "u", addresses |-> << [addr |-> "x", weight |-> 1], [addr |-> "y", weight |-> 2] >>,
          lb |-> "round_robin", hash |-> Absent, tls |-> Absent, zeros |-> {}]
Hashed(size, n) ==
  [Plain EXCEPT !.lb = "maglev", !.hash = [key |-> "source_ip", header |-> Absent, table_size |-> size],
                !.addresses = [i \in 1..n |-> [addr |-> <<"x", "y", "z">>[i], weight |-> 1]]]
Secured(tls) == [Plain EXCEPT !.tls = tls]
GoodTls == [ca |-> "ca", cert |-> "cert", key |-> "key", sni |-> Absent]
Target == [name |-> Absent, host |-> Absent, prefix |-> "/", upstream |-> "u", backends |-> << >>,
           filters |-> <<"f">>, limit |-> Absent, upgrade |-> Absent, compression |-> Absent,
           headers |-> Absent, body |-> Absent]
Base == [trust |-> {"pub"}, state |-> [backend |-> "memory", path |-> Absent],
         listen |-> [proxy_protocol |-> Absent, trusted_proxy |-> Absent, client_auth |-> Absent],
         observability |-> [otlp_endpoint |-> Absent], resumption |-> Absent, tls |-> << >>,
         chain |-> << >>, filters |-> <<Filter>>, upstreams |-> <<Plain>>, routes |-> <<Target>>]

WithFilter(f) == [Base EXCEPT !.filters = <<f>>, !.routes[1].filters = <<f.id>>]
WithUpstream(u) == [Base EXCEPT !.upstreams = <<u>>]
WithRoute(r) == [Base EXCEPT !.routes = <<r>>]
Served == [Base EXCEPT !.tls = << [host |-> Absent, cert |-> "cert", key |-> "key"] >>]
Lending == [allow |-> {[host |-> "h", port |-> 443]}, allow_private |-> {}, limits |-> [total_timeout_ms |-> 9]]

MCManifests ==
  {Base, Served,
   [Base EXCEPT !.trust = {"text"}], [Base EXCEPT !.trust = {"pub", "ca"}],
   [Base EXCEPT !.state = [backend |-> "redb", path |-> "db"]],
   [Base EXCEPT !.state = [backend |-> "redb", path |-> ""]],
   [Base EXCEPT !.listen.proxy_protocol = {}], [Base EXCEPT !.listen.trusted_proxy = {BadCidr}],
   [Base EXCEPT !.listen.client_auth = "ca"], [Served EXCEPT !.listen.client_auth = "ca"],
   [Base EXCEPT !.observability.otlp_endpoint = "https"],
   [Served EXCEPT !.resumption = [max_age_hours |-> 24, file |-> "stek"]],
   [Served EXCEPT !.resumption = [max_age_hours |-> 0, file |-> "stek"]],
   [Base EXCEPT !.resumption = [max_age_hours |-> 24, file |-> "stek"]],
   [Served EXCEPT !.tls = @ \o @],
   [Base EXCEPT !.chain = <<"f">>], [Base EXCEPT !.filters = @ \o @],
   [Base EXCEPT !.filters = << >>],
   [Base EXCEPT !.filters = << >>, !.upstreams = <<Hashed(5, 2)>>]}
  \cup {WithFilter(f) : f \in
    {[Filter EXCEPT !.id = ""], [Filter EXCEPT !.id = "a.b"],
     [Filter EXCEPT !.limits = [pool_size |-> 0]], [Filter EXCEPT !.limits = [pool_size |-> 9]],
     [Filter EXCEPT !.isolation = "untrusted"],
     [Filter EXCEPT !.isolation = "untrusted", !.limits = << >>],
     [Filter EXCEPT !.config = [greeting |-> "hi"]],
     [Filter EXCEPT !.ratelimit = [capacity |-> 1, refill |-> 1, interval |-> 0]],
     [Filter EXCEPT !.outbound_http = [Lending EXCEPT !.allow_private = {BadCidr}]],
     [Filter EXCEPT !.outbound_tcp = [Lending EXCEPT !.allow = {}]],
     [Filter EXCEPT !.digest = Pin(SignedParts(Datagrams, "A")),
                    !.outbound_tcp = [Lending EXCEPT !.limits = [max_connections |-> 0]]],
     [Filter EXCEPT !.digest = Pin(SignedParts(Datagrams, "A")),
                    !.outbound_tcp = [Lending EXCEPT !.limits = << >>]],
     [Filter EXCEPT !.wasi = "minimal"],
     [Filter EXCEPT !.digest = Pin(SignedParts(Good, "B"))],
     [Filter EXCEPT !.digest = Pin(Borrowed)], [Filter EXCEPT !.digest = Pin(Bare)],
     [Filter EXCEPT !.digest = Pin(SignedParts(Outgoing, "A"))],
     [Filter EXCEPT !.digest = Pin(SignedParts(Outgoing, "A")), !.outbound_http = Lending]}
    \cup {[Filter EXCEPT !.digest = Pin(SignedParts(c, "A"))] : c \in Odd}}
  \cup {WithUpstream(u) : u \in
    {Hashed(5, 2), Hashed(5, 3), Hashed(2, 3), Hashed(4, 2), Hashed(11, 2),
     [Plain EXCEPT !.addresses = << >>], [Plain EXCEPT !.zeros = {"interval_ms"}],
     [Plain EXCEPT !.addresses[1].weight = 0], [Plain EXCEPT !.lb = "maglev"],
     Secured(GoodTls), Secured([GoodTls EXCEPT !.ca = "text"]),
     Secured([GoodTls EXCEPT !.key = Absent]), Secured([GoodTls EXCEPT !.sni = "bad"])}}
  \cup {WithRoute(r) : r \in
    {[Target EXCEPT !.name = ""], [Target EXCEPT !.name = Unmatched],
     [Target EXCEPT !.upstream = "v"], [Target EXCEPT !.filters = <<"g">>],
     [Target EXCEPT !.backends = << <<"u", 1>> >>],
     [Target EXCEPT !.upstream = Absent, !.backends = << <<"u", 2>>, <<"u", 4>> >>],
     [Target EXCEPT !.upstream = Absent, !.backends = << <<"u", 5>>, <<"u", 4>> >>],
     [Target EXCEPT !.limit = [rate |-> 0, burst |-> 1]],
     [Target EXCEPT !.upgrade = {"h2c"}],
     [Target EXCEPT !.compression = [algorithms |-> <<"br", "br">>, content_types |-> {"text"}]],
     [Target EXCEPT !.headers = [set |-> << >>, remove |-> {"connection"}]],
     [Target EXCEPT !.body = [max_bytes |-> "zero", content_types |-> {"text"}]]}}

MCHashOf == [x |-> <<3, 1>>, y |-> <<3, 4>>, z |-> <<0, 2>>]
MCInitialDisk == [manifest |-> Base, files |-> GoodFiles, layouts |-> [f |-> GoodLayout]]

(* Contexts a handshake may be served under.                               *)
MCContexts == {[certs |-> "c1", ca |-> NoKey, stek |-> TRUE],
               [certs |-> "c2", ca |-> NoKey, stek |-> TRUE],
               [certs |-> "c1", ca |-> "ca1", stek |-> FALSE],
               [certs |-> "c1", ca |-> "ca2", stek |-> FALSE],
               [certs |-> "c1", ca |-> NoKey, stek |-> FALSE]}

(* No fair action of the ticket keys is enabled here.                      *)
TicketsRest ==
  /\ file = [body |-> Broken, age |-> MaxAge + 1] /\ writes = MaxWrites /\ held = {}
  /\ builds = <<[ctx |-> [certs |-> "c1", ca |-> NoKey, stek |-> FALSE], previous |-> NoKey,
                 due |-> FALSE, current |-> NoKey]>>
  /\ hand = [t \in Threads |-> [pc |-> "resting"]] /\ since = [k \in Keys |-> MaxAge + 1]

(* The keys are interchangeable: the file begins with the first.           *)
MCInit ==
  /\ part \in {"configure", "tickets"}
  /\ Init
  /\ IF part = "tickets" THEN TicketsInit /\ file.body = "k1" ELSE TicketsRest

InConfigure == part = "configure" /\ Next /\ UNCHANGED <<part, ticketVars>>
InTickets == part = "tickets" /\ TicketsNext /\ UNCHANGED <<part, vars>>
MCNext == InConfigure \/ InTickets
MCSpec == MCInit /\ [][MCNext]_mcVars /\ TicketsFairness
=============================================================================
