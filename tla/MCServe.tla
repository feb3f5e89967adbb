------------------------------ MODULE MCServe -------------------------------
(***************************************************************************)
(* The server's own loops, each on a small instance: the accept loops and  *)
(* the shutdown, the PROXY header, DNS refresh, span export, the request   *)
(* counters, the TLS client cache and an HTTP/3 stream.  They share no     *)
(* state, so a behaviour runs one of them and the others rest.             *)
(***************************************************************************)
EXTENDS Serve, ProxyHeader, Dns, Export, UpstreamClients, H3Stream

VARIABLE part

mcVars == <<part, serveVars, headerVars, dnsVars, exportVars, clientVars, streamVars, metricVars>>

MCStreams ==
  {<<a, b, v, f, d>> \o [i \in 1..n |-> i] :
     a \in {"sig"}, b \in {"sig", "x"}, v \in {"local", "proxy", "badversion", "badcommand"},
     f \in {"v4", "v6", "other"}, d \in 0..5, n \in {0, 2, 5, 6}}
  \cup {<<"sig">>, <<"sig", "sig">>, <<"x">>}

(* Resting states, in which no fair action is enabled.                     *)
ServeRest ==
  /\ stage = "returned" /\ permits = MaxConnections /\ loop = "off" /\ quic = "gone"
  /\ conn = [c \in Conns |-> "none"] /\ tunnel = [c \in Conns |-> "none"]
  /\ guards = [c \in Conns |-> {}] /\ told = {} /\ expired = FALSE /\ admin = "closed"
  /\ outdated = FALSE /\ late = {} /\ stale = {}
HeaderRest ==
  /\ trusted = FALSE /\ stream = <<>> /\ sent = 0 /\ closed = TRUE /\ have = 0
  /\ verdict = "fault" /\ peer = Real
DnsRest ==
  /\ dns = [h \in Hosts |-> Failed] /\ changes = 0 /\ current = NoGroup /\ built = 0
  /\ configured = [g \in Groups |-> {}] /\ endpoints = [g \in Groups |-> {}]
  /\ cacheOf = 0 /\ lastGood = [k \in Caches |-> [h \in Hosts |-> Failed]]
  /\ spawned = {} /\ refresh = [k \in Caches |-> Idle]
StreamRest ==
  /\ declared = <<>> /\ received = 0 /\ fin = "fin" /\ core = "refused" /\ remaining = None
  /\ passed = 0 /\ body = "open" /\ source = "none" /\ sendHalf = "open" /\ sentTrailers = FALSE

MCInit ==
  /\ part \in {"serve", "header", "dns", "export", "clients", "stream", "metrics"}
  /\ IF part = "serve" THEN ServeInit ELSE ServeRest
  /\ IF part = "header" THEN HeaderInit ELSE HeaderRest
  /\ IF part = "dns" THEN DnsInit ELSE DnsRest
  /\ ExportInit /\ ClientsInit /\ MetricsInit
  /\ IF part = "stream" THEN StreamInit ELSE StreamRest

InServe == part = "serve" /\ ServeNext
           /\ UNCHANGED <<part, headerVars, dnsVars, exportVars, clientVars, streamVars, metricVars>>
InHeader == part = "header" /\ HeaderNext
            /\ UNCHANGED <<part, serveVars, dnsVars, exportVars, clientVars, streamVars, metricVars>>
InDns == part = "dns" /\ DnsNext
         /\ UNCHANGED <<part, serveVars, headerVars, exportVars, clientVars, streamVars, metricVars>>
InExport == part = "export" /\ ExportNext
            /\ UNCHANGED <<part, serveVars, headerVars, dnsVars, clientVars, streamVars, metricVars>>
InClients == part = "clients" /\ ClientsNext
             /\ UNCHANGED <<part, serveVars, headerVars, dnsVars, exportVars, streamVars, metricVars>>
InStream == part = "stream" /\ StreamNext
            /\ UNCHANGED <<part, serveVars, headerVars, dnsVars, exportVars, clientVars, metricVars>>
InMetrics == part = "metrics" /\ MetricsNext
             /\ UNCHANGED <<part, serveVars, headerVars, dnsVars, exportVars, clientVars, streamVars>>

MCNext == InServe \/ InHeader \/ InDns \/ InExport \/ InClients \/ InStream \/ InMetrics
MCSpec == MCInit /\ [][MCNext]_mcVars /\ ServeFairness /\ DnsFairness

(* Everything that is served is within the cap, and a shutdown is          *)
(* announced and lets requests finish, see Serve.                          *)
DrainSound == LiveWithinCap /\ GracefulShutdown

(* What the server says of itself accounts for every request, see Export.  *)
TelemetryAccounted == SpansAccounted /\ CountersKept

(* What a client sends in pieces is read as one: the address it comes from *)
(* and the length it declares, see ProxyHeader and H3Stream.               *)
ClientReadRight == PeerIsRight /\ FramingExact
=============================================================================
