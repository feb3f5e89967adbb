------------------------------- MODULE Serve --------------------------------
(***************************************************************************)
(* The accept loops, their connections and the graceful shutdown           *)
(* (crates/server/src/listener.rs, tunnel.rs, admin.rs, h3/endpoint.rs and *)
(* the upgrade of proxy.rs).  A connection keeps its permit until its task *)
(* and its tunnel have both let go of the guards.  Which addresses the     *)
(* per-IP limit refuses is ConnLimit's; here a refusal may come any time.  *)
(***************************************************************************)
EXTENDS Integers, FiniteSets

CONSTANTS Tcp, Quic,        \* connections clients may make, by transport
          MaxConnections

ASSUME ServeAssumption ==
  /\ MaxConnections \in Nat \ {0}
  /\ IsFiniteSet(Tcp) /\ IsFiniteSet(Quic) /\ Tcp \cap Quic = {}

Conns == Tcp \cup Quic

VARIABLES stage,     \* "serving", "grace", "drain", "h3", "flush", "returned"
          permits,   \* conn_limit
          loop,      \* the TCP accept loop: "permit", "accept", "off"
          quic,      \* the QUIC one: "top", "permit", "accept", "drain", "closing", "gone"
          conn,      \* each connection: see States
          tunnel,    \* each connection's tunnel: "none", "joining", "splicing"
          guards,    \* who holds a connection's permit: subset of {"task", "tunnel"}
          told,      \* connections that were asked to close gracefully
          expired,   \* a drain window ran out
          admin,     \* the admin listener: "accept", "permit" or "closed"
          outdated,  \* a reload's TLS configuration is not yet the QUIC endpoint's
          late,      \* QUIC connections that arrived since that reload
          stale      \* QUIC connections handshaken with an older one than at their arrival

serveVars == <<stage, permits, loop, quic, conn, tunnel, guards, told, expired, admin,
               outdated, late, stale>>
configVars == <<outdated, late, stale>>

States == {"none", "arriving", "opening", "idle", "busy", "ended", "broken"}
InTask == {"opening", "idle", "busy"}
Draining == stage \notin {"serving", "grace"}
Readyz == stage = "serving"

ServeInit ==
  /\ stage = "serving" /\ permits = MaxConnections
  /\ loop = "permit" /\ quic = "top"
  /\ conn = [c \in Conns |-> "none"] /\ tunnel = [c \in Conns |-> "none"]
  /\ guards = [c \in Conns |-> {}]
  /\ told = {} /\ expired = FALSE /\ admin = "accept"
  /\ outdated = FALSE /\ late = {} /\ stale = {}

(* A permit goes home when the last owner of its guards drops them.        *)
Drops(owner, cs) ==
  /\ guards' = [c \in Conns |-> IF c \in cs THEN guards[c] \ {owner} ELSE guards[c]]
  /\ permits' = permits + Cardinality({c \in cs : guards[c] = {owner}})
(* A task that ends with a request in flight breaks it.                    *)
Ended(c) == IF conn[c] = "busy" THEN "broken" ELSE "ended"
EndTask(cs) ==
  /\ conn' = [c \in Conns |-> IF c \in cs THEN Ended(c) ELSE conn[c]]
  /\ Drops("task", cs)

Arrive(c) ==
  /\ conn[c] = "none" /\ conn' = [conn EXCEPT ![c] = "arriving"]
  /\ late' = IF c \in Quic /\ outdated THEN late \cup {c} ELSE late
  /\ UNCHANGED <<stage, permits, loop, quic, tunnel, guards, told, expired, admin, outdated, stale>>

(* The TCP loop: a permit before the accept, and the TLS configuration     *)
(* after it.  A finished task or a failed accept starts the round again.   *)
AcquireTcp ==
  /\ loop = "permit" /\ permits > 0
  /\ loop' = "accept" /\ permits' = permits - 1
  /\ UNCHANGED <<stage, quic, conn, tunnel, guards, told, expired, admin, configVars>>
RetryTcp ==
  /\ loop = "accept" /\ loop' = "permit" /\ permits' = permits + 1
  /\ UNCHANGED <<stage, quic, conn, tunnel, guards, told, expired, admin, configVars>>
AcceptTcp(c) ==
  /\ loop = "accept" /\ c \in Tcp /\ conn[c] = "arriving"
  /\ loop' = "permit"
  /\ conn' = [conn EXCEPT ![c] = "opening"] /\ guards' = [guards EXCEPT ![c] = {"task"}]
  /\ UNCHANGED <<stage, permits, quic, tunnel, told, expired, admin, configVars>>

(* PROXY header, per-IP slot and TLS handshake, each under its deadline.   *)
Opens(c) ==
  /\ conn[c] = "opening" /\ c \in Tcp
  /\ conn' = [conn EXCEPT ![c] = "idle"]
  /\ UNCHANGED <<stage, permits, loop, quic, tunnel, guards, told, expired, admin, configVars>>
OpenFails(c) ==
  /\ conn[c] = "opening" /\ EndTask({c})
  /\ UNCHANGED <<stage, loop, quic, tunnel, told, expired, admin, configVars>>

(* The QUIC loop applies a reloaded configuration before it waits.  The    *)
(* handshake runs in the connection's task, with what the endpoint has.    *)
Apply ==
  /\ quic = "top" /\ quic' = "permit"
  /\ outdated' = FALSE /\ late' = {}
  /\ UNCHANGED <<stage, permits, loop, conn, tunnel, guards, told, expired, admin, stale>>
AcquireQuic ==
  /\ quic = "permit" /\ permits > 0
  /\ quic' = "accept" /\ permits' = permits - 1
  /\ UNCHANGED <<stage, loop, conn, tunnel, guards, told, expired, admin, configVars>>
RetryQuic ==
  /\ quic = "accept" /\ quic' = "top" /\ permits' = permits + 1
  /\ UNCHANGED <<stage, loop, conn, tunnel, guards, told, expired, admin, configVars>>
AcceptQuic(c) ==
  /\ quic = "accept" /\ c \in Quic /\ conn[c] = "arriving"
  /\ quic' = "top"
  /\ conn' = [conn EXCEPT ![c] = "opening"] /\ guards' = [guards EXCEPT ![c] = {"task"}]
  /\ UNCHANGED <<stage, permits, loop, tunnel, told, expired, admin, configVars>>
HandshakeQuic(c) ==
  /\ c \in Quic /\ conn[c] = "opening" /\ quic \notin {"closing", "gone"}
  /\ conn' = [conn EXCEPT ![c] = "idle"]
  /\ stale' = IF c \in late THEN stale \cup {c} ELSE stale
  /\ UNCHANGED <<stage, permits, loop, quic, tunnel, guards, told, expired, admin, outdated, late>>

Reload ==
  /\ stage = "serving" /\ ~outdated /\ outdated' = TRUE
  /\ UNCHANGED <<stage, permits, loop, quic, conn, tunnel, guards, told, expired, admin, late, stale>>

Request(c) ==
  /\ conn[c] = "idle" /\ c \notin told
  /\ conn' = [conn EXCEPT ![c] = "busy"]
  /\ UNCHANGED <<stage, permits, loop, quic, tunnel, guards, told, expired, admin, configVars>>
(* The response ends; a connection that was asked to close does.           *)
Answered(c) == conn' = [conn EXCEPT ![c] = IF c \in told THEN "ended" ELSE "idle"]
Respond(c) ==
  /\ conn[c] = "busy" /\ Answered(c)
  /\ IF c \in told THEN Drops("task", {c}) ELSE UNCHANGED <<guards, permits>>
  /\ UNCHANGED <<stage, loop, quic, tunnel, told, expired, admin, configVars>>

(* upgrade_switch: the tunnel's task shares the guards.  The connection's  *)
(* task ends once the 101 is written, which Finish101 does.                *)
SwitchUnguarded(c) == guards' = guards
Switch(c) == guards' = [guards EXCEPT ![c] = @ \cup {"tunnel"}]

Upgrade(c) ==
  /\ c \in Tcp /\ conn[c] = "busy" /\ tunnel[c] = "none"
  /\ Switch(c) /\ tunnel' = [tunnel EXCEPT ![c] = "joining"]
  /\ UNCHANGED <<stage, permits, loop, quic, conn, told, expired, admin, configVars>>
Finish101(c) ==
  /\ tunnel[c] # "none" /\ conn[c] = "busy"
  /\ conn' = [conn EXCEPT ![c] = "ended"] /\ Drops("task", {c})
  /\ UNCHANGED <<stage, loop, quic, tunnel, told, expired, admin, configVars>>

(* tunnel::run and splice: both wait for the drain as well.                *)
TunnelJoins(c) ==
  /\ tunnel[c] = "joining" /\ tunnel' = [tunnel EXCEPT ![c] = "splicing"]
  /\ UNCHANGED <<stage, permits, loop, quic, conn, guards, told, expired, admin, configVars>>
TunnelOver(c) ==
  /\ tunnel' = [tunnel EXCEPT ![c] = "none"] /\ Drops("tunnel", {c})
  /\ UNCHANGED <<stage, loop, quic, conn, told, expired, admin, configVars>>
TunnelCloses(c) == tunnel[c] # "none" /\ TunnelOver(c)
TunnelDrainedWhenSpliced(c) == Draining /\ tunnel[c] = "splicing" /\ TunnelOver(c)

TunnelDrained(c) == Draining /\ tunnel[c] # "none" /\ TunnelOver(c)

(* A client goes away; its connection's task and requests end.             *)
ClientLeaves(c) ==
  /\ conn[c] \in InTask
  /\ conn' = [conn EXCEPT ![c] = "ended"] /\ Drops("task", {c})
  /\ UNCHANGED <<stage, loop, quic, tunnel, told, expired, admin, configVars>>

(* Every connection task waits for the drain flag: graceful_shutdown, or   *)
(* GOAWAY.  Without a request in flight it is over.                        *)
NoticeDrainH3Breaks(c) ==
  /\ told' = told \cup {c}
  /\ IF conn[c] = "idle" \/ c \in Quic THEN EndTask({c}) ELSE UNCHANGED <<conn, guards, permits>>

NoticeDrain(c) ==
  /\ told' = told \cup {c}
  /\ IF conn[c] = "idle" THEN EndTask({c}) ELSE UNCHANGED <<conn, guards, permits>>

Notice(c) ==
  /\ Draining /\ conn[c] \in {"idle", "busy"} /\ c \notin told
  /\ NoticeDrain(c)
  /\ UNCHANGED <<stage, loop, quic, tunnel, expired, admin, configVars>>

(* serve_inner: not ready, the grace, then no more accepts and the drain.  *)
Signal ==
  /\ stage = "serving" /\ stage' = "grace"
  /\ UNCHANGED <<permits, loop, quic, conn, tunnel, guards, told, expired, admin, configVars>>
StartDrain ==
  /\ stage = "grace" /\ stage' = "drain"
  /\ loop' = "off" /\ permits' = IF loop = "accept" THEN permits + 1 ELSE permits
  /\ UNCHANGED <<quic, conn, tunnel, guards, told, expired, admin, configVars>>
AllHome ==
  /\ stage = "drain" /\ permits = MaxConnections /\ stage' = "h3"
  /\ UNCHANGED <<permits, loop, quic, conn, tunnel, guards, told, expired, admin, configVars>>

(* The window ends: the TCP tasks are cut, tunnels and QUIC see to         *)
(* themselves.                                                             *)
WindowEnds == permits < MaxConnections

DrainExpires ==
  /\ stage = "drain" /\ WindowEnds /\ stage' = "h3" /\ expired' = TRUE
  /\ EndTask({c \in Tcp : conn[c] \in InTask})
  /\ UNCHANGED <<loop, quic, tunnel, told, admin, configVars>>

(* serve_admin stops with the accept loops, unless it took a connection at *)
(* MAX_ADMIN_CONNECTIONS: then it waits for another to end and watches     *)
(* nothing else.                                                           *)
AdminFills ==
  /\ admin = "accept" /\ admin' = "permit"
  /\ UNCHANGED <<stage, permits, loop, quic, conn, tunnel, guards, told, expired, configVars>>
AdminFrees ==
  /\ admin = "permit" /\ admin' = "accept"
  /\ UNCHANGED <<stage, permits, loop, quic, conn, tunnel, guards, told, expired, configVars>>
AdminDrains ==
  /\ Draining /\ admin = "accept" /\ admin' = "closed"
  /\ UNCHANGED <<stage, permits, loop, quic, conn, tunnel, guards, told, expired, configVars>>

(* serve_h3 leaves its loop, waits for its connections under the same      *)
(* window, closes the endpoint and waits for it to be idle.                *)
QuicDrains ==
  /\ Draining /\ quic \in {"permit", "accept"} /\ quic' = "drain"
  /\ permits' = IF quic = "accept" THEN permits + 1 ELSE permits
  /\ UNCHANGED <<stage, loop, conn, tunnel, guards, told, expired, admin, configVars>>
QuicLive == \E c \in Quic : conn[c] \in InTask
QuicCloses ==
  /\ quic = "drain" /\ quic' = "closing" /\ expired' = (expired \/ QuicLive)
  /\ UNCHANGED <<stage, permits, loop, conn, tunnel, guards, told, admin, configVars>>
QuicCut(c) ==
  /\ quic = "closing" /\ c \in Quic /\ conn[c] \in InTask /\ EndTask({c})
  /\ UNCHANGED <<stage, loop, quic, tunnel, told, expired, admin, configVars>>
QuicIdle ==
  /\ quic = "closing" /\ ~QuicLive /\ quic' = "gone"
  /\ UNCHANGED <<stage, permits, loop, conn, tunnel, guards, told, expired, admin, configVars>>

(* The wait for QUIC outlasts its window by a second, then gives up; the   *)
(* exporter and the supervisors, the admin listener among them, are waited *)
(* for with bounds of their own and then abandoned.                        *)
AwaitQuic ==
  /\ stage = "h3" /\ quic \in {"closing", "gone"} /\ stage' = "flush"
  /\ UNCHANGED <<permits, loop, quic, conn, tunnel, guards, told, expired, admin, configVars>>
Return ==
  /\ stage = "flush" /\ stage' = "returned"
  /\ UNCHANGED <<permits, loop, quic, conn, tunnel, guards, told, expired, admin, configVars>>

Client(c) == Arrive(c) \/ Opens(c) \/ HandshakeQuic(c) \/ Request(c) \/ Respond(c) \/ Upgrade(c)
             \/ TunnelJoins(c) \/ TunnelCloses(c) \/ ClientLeaves(c)
Loops == AcquireTcp \/ RetryTcp \/ Apply \/ AcquireQuic \/ RetryQuic
         \/ \E c \in Conns : AcceptTcp(c) \/ AcceptQuic(c)
Task(c) == OpenFails(c) \/ Finish101(c) \/ TunnelDrained(c) \/ Notice(c) \/ QuicCut(c)
Shutdown == StartDrain \/ AllHome \/ DrainExpires \/ QuicDrains \/ QuicCloses \/ QuicIdle
            \/ AwaitQuic \/ Return \/ AdminDrains

ServeNext ==
  \/ \E c \in Conns : Client(c) \/ Task(c)
  \/ Loops \/ Reload \/ Signal \/ Shutdown \/ AdminFills \/ AdminFrees

(* The server's own steps; nothing is assumed of clients or upstreams.     *)
(* select! polls its branches in random order, so a loop that keeps coming *)
(* back to it with the drain flag set takes that branch: strong fairness.  *)
ServeFairness ==
  /\ WF_serveVars(Apply) /\ SF_serveVars(QuicDrains)
  /\ WF_serveVars(StartDrain) /\ WF_serveVars(AllHome \/ DrainExpires)
  /\ WF_serveVars(QuicCloses) /\ WF_serveVars(QuicIdle)
  /\ WF_serveVars(AwaitQuic) /\ WF_serveVars(Return)
  /\ \A c \in Conns : WF_serveVars(OpenFails(c)) /\ WF_serveVars(TunnelDrained(c))
                      /\ WF_serveVars(Finish101(c)) /\ WF_serveVars(Notice(c)) /\ WF_serveVars(QuicCut(c))

(* MAX_CONNECTIONS holds for everything a client still has here: its       *)
(* connection or the tunnel that outlived it.                              *)
Live == {c \in Conns : conn[c] \in InTask \/ tunnel[c] # "none"}
LiveWithinCap ==
  /\ Cardinality(Live) + (IF loop = "accept" THEN 1 ELSE 0) + (IF quic = "accept" THEN 1 ELSE 0)
       + permits = MaxConnections
  /\ \A c \in Conns : (guards[c] # {}) = (c \in Live)

(* A shutdown breaks no request inside the drain window: one that was in   *)
(* flight is answered or left by its client, unless the window ran out.    *)
(* And a replica that says it is ready takes connections.                  *)
GracefulShutdown ==
  /\ \A c \in Conns : conn[c] = "broken" => expired
  /\ Readyz => loop # "off" /\ quic \in {"top", "permit", "accept"}

(* serve returns after a signal, whatever clients, upstreams and scrapers  *)
(* do, and leaves no client's connection and no tunnel behind; of the      *)
(* admin listener nothing is promised.                                     *)
Quiet == stage = "returned" /\ Live = {}
ShutdownEnds == (stage = "grace") ~> Quiet

(* A connection that came after a reload is served under its certificates  *)
(* and client authentication, over QUIC as over TCP.                       *)
NewConnectionsNewTls == stale = {}
=============================================================================
