----------------------------- MODULE MCOutbound -----------------------------
(* A TLC instance of the two outbound capabilities under one policy.  They *)
(* share no state: `side` picks the one a behaviour is about.  DNS may     *)
(* answer with a global address, with a private one the operator opted     *)
(* into, and with a loopback address bare or wrapped; one name and one     *)
(* literal address are listed.                                             *)
EXTENDS Outbound, TLC

CONSTANT redis

Ip(r, w) == [range |-> r, wrap |-> w]

MCAddrs == {Ip("global", "none"), Ip("rfc1918", "mapped"), Ip("loopback", "compat")}
MCAllow == {[host |-> redis, port |-> 1], [host |-> Ip("rfc1918", "none"), port |-> 2]}

VARIABLE side

outboundVars == <<side, tcpVars, httpVars>>

OutboundInit == side \in {"tcp", "http"} /\ TcpInit /\ HttpInit

OutboundNext ==
  \/ side = "tcp" /\ TcpNext /\ UNCHANGED <<side, httpVars>>
  \/ side = "http" /\ HttpNext /\ UNCHANGED <<side, tcpVars>>

OutboundSpec == OutboundInit /\ [][OutboundNext]_outboundVars /\ HttpFairness

(* Descriptors are counted once, against Store and host, and the HTTP      *)
(* connections of live calls hold permits: see SocketsAccounted and        *)
(* ConnectionsCovered.                                                     *)
CeilingsCover == SocketsAccounted /\ ConnectionsCovered

(* No address a filter is connected to, by either capability, lies in a    *)
(* forbidden range, however DNS wrote it and whatever else it answered;    *)
(* and every TCP peer was listed or resolved by the host for its port.     *)
PeersVetted == TcpPeersVetted /\ HttpPeersVetted
=============================================================================
