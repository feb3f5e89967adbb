---------------------------- MODULE ProxyHeader -----------------------------
(***************************************************************************)
(* PROXY protocol v2 reception (crates/server/src/proxy_protocol.rs): who  *)
(* the client of a TCP connection is, decided from a stream that arrives   *)
(* in pieces.  Bytes are tokens and the lengths are scaled down: a         *)
(* signature of SigLen bytes, one token for the version and command, one   *)
(* for family and protocol, one for the declared length.                   *)
(***************************************************************************)
EXTENDS Integers, Sequences

CONSTANTS SigLen, MaxDeclared,
          Streams        \* what clients may send, as sequences of tokens

ASSUME HeaderAssumption == SigLen \in Nat \ {0} /\ MaxDeclared \in Nat

SIGNATURE == [i \in 1..SigLen |-> "sig"]
PrefixLen == SigLen + 3

(* A stream has a length; one that reaches past the fixed prefix has a     *)
(* family and a length in it.                                              *)
ASSUME StreamsAssumption ==
  \A s \in Streams :
    /\ Len(s) \in Nat
    /\ Len(s) >= PrefixLen =>
         s[SigLen + 2] \in {"v4", "v6", "other"} /\ s[SigLen + 3] \in Nat

Need(family) == CASE family = "v4" -> 2 [] family = "v6" -> 4

VARIABLES trusted,   \* the accepted address is in the trusted CIDRs
          stream, sent, closed,   \* what the client sends, how much of it arrived, its FIN
          have,      \* bytes the reader has consumed
          verdict,   \* "reading", "fault", "resolved"
          peer       \* the peer the connection is served for

headerVars == <<trusted, stream, sent, closed, have, verdict, peer>>

Least(a, b) == IF a < b THEN a ELSE b
Starts(buf, n) == SubSeq(buf, 1, Least(n, Len(buf))) = SubSeq(SIGNATURE, 1, Least(n, Len(buf)))
HeaderStreams == {s \in Streams : Len(s) >= PrefixLen /\ Starts(s, SigLen)}

Fault == [t |-> "fault"]
Incomplete(n) == [t |-> "incomplete", needed |-> n]
Complete(p) == [t |-> "complete", peer |-> p]

(* The real peer stands for the connection's own address; a restored one   *)
(* is the first half of the address block.                                 *)
Real == <<>>
ParseSrc(block) == SubSeq(block, 1, Len(block) \div 2)

(* parse_proxy_v2 once the fixed prefix is there: v is the version and     *)
(* command, d the declared length.                                         *)
ParseBody(buf, v, f, d) ==
  LET needed == PrefixLen + d
      whole(p) == IF Len(buf) < needed THEN Incomplete(needed) ELSE Complete(p)
  IN CASE v = "badversion" \/ d > MaxDeclared -> Fault
       [] v = "local" /\ d <= MaxDeclared -> whole(Real)
       [] v = "proxy" /\ d <= MaxDeclared ->
            IF f = "other" \/ (f # "other" /\ d < Need(f)) THEN Fault
            ELSE whole(ParseSrc(SubSeq(buf, PrefixLen + 1, PrefixLen + Need(f))))
       [] OTHER -> Fault

parse_proxy_v2(buf) ==
  IF ~Starts(buf, SigLen) THEN Fault
  ELSE IF Len(buf) < PrefixLen THEN Incomplete(PrefixLen)
  ELSE ParseBody(buf, buf[SigLen + 1], buf[SigLen + 2], buf[SigLen + 3])

HeaderInit ==
  /\ trusted \in BOOLEAN /\ stream \in Streams
  /\ sent = 0 /\ closed = FALSE /\ have = 0 /\ verdict = "reading" /\ peer = Real

ClientSends ==
  /\ verdict = "reading" /\ ~closed /\ \E n \in (sent + 1)..Len(stream) : sent' = n
  /\ UNCHANGED <<trusted, stream, closed, have, verdict, peer>>
ClientCloses ==
  /\ verdict = "reading" /\ ~closed /\ closed' = TRUE
  /\ UNCHANGED <<trusted, stream, sent, have, verdict, peer>>

Decide(v, p) ==
  verdict = "reading" /\ verdict' = v /\ peer' = p /\ UNCHANGED <<trusted, stream, sent, closed>>

(* read_trusted_header: read_exact of the prefix, then of what the parser  *)
(* still needs.  have grows by whole reads only.                           *)
Wanted == IF have = 0 THEN PrefixLen ELSE parse_proxy_v2(SubSeq(stream, 1, have)).needed
ReadTrusted ==
  /\ trusted /\ verdict = "reading" /\ sent >= Wanted /\ have' = Wanted
  /\ LET got == parse_proxy_v2(SubSeq(stream, 1, Wanted))
     IN \/ got.t = "fault" /\ Decide("fault", Real)
        \/ got.t = "complete" /\ Decide("resolved", got.peer)
        \/ got.t = "incomplete" /\ Decide("reading", Real)
TruncatedTrusted ==
  /\ trusted /\ verdict = "reading" /\ closed /\ sent < Wanted /\ have' = sent /\ Decide("fault", Real)

(* detect_untrusted_header: only peeks.  A strict prefix of the signature  *)
(* is peeked again after a pause, also when the client has closed.         *)
ClearsShort(seen) == Len(seen) < SigLen \/ ~Starts(seen, SigLen)

Clears(seen) == ~Starts(seen, SigLen)

Peek(seen) ==
  \/ Clears(seen) /\ Decide("resolved", Real)
  \/ ~Clears(seen) /\ Len(seen) >= SigLen /\ Decide("fault", Real)
PeekUntrusted ==
  /\ ~trusted /\ sent > 0 /\ have' = have
  /\ Peek(SubSeq(stream, 1, Least(sent, SigLen)))
PeekEof == ~trusted /\ closed /\ sent = 0 /\ have' = have /\ Decide("fault", Real)

(* resolve_peer's deadline.                                                *)
DeadlineEnds == have' = have /\ Decide("fault", Real)

HeaderNext == ClientSends \/ ClientCloses \/ ReadTrusted \/ TruncatedTrusted
              \/ PeekUntrusted \/ PeekEof \/ DeadlineEnds

(* What the whole stream says, whatever the pieces it comes in: the peer a *)
(* header names and where the header ends.                                 *)
Declared(s) == s[SigLen + 3]
Valid(s) ==
  /\ s \in HeaderStreams /\ Declared(s) <= MaxDeclared
  /\ \/ s[SigLen + 1] = "local"
     \/ s[SigLen + 1] = "proxy" /\ s[SigLen + 2] # "other" /\ Declared(s) >= Need(s[SigLen + 2])
  /\ Len(s) >= PrefixLen + Declared(s)
Names(s) == IF s[SigLen + 1] = "local" THEN Real
            ELSE [i \in 1..(Need(s[SigLen + 2]) \div 2) |-> s[PrefixLen + i]]

(* The address everything downstream keys on is the right one: a trusted   *)
(* peer gets through with exactly the source its header names and with     *)
(* exactly the header consumed; any other peer with its own address, no    *)
(* byte consumed, and only if it did not present a signature.              *)
PeerIsRight ==
  verdict = "resolved" =>
    IF trusted THEN Valid(stream) /\ peer = Names(stream) /\ have = PrefixLen + Declared(stream)
    ELSE peer = Real /\ have = 0 /\ ~Starts(stream, SigLen)
=============================================================================
