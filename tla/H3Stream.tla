------------------------------ MODULE H3Stream ------------------------------
(***************************************************************************)
(* One HTTP/3 request stream (crates/server/src/h3/request.rs, body.rs):   *)
(* the framing of the request body as the upstream gets to see it, and the *)
(* way the response stream ends.  Bytes are counted; proxy_core is         *)
(* whatever happens between the two halves.                                *)
(***************************************************************************)
EXTENDS Integers, Sequences

CONSTANT MaxBytes        \* bound on DATA bytes either way

ASSUME BytesAssumption == MaxBytes \in Nat

Unparseable == -2
Lengths == 0..MaxBytes

VARIABLES declared,     \* the content-length fields, Unparseable for garbage
          received,     \* DATA bytes the client has sent
          fin,          \* the client ended its half: "open", "fin", "reset"
          core,         \* "parse", "proxy", "refused": 400 without proxy_core
          remaining,    \* H3ReqBody.remaining
          passed,       \* bytes given to the upstream's request body
          body,         \* that body: "open", "complete", "error"
          source,       \* the response body: "none", "open", "end", "trailers", "error", "unknown"
          sendHalf,     \* our half: "open", "finished", "dropped"
          sentTrailers

streamVars == <<declared, received, fin, core, remaining, passed, body, source, sendHalf, sentTrailers>>

None == -1
(* declared_content_length: equal values are one, anything else is a 400.  *)
FirstWins(fields) ==
  IF fields = <<>> THEN [ok |-> TRUE, n |-> None]
  ELSE [ok |-> fields[1] # Unparseable, n |-> fields[1]]

declared_content_length(fields) ==
  IF fields = <<>> THEN [ok |-> TRUE, n |-> None]
  ELSE [ok |-> \A i \in DOMAIN fields : fields[i] # Unparseable /\ fields[i] = fields[1],
        n |-> fields[1]]

StreamInit ==
  /\ declared \in UNION {[1..k -> Lengths \cup {Unparseable}] : k \in 0..2}
  /\ received = 0 /\ fin = "open" /\ core = "parse" /\ remaining = None
  /\ passed = 0 /\ body = "open" /\ source = "none" /\ sendHalf = "open" /\ sentTrailers = FALSE

ClientData ==
  /\ fin = "open" /\ received < MaxBytes /\ received' = received + 1
  /\ UNCHANGED <<declared, fin, core, remaining, passed, body, source, sendHalf, sentTrailers>>
ClientEnds ==
  /\ fin = "open" /\ fin' \in {"fin", "reset"}
  /\ UNCHANGED <<declared, received, core, remaining, passed, body, source, sendHalf, sentTrailers>>

Resolve ==
  /\ core = "parse"
  /\ LET d == declared_content_length(declared)
     IN IF d.ok THEN core' = "proxy" /\ remaining' = d.n /\ source' = source
        ELSE core' = "refused" /\ remaining' = None /\ source' = "open"
  /\ UNCHANGED <<declared, received, fin, passed, body, sendHalf, sentTrailers>>

(* H3ReqBody::poll_frame, polled by the upstream's client: all the bytes   *)
(* that are there as one frame, then the end of the stream.                *)
Polled == core = "proxy" /\ body = "open"
Frame ==
  /\ Polled /\ received > passed
  /\ LET n == received - passed
     IN IF remaining # None /\ n > remaining
        THEN body' = "error" /\ UNCHANGED <<remaining, passed>>
        ELSE /\ passed' = received /\ body' = body
             /\ remaining' = IF remaining = None THEN None ELSE remaining - n
  /\ UNCHANGED <<declared, received, fin, core, source, sendHalf, sentTrailers>>
EndOfBody ==
  /\ Polled /\ received = passed /\ fin # "open"
  /\ body' = IF fin = "reset" \/ remaining > 0 THEN "error" ELSE "complete"
  /\ UNCHANGED <<declared, received, fin, core, remaining, passed, source, sendHalf, sentTrailers>>

(* proxy_core answers, with or without the request body, and its response  *)
(* body goes on until it ends in one of its ways.                          *)
Answer ==
  /\ core = "proxy" /\ source = "none" /\ source' = "open"
  /\ UNCHANGED <<declared, received, fin, core, remaining, passed, body, sendHalf, sentTrailers>>
SourceEnds ==
  /\ source = "open" /\ source' \in {"end", "trailers", "error", "unknown"}
  /\ (core = "refused" => source' = "end")
  /\ UNCHANGED <<declared, received, fin, core, remaining, passed, body, sendHalf, sentTrailers>>

(* The send loop: finish after the end or after trailers; on an error or   *)
(* an unknown frame it returns and the unfinished half is reset.           *)
FinishClean == sendHalf' = IF source \in {"end", "trailers"} THEN "finished" ELSE "dropped"

SendEnds ==
  /\ sendHalf = "open" /\ source \notin {"none", "open"}
  /\ FinishClean /\ sentTrailers' = (source = "trailers")
  /\ UNCHANGED <<declared, received, fin, core, remaining, passed, body, source>>

StreamNext == ClientData \/ ClientEnds \/ Resolve \/ Frame \/ EndOfBody \/ Answer \/ SourceEnds \/ SendEnds

(* A request whose body reached the upstream as complete is the request    *)
(* the client framed: it ended its half, every byte was passed on, and     *)
(* their number is what every content-length field says.  And a response   *)
(* the client sees end cleanly did end cleanly, with its trailers.         *)
FramingExact ==
  /\ body = "complete" => /\ fin = "fin" /\ passed = received
                          /\ \A i \in DOMAIN declared : declared[i] = passed
  /\ sendHalf = "finished" => source \in {"end", "trailers"} /\ sentTrailers = (source = "trailers")
  /\ sendHalf = "dropped" => source \notin {"end", "trailers"}

=============================================================================
