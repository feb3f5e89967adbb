------------------------------ MODULE HostCalls ------------------------------
(***************************************************************************)
(* What a guest says during a hook call and where it goes: the host-log    *)
(* buffer and its line budget (crates/host/src/state.rs), the bridge that  *)
(* turns a WASI guest's stdout and stderr into lines under a byte budget   *)
(* (stdio.rs), the reset and the two drains around a call (pool.rs), the   *)
(* span the lines become events of (filter.rs) and the sinks (observe.rs). *)
(* A byte is the number of the call that wrote it, 0 for init, or NL; a    *)
(* filter runs one call at a time here, on a pooled or a fresh instance.   *)
(***************************************************************************)
EXTENDS Integers, Sequences, SequencesExt, FiniteSetsExt

CONSTANTS MaxLines,   \* MAX_LOG_LINES_PER_REQUEST
          MaxLine,    \* MAX_STDIO_LINE_BYTES
          MaxBytes,   \* MAX_STDIO_BYTES_PER_REQUEST
          MaxUses,    \* max_requests_per_instance
          Retained,   \* MAX_RETAINED_SPANS
          MaxCalls,   \* bound on the calls of a behaviour
          MaxSaid,    \* bound on the host calls of a behaviour
          Sinks,      \* the compositions of TelemetrySinks a host may be given
          NoGuest, NoCall

VARIABLES
  lent,    \* how the filter was loaded: trusted, wasi, and the host's sinks
  guest,   \* the HostState of the instance in hand or idle
  call,    \* the hook call under way (history: what the guest has said in it)
  said,    \* host calls guests have made so far
  made,    \* calls begun so far
  ring,    \* InMemorySink::spans
  counts   \* MetricsSink

callVars == <<lent, guest, call, said, made, ring, counts>>

NL == -1
Kinds == {"stdout", "stderr"}

(* History: how much text a call's guest wrote to each stream, whether a   *)
(* line was too long, and whether the instance lives on.                   *)
Heard == [text : [Kinds -> Nat], cut : BOOLEAN, kept : BOOLEAN]

(* The budgets of a call's output and the ring of spans hold something.    *)
ASSUME OutputAssumption ==
  /\ MaxLines \in Nat \ {0} /\ MaxLine \in Nat \ {0} /\ MaxBytes \in Nat
  /\ Retained \in Nat \ {0} /\ NoCall \notin Heard

Line(from, bytes) == [from |-> from, bytes |-> bytes]

(* sanitize_log_message: the cut at the cap (control characters are data). *)
sanitize(bytes, max) == SubSeq(bytes, 1, Min({max, Len(bytes)}))

-----------------------------------------------------------------------------
(* LineCountBudget::admit, into HostState::logs: the last slot is a marker. *)
LogAdmit(g, bytes) ==
  CASE g.count < MaxLines - 1 ->
         [g EXCEPT !.count = @ + 1, !.logs = Append(@, Line("log", bytes))]
    [] g.count = MaxLines - 1 ->
         [g EXCEPT !.count = @ + 1, !.logs = Append(@, Line("logs cut", <<>>))]
    [] OTHER -> g

(* ByteBudget::admit into pending: an empty line costs a byte, and after   *)
(* the one marker every further line is dropped.                           *)
admit_line(g, kind, raw) ==
  LET text == sanitize(raw, MaxLine)
      cost == Max({1, Len(text)})
  IN CASE g.warned -> g
       [] ~g.warned /\ cost > g.left ->
            [g EXCEPT !.warned = TRUE, !.pending = Append(@, Line("stdio cut", <<>>))]
       [] OTHER ->
            [g EXCEPT !.left = @ - cost, !.pending = Append(@, Line(kind, text))]

(* StdioBridgeInner::write: the buffered line and the new bytes, split at  *)
(* every newline; a remainder past the cap becomes a line of its own.      *)
Scan(kind, acc, b) ==
  IF b = NL THEN [g |-> admit_line(acc.g, kind, acc.cur), cur |-> <<>>]
            ELSE [acc EXCEPT !.cur = Append(@, b)]

Split(g, kind, bytes) ==
  FoldLeft(LAMBDA acc, b : Scan(kind, acc, b), [g |-> g, cur |-> <<>>], bytes)

write(g, kind, bytes) ==
  LET end == Split(g, kind, g.partial[kind] \o bytes)
  IN IF Len(end.cur) > MaxLine
     THEN [admit_line(end.g, kind, end.cur) EXCEPT !.partial[kind] = <<>>]
     ELSE [end.g EXCEPT !.partial[kind] = end.cur]

(* flush_partial                                                           *)
flush_partial(g, kind) ==
  IF g.partial[kind] = <<>> THEN g
  ELSE [admit_line(g, kind, g.partial[kind]) EXCEPT !.partial[kind] = <<>>]

(* drain and drain_final                                                   *)
drain(g) == [g EXCEPT !.pending = <<>>, !.logs = @ \o g.pending]
drain_final(g) == drain(flush_partial(flush_partial(g, "stdout"), "stderr"))

(* HostState::take_logs, for an instance that goes back to idle: the lines *)
(* it hands over, host-log's first.                                        *)
take_logs(g) == drain(g).logs

(* HostState::take_logs_final, for an instance about to be discarded.      *)
take_logs_final(g) == drain_final(g).logs

(* HostState::new                                                          *)
NewHostState ==
  [uses |-> 0, logs |-> <<>>, count |-> 0, partial |-> [k \in Kinds |-> <<>>],
   pending |-> <<>>, left |-> MaxBytes, warned |-> FALSE]

ResetKeepsPartial(g) ==
  [g EXCEPT !.logs = <<>>, !.count = 0, !.pending = <<>>, !.left = MaxBytes,
            !.warned = FALSE]

(* HostState::begin_request and StdioBridgeInner::begin_request            *)
begin_request(g) == [NewHostState EXCEPT !.uses = g.uses]

-----------------------------------------------------------------------------
(* TelemetrySink::enabled: NoopSink is off, FanOutSink on if any child is. *)
enabled == lent.sinks # {}

Errors == {"trap", "instantiate-error"}

(* build_filter_span; heard is history: what the guest said, and whether   *)
(* the host kept it for more.                                              *)
build_filter_span(n, outcome, events, heard) ==
  [call |-> n, outcome |-> outcome, events |-> events, heard |-> heard]

(* InMemorySink drops its oldest span.                                     *)
Remember(span) == Append(IF Len(ring) >= Retained THEN Tail(ring) ELSE ring, span)

Count(outcome) ==
  [counts EXCEPT !.total = @ + 1,
                 !.errors = @ + (IF outcome \in Errors THEN 1 ELSE 0),
                 !.short_circuits = @ + (IF outcome = "short-circuit" THEN 1 ELSE 0)]

(* FanOutSink hands the span to every child.                               *)
exports(sink) == enabled /\ sink \in lent.sinks

(* emit_span: one span for the call, if some sink wants it, whatever the   *)
(* outcome.                                                                *)
Emit(n, outcome, events, heard) ==
  /\ ring' = IF exports("memory")
             THEN Remember(build_filter_span(n, outcome, events, heard)) ELSE ring
  /\ counts' = IF exports("metrics") THEN Count(outcome) ELSE counts

(* What a guest has said and the host has not dropped.                     *)
LinesOf(events, kinds) == {i \in DOMAIN events : events[i].from \in kinds}

BytesOf(events, kinds) ==
  SumFunctionOnSet([i \in DOMAIN events |-> Len(events[i].bytes)], LinesOf(events, kinds))

InHand(g) == [k \in Kinds |-> BytesOf(g.pending, {k}) + Len(g.partial[k])]

Unheard == [text |-> [k \in Kinds |-> 0], cut |-> FALSE, kept |-> FALSE]

-----------------------------------------------------------------------------
(* A guest's init may log and may leave a line unfinished.                 *)
InitOutput ==
  {NewHostState, LogAdmit(NewHostState, <<0>>)}
    \cup IF lent.wasi THEN {write(NewHostState, "stdout", <<0>>)} ELSE {}

(* run_hook up to the guest call: run_pooled resets the instance it checks *)
(* out, run_fresh keeps what init of its single-use instance said.         *)
BeginCall ==
  /\ call = NoCall /\ made < MaxCalls
  /\ made' = made + 1
  /\ \E built \in IF guest = NoGuest THEN InitOutput ELSE {guest} :
       LET g == IF lent.trusted THEN begin_request(built) ELSE built IN
       /\ guest' = g
       /\ call' = [Unheard EXCEPT !.text = InHand(g)]
  /\ UNCHANGED <<lent, said, ring, counts>>

(* instantiate_initialized fails: a span with nothing to recover.          *)
InstantiateFails ==
  /\ call = NoCall /\ made < MaxCalls /\ guest = NoGuest
  /\ made' = made + 1
  /\ Emit(made + 1, "instantiate-error", <<>>, Unheard)
  /\ UNCHANGED <<lent, guest, call, said>>

(* host_log::Host::log                                                     *)
HostLog ==
  /\ call # NoCall /\ said < MaxSaid
  /\ guest' = LogAdmit(guest, <<made>>)
  /\ said' = said + 1
  /\ UNCHANGED <<lent, call, made, ring, counts>>

(* What a guest hands to one write of a stream: part of a line, a line's   *)
(* end, an empty line, and one byte more than a line can hold.             *)
Chunks(n) == {<<n>>, <<n, NL>>, <<NL>>, [i \in 1..(MaxLine + 1) |-> n]}

(* How much of a chunk is text.                                            *)
Text(bytes) == Cardinality({i \in DOMAIN bytes : bytes[i] # NL})

(* StdioStream's OutputStream::write and AsyncWrite::poll_write            *)
StdioWrite(kind, bytes) ==
  /\ call # NoCall /\ lent.wasi /\ said < MaxSaid
  /\ guest' = write(guest, kind, bytes)
  /\ said' = said + 1
  /\ call' = [call EXCEPT !.text[kind] = @ + Text(bytes),
                          !.cut = @ \/ Len(guest.partial[kind]) + Text(bytes) > MaxLine]
  /\ UNCHANGED <<lent, made, ring, counts>>

-----------------------------------------------------------------------------
(* The call returns and the instance goes back to idle.                    *)
ReturnAndKeep(decision) ==
  /\ call # NoCall /\ lent.trusted /\ guest.uses + 1 < MaxUses
  /\ Emit(made, decision, take_logs(guest), [call EXCEPT !.kept = TRUE])
  /\ guest' = [drain(guest) EXCEPT !.uses = @ + 1, !.logs = <<>>]
  /\ call' = NoCall
  /\ UNCHANGED <<lent, said, made>>

(* The call returns on an instance's last use: a pooled one is recycled, a *)
(* fresh one is always used once.                                          *)
ReturnAndDiscard(decision) ==
  /\ call # NoCall
  /\ ~lent.trusted \/ guest.uses + 1 >= MaxUses
  /\ Emit(made, decision, take_logs_final(guest), call)
  /\ guest' = NoGuest
  /\ call' = NoCall
  /\ UNCHANGED <<lent, said, made>>

(* The guest traps or runs past its deadline: its lines are recovered      *)
(* before the instance is dropped.                                         *)
CallTraps ==
  /\ call # NoCall
  /\ Emit(made, "trap", take_logs_final(guest), call)
  /\ guest' = NoGuest
  /\ call' = NoCall
  /\ UNCHANGED <<lent, said, made>>

(* What a hook may decide, as its span tells it.                           *)
Decisions == {"continue", "short-circuit"}

CallInit ==
  /\ lent \in [trusted : BOOLEAN, wasi : BOOLEAN, sinks : Sinks]
  /\ guest = NoGuest /\ call = NoCall /\ said = 0 /\ made = 0
  /\ ring = <<>>
  /\ counts = [total |-> 0, errors |-> 0, short_circuits |-> 0]

(* The bound on calls is reached.                                          *)
CallsMade == call = NoCall /\ made = MaxCalls /\ UNCHANGED callVars

CallNext ==
  \/ CallsMade \/ BeginCall \/ InstantiateFails \/ HostLog \/ CallTraps
  \/ \E kind \in Kinds, bytes \in Chunks(made) : StdioWrite(kind, bytes)
  \/ \E decision \in Decisions :
       ReturnAndKeep(decision) \/ ReturnAndDiscard(decision)

-----------------------------------------------------------------------------

(* A span tells one call's story, whole.  Every byte in its events was     *)
(* written by that call (or by the init of its single-use instance), also  *)
(* when a pooled instance was left mid-line by an earlier call; the lines  *)
(* stay inside the two budgets; and when the instance is gone afterwards   *)
(* nothing it said is missing, a last unfinished line included, unless a   *)
(* marker or an overlong line says so.                                     *)
TellsOne(span) ==
  LET own == {span.call} \cup IF lent.trusted THEN {} ELSE {0}
  IN /\ \A j \in DOMAIN span.events : ToSet(span.events[j].bytes) \subseteq own
     /\ BytesOf(span.events, Kinds) <= MaxBytes
     /\ Cardinality(LinesOf(span.events, {"log", "logs cut"})) <= MaxLines
     /\ \/ span.heard.kept \/ span.heard.cut
        \/ LinesOf(span.events, {"stdio cut"}) # {}
        \/ \A kind \in Kinds : BytesOf(span.events, {kind}) = span.heard.text[kind]

OwnOutput == \A i \in DOMAIN ring : TellsOne(ring[i])
=============================================================================
