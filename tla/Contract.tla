------------------------------ MODULE Contract ------------------------------
(***************************************************************************)
(* The boundary between the host and a filter (crates/host/src/contract.rs *)
(* and runtime.rs): the four contract versions, what each hook of each     *)
(* version may say, and how what a guest said becomes a decision or is     *)
(* refused whole.                                                          *)
(*                                                                         *)
(* What a guest says and the decision made of it are records               *)
(*   [kind, set, remove, status, body]                                     *)
(* with kind "continue", "modified", "answer" (short-circuit or replace)   *)
(* or "fault" (a trap, a missed deadline, output that is refused).  A      *)
(* status of 0 is an edit that leaves the status alone.                    *)
(***************************************************************************)
EXTENDS HttpHeaders

CONSTANT MaxGuestBody   \* MAX_GUEST_RESPONSE_BODY_LEN

Versions == {"V01", "V02", "V03", "V04"}

(* imports: the packages and minor versions a component imports, in order. *)
detect_contract_version(imports) ==
  LET own == Only(imports, {i \in ToSet(imports) : i[1] = "plecto:filter"})
  IN IF own = <<>> THEN "none"
     ELSE CASE own[1][2] = 1 -> "V01" [] own[1][2] = 2 -> "V02"
            [] own[1][2] = 3 -> "V03" [] own[1][2] = 4 -> "V04"
            [] OTHER -> "none"

Says(kind, set, remove, status, body) ==
  [kind |-> kind, set |-> set, remove |-> remove, status |-> status, body |-> body]

Continue == Says("continue", <<>>, {}, 0, <<>>)

(* A guest call that failed; of fail_closed_response's statuses (504 past   *)
(* the deadline, 503 in a cooldown, 502) one is kept.                      *)
Fault == Says("fault", <<>>, {}, 502, <<"fault">>)

-----------------------------------------------------------------------------
(* What a guest is shown.  0.1 has strings for values: bytes that are not  *)
(* UTF-8 arrive replaced.                                                  *)
request_to(version, hs) ==
  [i \in DOMAIN hs |-> IF version = "V01" /\ hs[i] = <<"x-bin", "bytes">>
                       THEN <<"x-bin", "lossy">> ELSE hs[i]]

(* A guest that sets a header to the value it was shown.                   *)
Echoes(shown, said) ==
  [said EXCEPT !.set = [i \in DOMAIN @ |->
     IF @[i] = <<"x-bin", "shown">> THEN <<"x-bin", (Values(shown, "x-bin") \o <<"none">>)[1]>>
     ELSE @[i]]]

-----------------------------------------------------------------------------
(* A name is a non-empty token within its length, a value printable bytes  *)
(* within theirs; "bad" stands for one that is not.                        *)
validate_and_header(h) == h \notin {<<"bad", "one">>, <<"x-bin", "bad">>}

(* Hop-by-hop headers are dropped before anything is validated.            *)
DropHopByHop(hs) == Without(hs, HopByHop)

HeadersValid(said) == \A i \in DOMAIN DropHopByHop(said.set) :
  validate_and_header(DropHopByHop(said.set)[i])

names_content_length(said) == Has(said.set, "content-length")

validated_guest_status(status) == status \in 100..599

validated_guest_body(body) == Len(body) <= MaxGuestBody

request_edit_from(said) == HeadersValid(said)

response_edit_from(said) ==
  HeadersValid(said) /\ (said.status # 0 => validated_guest_status(said.status))

response_body_edit_from(said) == ~names_content_length(said) /\ HeadersValid(said)

response_from(said) ==
  HeadersValid(said) /\ validated_guest_status(said.status) /\ validated_guest_body(said.body)

(* One refused part refuses the whole decision.                            *)
Checked(said, valid) ==
  IF valid THEN [said EXCEPT !.set = DropHopByHop(@)] ELSE Fault

(* Only 0.4 can leave a body alone: the frozen versions' continue returns  *)
(* the bytes, which is an edit without header changes.                     *)
frozen_body_continue(said) == Says("modified", <<>>, {}, 0, said.body)

-----------------------------------------------------------------------------
request_decision_from(said) ==
  CASE said.kind = "modified" -> Checked(said, request_edit_from(said))
    [] said.kind = "answer" -> Checked(said, response_from(said))
    [] OTHER -> said

response_decision_from(said) ==
  CASE said.kind = "modified" -> Checked(said, response_edit_from(said))
    [] said.kind = "answer" -> Checked(said, response_from(said))
    [] OTHER -> said

request_body_decision_from(version, said) ==
  CASE said.kind = "continue" /\ version # "V04" -> frozen_body_continue(said)
    [] said.kind = "modified" -> Checked(said, HeadersValid(said))
    [] said.kind = "answer" -> Checked(said, response_from(said))
    [] OTHER -> said

response_body_decision_from(said) ==
  CASE said.kind = "modified" -> Checked(said, response_body_edit_from(said))
    [] said.kind = "answer" ->
         Checked(said, ~names_content_length(said) /\ response_from(said))
    [] OTHER -> said

(* One hook call: what the guest is shown, and what is made of its answer. *)
call_on_request(version, hs, said) ==
  request_decision_from(Echoes(request_to(version, hs), said))

call_on_response(version, hs, said) ==
  response_decision_from(Echoes(request_to(version, hs), said))

call_body_hook(version, said) == request_body_decision_from(version, said)

call_response_body_hook(said) == response_body_decision_from(said)

(* Which of these a version's types can express: replace came with 0.3,    *)
(* and the frozen body hooks answer or return bytes.                       *)
CanSay(version, hook, said) ==
  CASE hook = "on-response" -> said.kind = "answer" => version \in {"V03", "V04"}
    [] hook = "on-request-body" -> said.kind = "modified" => version = "V04"
    [] hook = "on-response-body" -> version = "V04"
    [] OTHER -> TRUE
=============================================================================
