------------------------------- MODULE Forward -------------------------------
(***************************************************************************)
(* forward_with_retry of crates/server/src/forward.rs with the decisions   *)
(* of retry.rs: one request, its attempts on the instances of a group, the *)
(* per-try and overall timeouts, the backoff between attempts.  The clock  *)
(* counts ticks since the request began and stops mattering at Horizon;    *)
(* time passes only at the two awaits, and an expired timer is served      *)
(* before the clock moves on.                                              *)
(***************************************************************************)
EXTENDS Integers, Sequences, FiniteSetsExt

CONSTANTS Instances,   \* the upstream's instances
          MaxRetries,  \* max_retries of the group
          PerTry,      \* request_timeout in ticks, 0 for none
          Overalls,    \* the overall_timeout settings considered, 0 for none
          Base, Cap,   \* RETRY_BACKOFF_BASE_MS, RETRY_BACKOFF_CAP_MS in ticks
          Horizon      \* the clock saturates here

BoundsOK ==
  /\ MaxRetries \in Nat /\ PerTry \in Nat /\ Overalls \subseteq Nat
  /\ Base \in Nat /\ Cap \in Nat \ {0} /\ Horizon \in Nat
  /\ \A o \in Overalls : Horizon > o + Cap

VARIABLES clock,       \* ticks since the request began
          overall,     \* the route's overall_timeout
          idempotent,  \* is_idempotent(method)
          body,        \* ForwardBody: "bodyless", "oneshot", "spent", "replayable"
          pc,          \* "top", "sending", "judge", "backoff" or "done"
          inst,        \* the instance of the current pick
          timer,       \* ticks left of the timeout or the sleep, or Never
          tries,       \* tries_left
          attempt,     \* attempt, the backoff exponent
          log,         \* the attempts made, see Attempt
          result       \* what the attempt in "judge" ended with; then the ForwardOutcome

vars == <<clock, overall, idempotent, body, pc, inst, timer, tries, attempt, log, result>>
policy == <<overall, idempotent, tries, attempt>>

Never == -1

Outcomes == {"ok", "gateway", "timedout", "connect", "transport"}
Returned == {"response", "overall", "pertry", "sendfailed", "buildfailed", "cancelled"}

(* One attempt: where it went, whether it carried the whole body, whether  *)
(* the upstream received the request, and what was reported about the      *)
(* instance to outlier detection ("good", "bad") or to health checking     *)
(* ("passive").                                                            *)
Attempt == [inst : Instances, whole : BOOLEAN, reached : BOOLEAN,
            report : {"none", "good", "bad", "passive"}]

TypeOK ==
  /\ clock \in 0..Horizon
  /\ overall \in Overalls
  /\ idempotent \in BOOLEAN
  /\ body \in {"bodyless", "oneshot", "spent", "replayable"}
  /\ pc \in {"top", "sending", "judge", "backoff", "done"}
  /\ inst \in Instances
  /\ timer \in Nat \cup {Never}
  /\ tries \in 0..MaxRetries
  /\ attempt \in 0..MaxRetries
  /\ log \in Seq(Attempt)
  /\ result \in Outcomes \cup Returned \cup {"none"}

Init ==
  /\ clock = 0
  /\ overall \in Overalls
  /\ idempotent \in BOOLEAN
  /\ body \in {"bodyless", "oneshot", "replayable"}
  /\ pc = "top"
  /\ inst \in Instances
  /\ timer = Never
  /\ tries = MaxRetries
  /\ attempt = 0
  /\ log = <<>>
  /\ result = "none"

Return(o) ==
  /\ pc' = "done"
  /\ result' = o
  /\ timer' = Never

-----------------------------------------------------------------------------
(* ForwardBody::replayable and attempt_body: a streamed body moves out on  *)
(* the first attempt, and a later one would carry an empty body.           *)
ReplayableAny == TRUE

Replayable == body \in {"bodyless", "replayable"}

AttemptBody == body' = IF body = "oneshot" THEN "spent" ELSE body

OverallElapsed == overall > 0 /\ clock >= overall

PerTryUnclamped == IF PerTry = 0 THEN Never ELSE PerTry

PerTryOnlyUnderDeadline ==
  IF overall = 0 THEN Never
  ELSE IF PerTry = 0 THEN overall - clock
  ELSE Min({PerTry, overall - clock})

(* per_try_timeout while the overall deadline is ahead.                    *)
PerTryTimeout ==
  IF overall = 0 THEN (IF PerTry = 0 THEN Never ELSE PerTry)
  ELSE IF PerTry = 0 THEN overall - clock
  ELSE Min({PerTry, overall - clock})

(* The top of the loop finds the overall deadline behind it.               *)
DeadlineAtTop ==
  /\ pc = "top"
  /\ OverallElapsed
  /\ Return("overall")
  /\ UNCHANGED <<clock, body, inst, policy, log>>

(* The request cannot be built: its body has already been taken.           *)
BuildFails ==
  /\ pc = "top"
  /\ ~OverallElapsed
  /\ AttemptBody
  /\ Return("buildfailed")
  /\ UNCHANGED <<clock, inst, policy, log>>

Send ==
  /\ pc = "top"
  /\ ~OverallElapsed
  /\ AttemptBody
  /\ timer' = PerTryTimeout
  /\ pc' = "sending"
  /\ log' = Append(log, [inst |-> inst, whole |-> body # "spent",
                         reached |-> FALSE, report |-> "none"])
  /\ UNCHANGED <<clock, inst, policy, result>>

Last == log[Len(log)]

(* The connection is up and the upstream has the request.                  *)
Reach ==
  /\ pc = "sending"
  /\ ~Last.reached
  /\ log' = [log EXCEPT ![Len(log)].reached = TRUE]
  /\ UNCHANGED <<clock, body, pc, inst, timer, policy, result>>

(* The send ends.  Only an upstream that has the request answers it, and a *)
(* connect error means that it has not; the timeout polls the send first,  *)
(* so an answer still wins in the tick the timer expires.                  *)
Ends(o) ==
  /\ pc = "sending"
  /\ o \in {"ok", "gateway"} => Last.reached
  /\ o = "connect" => ~Last.reached
  /\ o = "timedout" => timer = 0
  /\ pc' = "judge"
  /\ result' = o
  /\ timer' = Never
  /\ UNCHANGED <<clock, body, inst, policy, log>>

ReportTimeoutsToo ==
  log' = [log EXCEPT ![Len(log)].report =
            CASE result = "ok"                     -> "good"
              [] result \in {"gateway", "timedout"} -> "bad"
              [] result = "connect"                -> "passive"
              [] OTHER                             -> "none"]

(* record_outcome for a response, record_passive_failure for a connect     *)
(* error, nothing for a timeout or a later transport fault.                *)
Report ==
  log' = [log EXCEPT ![Len(log)].report =
            CASE result = "ok"      -> "good"
              [] result = "gateway" -> "bad"
              [] result = "connect" -> "passive"
              [] OTHER              -> "none"]

MayRetryUncounted(failure) ==
  Replayable /\ (failure = "timeout" => idempotent)

MayRetryAnyMethod(failure) ==
  Replayable /\ tries > 0

(* may_retry: a timeout or a gateway status may have had effects and needs *)
(* an idempotent method; a refused connection has not.                     *)
MayRetry(failure) ==
  Replayable /\ tries > 0 /\ (failure = "timeout" => idempotent)

(* should_attempt_retry.                                                   *)
ShouldAttemptRetry ==
  /\ ~OverallElapsed
  /\ \/ result \in {"gateway", "timedout"} /\ MayRetry("timeout")
     \/ result = "connect" /\ MayRetry("connect")

(* A timeout with the overall deadline behind it returns before anything   *)
(* else is looked at.                                                      *)
JudgeOverall ==
  /\ pc = "judge"
  /\ result = "timedout"
  /\ OverallElapsed
  /\ Return("overall")
  /\ UNCHANGED <<clock, body, inst, policy, log>>

Judging == pc = "judge" /\ ~(result = "timedout" /\ OverallElapsed)

(* What backoff may sleep: the base doubled per attempt, at most the cap,  *)
(* with full jitter.                                                       *)
Backoffs == {d \in 0..Cap : d <= Base * 2^attempt}

RetrySameInstance(i) ==
  /\ Judging
  /\ ShouldAttemptRetry
  /\ Report
  /\ inst' = i
  /\ timer' \in Backoffs
  /\ pc' = "backoff"
  /\ result' = "none"
  /\ tries' = tries - 1
  /\ attempt' = attempt + 1
  /\ UNCHANGED <<clock, overall, idempotent, body>>

(* pick_excluding finds another instance.                                  *)
Retry(i) ==
  /\ Judging
  /\ ShouldAttemptRetry
  /\ i # inst
  /\ Report
  /\ inst' = i
  /\ timer' \in Backoffs
  /\ pc' = "backoff"
  /\ result' = "none"
  /\ tries' = tries - 1
  /\ attempt' = attempt + 1
  /\ UNCHANGED <<clock, overall, idempotent, body>>

(* No retry is due, or pick_excluding found nothing eligible.              *)
GiveUp ==
  /\ Judging
  /\ Report
  /\ Return(CASE result \in {"ok", "gateway"} -> "response"
              [] result = "timedout"          -> "pertry"
              [] OTHER                        -> "sendfailed")
  /\ UNCHANGED <<clock, body, inst, policy>>

(* The backoff sleep is over.                                              *)
Wake ==
  /\ pc = "backoff"
  /\ timer = 0
  /\ pc' = "top"
  /\ timer' = Never
  /\ UNCHANGED <<clock, body, inst, policy, log, result>>

(* The client goes away at an await: the future is dropped.                *)
Cancel ==
  /\ pc \in {"sending", "backoff"}
  /\ Return("cancelled")
  /\ UNCHANGED <<clock, body, inst, policy, log>>

(* A tick of the clock, at an await whose timer has not expired.           *)
Tick ==
  /\ pc \in {"sending", "backoff"}
  /\ timer # 0
  /\ clock' = Min({clock + 1, Horizon})
  /\ timer' = IF timer = Never THEN Never ELSE timer - 1
  /\ UNCHANGED <<body, pc, inst, policy, log, result>>

Terminated == pc = "done" /\ UNCHANGED vars

Next ==
  \/ DeadlineAtTop \/ BuildFails \/ Send \/ Reach
  \/ \E o \in Outcomes : Ends(o)
  \/ JudgeOverall \/ GiveUp \/ Wake \/ Cancel \/ Tick \/ Terminated
  \/ \E i \in Instances : Retry(i)

Spec == Init /\ [][Next]_vars

(* The task is polled, and time passes; nothing makes an upstream answer.  *)
Fairness ==
  /\ WF_vars(DeadlineAtTop \/ BuildFails \/ Send)
  /\ WF_vars(JudgeOverall \/ GiveUp \/ \E i \in Instances : Retry(i))
  /\ WF_vars(Wake) /\ WF_vars(Tick) /\ WF_vars(Ends("timedout"))

FairSpec == Spec /\ Fairness

-----------------------------------------------------------------------------
(* A request that is not idempotent is received by at most one upstream,   *)
(* whatever mix of timeouts, gateway statuses and connect errors its       *)
(* attempts meet (retry.rs:27-31).                                         *)
AtMostOnce ==
  idempotent \/ \A a, b \in DOMAIN log :
                  log[a].reached /\ log[b].reached => a = b

(* Every attempt carries the body the client sent: a stream that has moved *)
(* out is never followed by an attempt with an empty body (forward.rs:79). *)
BodyWhole == \A a \in DOMAIN log : log[a].whole

(* Retries go to a different instance than the attempt before, and there   *)
(* are at most max_retries of them.                                        *)
RetriesElsewhere ==
  /\ Len(log) <= MaxRetries + 1
  /\ \A a \in 2..Len(log) : log[a].inst # log[a - 1].inst

(* No attempt is on the wire after the overall deadline, and the request   *)
(* ends at most one backoff after it.                                      *)
DeadlineWithSlack ==
  overall > 0 => /\ pc = "sending" => clock <= overall
                 /\ clock < overall + Cap

(* An instance is blamed for a gateway status only if it had the request,  *)
(* and for a refused connection only if it had not.                        *)
BlameIsDue ==
  \A a \in DOMAIN log : /\ log[a].report \in {"good", "bad"} => log[a].reached
                        /\ log[a].report = "passive" => ~log[a].reached

(* overall_timeout bounds the whole transaction, "every attempt PLUS the   *)
(* backoff between them": the request is over when the deadline passes.    *)
(* Refuted: the backoff sleep is not cut short by the deadline.            *)
AnsweredByDeadline == overall > 0 => clock <= overall

(* A forward with a timeout configured ends, silent upstreams or not.      *)
ForwardEnds == <>(pc = "done")
=============================================================================
