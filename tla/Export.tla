------------------------------- MODULE Export -------------------------------
(***************************************************************************)
(* The span queue and its export pump (OtlpBuffer of                       *)
(* crates/host/src/otlp.rs, crates/server/src/otlp.rs), beside the server  *)
(* it reports on: requests end, each pushes a span, and the shutdown that  *)
(* makes the pump flush also lets the requests in flight finish.           *)
(* Spans are counted, not told apart; an attempt is one step, or two when  *)
(* the collector takes the batch.  The second half is the request counters *)
(* of crates/server/src/metrics.rs, which requests that end side by side   *)
(* and a scrape register and read without a lock.                          *)
(***************************************************************************)
EXTENDS Integers, Sequences, FiniteSets

CONSTANTS Capacity, MaxBatch, MaxAttempts,
          MaxSpans,      \* bound on the requests that end
          RouteNames, Unmatched,      \* the names of routes, and the label of no route
          Tasks, MaxRuns, MaxScrapes  \* connection tasks; bounds on what is started

ASSUME ExportAssumption ==
  {Capacity, MaxBatch, MaxAttempts} \subseteq Nat \ {0} /\ IsFiniteSet(Tasks)

VARIABLES server,     \* "up", "draining", "returned"
          pushed,     \* sampled spans handed to the buffer
          queue, dropped,     \* the buffer: its length and its loss counter
          pump,       \* "waiting", "export", "flush"; "over", or "cut" by the flush deadline
          batch, attempt,     \* the batch drained from the queue and the attempt it is on
          reading,    \* its 200 is here and the body is being collected, under no timeout
          delivered   \* spans the collector took

exportVars == <<server, pushed, queue, dropped, pump, batch, attempt, reading, delivered>>

ExportInit ==
  /\ server = "up" /\ pushed = 0 /\ queue = 0 /\ dropped = 0
  /\ pump = "waiting" /\ batch = 0 /\ attempt = 0 /\ reading = FALSE /\ delivered = 0

(* OtlpBuffer::push: at capacity the incoming span is dropped.  A span     *)
(* that was not sampled is not pushed.                                     *)
Room == queue < Capacity
push ==
  /\ server # "returned" /\ pushed < MaxSpans /\ pushed' = pushed + 1
  /\ IF Room THEN queue' = queue + 1 /\ dropped' = dropped
     ELSE queue' = queue /\ dropped' = dropped + 1
  /\ UNCHANGED <<server, pump, batch, attempt, reading, delivered>>

(* A tick exports until the queue is empty, the drain flushes it the same  *)
(* way with a single attempt per batch.  The flag is not looked at during  *)
(* a tick's export.                                                        *)
Wake ==
  /\ pump = "waiting"
  /\ \/ pump' = "export"
     \/ server # "up" /\ pump' = "flush"
  /\ UNCHANGED <<server, pushed, queue, dropped, batch, attempt, reading, delivered>>
Exporting == pump \in {"export", "flush"}
Drained == IF queue < MaxBatch THEN queue ELSE MaxBatch
TakeBatch ==
  /\ Exporting /\ batch = 0 /\ queue > 0
  /\ batch' = Drained /\ queue' = queue - Drained /\ attempt' = 1
  /\ UNCHANGED <<server, pushed, dropped, pump, reading, delivered>>
Emptied ==
  /\ Exporting /\ batch = 0 /\ queue = 0
  /\ pump' = IF pump = "flush" THEN "over" ELSE "waiting"
  /\ UNCHANGED <<server, pushed, queue, dropped, batch, attempt, reading, delivered>>

(* One attempt: accepted, refused for good, or worth another try.          *)
Sent == Exporting /\ batch > 0 /\ ~reading
Accepted ==
  /\ Sent /\ reading' = TRUE
  /\ UNCHANGED <<server, pushed, queue, dropped, pump, batch, attempt, delivered>>
BodyCollected ==
  /\ reading /\ reading' = FALSE
  /\ delivered' = delivered + batch /\ batch' = 0 /\ attempt' = 0
  /\ UNCHANGED <<server, pushed, queue, dropped, pump>>
GiveUpUncounted ==
  /\ batch' = 0 /\ attempt' = 0
  /\ dropped' = dropped + (IF attempt < MaxAttempts THEN batch ELSE 0)

GiveUp == batch' = 0 /\ attempt' = 0 /\ dropped' = dropped + batch

Rejected == Sent /\ GiveUp /\ UNCHANGED <<server, pushed, queue, pump, reading, delivered>>
Attempts == IF pump = "flush" THEN 1 ELSE MaxAttempts
Retryable ==
  /\ Sent
  /\ IF attempt < Attempts THEN attempt' = attempt + 1 /\ UNCHANGED <<batch, dropped>> ELSE GiveUp
  /\ UNCHANGED <<server, pushed, queue, pump, reading, delivered>>

(* The flush deadline drops the future with the batch it had drained, and  *)
(* counts what is still queued.                                            *)
FlushExpires ==
  /\ pump = "flush" /\ pump' = "cut"
  /\ dropped' = dropped + queue /\ batch' = 0 /\ attempt' = 0 /\ reading' = FALSE
  /\ UNCHANGED <<server, pushed, queue, delivered>>

(* serve_inner: the drain flag, and the return once the connections are    *)
(* home and the pump has been waited for, both for a bounded time.         *)
DrainStarts ==
  /\ server = "up" /\ server' = "draining"
  /\ UNCHANGED <<pushed, queue, dropped, pump, batch, attempt, reading, delivered>>
ServeReturns ==
  /\ server = "draining" /\ server' = "returned"
  /\ UNCHANGED <<pushed, queue, dropped, pump, batch, attempt, reading, delivered>>

ExportNext == push \/ Wake \/ TakeBatch \/ Emptied \/ Accepted \/ BodyCollected \/ Rejected \/ Retryable
              \/ FlushExpires \/ DrainStarts \/ ServeReturns

(* Until a flush is cut short, every span is waiting, on its way,          *)
(* delivered or counted as lost, and none in two of them: a batch is       *)
(* neither counted twice by its retries nor forgotten when they run out.   *)
SpansAccounted == pump # "cut" => pushed = queue + batch + delivered + dropped

(* The queue is flushed before serve returns: no span of a request this    *)
(* server answered is left in it, unless the flush ran out of time.        *)
FlushedAtReturn == server = "returned" /\ pump = "over" => queue = 0

-----------------------------------------------------------------------------
VARIABLES registry,   \* ServerMetrics.routes: a name's counters, 0 when it has none
          cells,      \* every RouteCounters ever made, by name
          observed,   \* the observations of the duration histogram
          gauge,      \* in_flight
          task,       \* the request a connection task is in, and where it is with its counters
          scrape,     \* the scrape of the admin endpoint
          happened    \* history: [runs, scrapes] started and the requests ended; per name, those
                      \* ended and refused by a rate limit, and what the last scrape showed

metricVars == <<registry, cells, observed, gauge, task, scrape, happened>>

Labels == RouteNames \cup {Unmatched}
Zero == [ended |-> 0, limited |-> 0]
IdleTask == [at |-> "idle"]
Serving == [at |-> "serving"]
Recording(t) == task[t].at \in {"load", "rcu", "reload", "add"}

MetricsInit ==
  /\ registry = [n \in Labels |-> IF n = Unmatched THEN 1 ELSE 0]
  /\ cells = [n \in Labels |-> IF n = Unmatched THEN <<Zero>> ELSE <<>>]
  /\ observed = 0 /\ gauge = 0
  /\ task = [t \in Tasks |-> IdleTask]
  /\ scrape = [at |-> "idle"]
  /\ happened = [runs |-> 0, scrapes |-> 0, total |-> 0, recorded |-> [n \in Labels |-> Zero],
                 shown |-> [n \in Labels |-> Zero]]

(* ArcSwap::rcu: the closure adds the missing names to the map it read,    *)
(* and starts over on a map that another task replaced in between.         *)
Registered(map, names) ==
  [n \in Labels |-> IF n \in names /\ map[n] = 0 THEN Len(cells[n]) + 1 ELSE map[n]]
Install(map, names) ==
  /\ registry' = Registered(map, names)
  /\ cells' = [n \in Labels |-> IF n \in names /\ map[n] = 0 THEN Append(cells[n], Zero)
                                 ELSE cells[n]]

(* proxy_core_with_conn_guards: the gauge follows a guard, so that a       *)
(* dropped future leaves it too.  A request refused at admission is        *)
(* recorded without entering it.                                           *)
Begin(t) ==
  /\ task[t] = IdleTask /\ happened.runs < MaxRuns
  /\ happened' = [happened EXCEPT !.runs = @ + 1]
  /\ task' = [task EXCEPT ![t] = Serving] /\ gauge' = gauge + 1
  /\ UNCHANGED <<registry, cells, observed, scrape>>
Looking(n, limit, adds) == [at |-> "load", name |-> n, limit |-> limit, adds |-> adds]
Record(t, n) ==
  /\ happened' = [happened EXCEPT !.total = @ + 1, !.recorded[n].ended = @ + 1]
  /\ task' = [task EXCEPT ![t] = Looking(n, FALSE, {"ended", "duration"})]
Overloaded(t) ==
  /\ task[t] = IdleTask /\ happened.runs < MaxRuns
  /\ task' = [task EXCEPT ![t] = Looking(Unmatched, FALSE, {"ended", "duration"})]
  /\ happened' = [happened EXCEPT !.runs = @ + 1, !.total = @ + 1,
                                  !.recorded[Unmatched].ended = @ + 1]
  /\ UNCHANGED <<registry, cells, observed, gauge, scrape>>
End(t, n) ==
  /\ task[t] = Serving /\ Record(t, n) /\ gauge' = gauge - 1
  /\ UNCHANGED <<registry, cells, observed, scrape>>
Cancel(t) ==
  /\ task[t] = Serving /\ task' = [task EXCEPT ![t] = IdleTask] /\ gauge' = gauge - 1
  /\ UNCHANGED <<registry, cells, observed, scrape, happened>>

(* A route's rate limit counts the refusal first, then the request ends.   *)
RateLimited(t, n) ==
  /\ task[t] = Serving
  /\ task' = [task EXCEPT ![t] = Looking(n, TRUE, {"limited"})]
  /\ happened' = [happened EXCEPT !.recorded[n].limited = @ + 1]
  /\ UNCHANGED <<registry, cells, observed, gauge, scrape>>

(* counters, insert_route_lazy: look the name up, on a miss register it    *)
(* and look again.                                                         *)
Adding(k) == [at |-> "add", name |-> k.name, limit |-> k.limit, adds |-> k.adds,
              cell |-> registry[k.name]]
Counters(t) ==
  /\ task[t].at = "load"
  /\ task' = [task EXCEPT ![t] =
       IF registry[@.name] # 0 THEN Adding(@)
       ELSE [at |-> "rcu", name |-> @.name, limit |-> @.limit, adds |-> @.adds, map |-> registry]]
  /\ UNCHANGED <<registry, cells, observed, gauge, scrape, happened>>

(* The map is written back without looking whether it is still the one     *)
(* that was read.                                                          *)
RegisterLazilyBlind(t) ==
  /\ task[t].at = "rcu" /\ Install(task[t].map, {task[t].name})
  /\ task' = [task EXCEPT ![t].at = "reload"]
  /\ UNCHANGED <<observed, gauge, scrape, happened>>

RegisterLazily(t) ==
  /\ task[t].at = "rcu"
  /\ IF registry = task[t].map
     THEN Install(registry, {task[t].name}) /\ task' = [task EXCEPT ![t].at = "reload"]
     ELSE task' = [task EXCEPT ![t].map = registry] /\ UNCHANGED <<registry, cells>>
  /\ UNCHANGED <<observed, gauge, scrape, happened>>

LookAgain(t) ==
  /\ task[t].at = "reload"
  /\ task' = [task EXCEPT ![t] = Adding(@)]
  /\ UNCHANGED <<registry, cells, observed, gauge, scrape, happened>>

(* record_request, Histogram::observe: relaxed increments of separate      *)
(* atomics, seen by others in any order.  A cell that is not in the        *)
(* registry is a fresh one that nobody else can see.                       *)
Bump(t, what) ==
  LET k == task[t] IN
  /\ k.at = "add" /\ what \in k.adds
  /\ IF what \in {"ended", "limited"} /\ k.cell # 0
     THEN cells' = [cells EXCEPT ![k.name][k.cell][what] = @ + 1] ELSE UNCHANGED cells
  /\ observed' = observed + (IF what = "duration" THEN 1 ELSE 0)
  /\ task' = [task EXCEPT ![t].adds = @ \ {what}]
  /\ UNCHANGED <<registry, gauge, scrape, happened>>
Recorded(t) ==
  /\ task[t].at = "add" /\ task[t].adds = {}
  /\ IF task[t].limit THEN Record(t, task[t].name) /\ gauge' = gauge - 1
     ELSE task' = [task EXCEPT ![t] = IdleTask] /\ UNCHANGED <<gauge, happened>>
  /\ UNCHANGED <<registry, cells, observed, scrape>>

(* admin_handle: the active configuration's names are registered, then     *)
(* render loads the map once and reads each series of it.                  *)
Scrape(names) ==
  /\ scrape.at = "idle" /\ happened.scrapes < MaxScrapes
  /\ happened' = [happened EXCEPT !.scrapes = @ + 1]
  /\ scrape' = IF \A n \in names : registry[n] # 0 THEN [at |-> "render"]
               ELSE [at |-> "rcu", names |-> names, map |-> registry]
  /\ UNCHANGED <<registry, cells, observed, gauge, task>>
RegisterRoutes ==
  /\ scrape.at = "rcu"
  /\ IF registry = scrape.map
     THEN Install(registry, scrape.names) /\ scrape' = [at |-> "render"]
     ELSE scrape' = [scrape EXCEPT !.map = registry] /\ UNCHANGED <<registry, cells>>
  /\ UNCHANGED <<observed, gauge, task, happened>>
RenderLoads ==
  /\ scrape.at = "render" /\ scrape' = [at |-> "read", map |-> registry]
  /\ UNCHANGED <<registry, cells, observed, gauge, task, happened>>
Render ==
  /\ scrape.at = "read" /\ scrape' = [at |-> "idle"]
  /\ happened' = [happened EXCEPT !.shown =
       [n \in Labels |-> IF scrape.map[n] = 0 THEN Zero ELSE cells[n][scrape.map[n]]]]
  /\ UNCHANGED <<registry, cells, observed, gauge, task>>

MetricsNext ==
  \/ \E t \in Tasks :
       \/ Begin(t) \/ Overloaded(t) \/ Cancel(t)
       \/ \E n \in Labels : End(t, n)
       \/ \E n \in RouteNames : RateLimited(t, n)
       \/ Counters(t) \/ RegisterLazily(t) \/ LookAgain(t)
       \/ \E what \in {"ended", "limited", "duration"} : Bump(t, what)
       \/ Recorded(t)
  \/ \E names \in SUBSET RouteNames : Scrape(names)
  \/ RegisterRoutes \/ RenderLoads \/ Render

(* No request is lost between the tasks that register names side by side:  *)
(* what ended, or was refused by a limit, is in the counters the next      *)
(* scrape reads or about to be, a request that ended is in the histogram   *)
(* once or about to be, a series never shrinks, and the gauge is the       *)
(* number of requests being served.                                        *)
Series(n) == IF registry[n] = 0 THEN Zero ELSE cells[n][registry[n]]
Pending(n, what) == {t \in Tasks : Recording(t) /\ task[t].name = n /\ what \in task[t].adds}
CountersKept ==
  /\ \A n \in Labels, what \in {"ended", "limited"} :
       /\ happened.recorded[n][what] = Series(n)[what] + Cardinality(Pending(n, what))
       /\ happened.shown[n][what] <= Series(n)[what]
  /\ happened.total
       = observed + Cardinality({t \in Tasks : Recording(t) /\ "duration" \in task[t].adds})
  /\ gauge = Cardinality({t \in Tasks : task[t] = Serving \/ (Recording(t) /\ task[t].limit)})
=============================================================================
