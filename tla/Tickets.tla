------------------------------ MODULE Tickets -------------------------------
(***************************************************************************)
(* Session tickets: which key seals and opens them, and the lazy reload of *)
(* a shared key file (crates/control/src/stek.rs, the ticketers of         *)
(* crates/control/src/tls.rs).  A build of the configuration pins a        *)
(* context [certs, ca, stek]; handshakes keep the build they began with,   *)
(* and clients keep the tickets of every build.  Ages are in ticks since a *)
(* file time and stop at one past MaxAge.                                  *)
(***************************************************************************)
EXTENDS Integers, FiniteSets, Sequences

CONSTANTS Threads, Keys, Contexts, NoKey, Broken,
          MaxAge,              \* max_age_hours
          MaxBuilds, MaxWrites

Ages == 0..(MaxAge + 1)

ASSUME TicketsAssumption ==
  /\ NoKey \notin Keys /\ Broken \notin Keys /\ MaxAge \in Nat
  /\ NoKey \notin [body : Keys, age : Ages]

(* build_server_configs refuses a shared key file beside client            *)
(* authentication.                                                         *)
ASSUME ContextsAssumption ==
  \A ctx \in Contexts : ctx.stek \in BOOLEAN /\ (ctx.stek => ctx.ca = NoKey)

VARIABLES file,      \* [body, age]; Broken stands for any unusable file
          builds,    \* the builds so far: [ctx, current, previous, due]
          hand,      \* each thread's handshake
          held,      \* tickets clients hold: [key, ctx]
          since,     \* history: age of the last write of each key
          writes

ticketVars == <<file, builds, hand, held, since, writes>>

Older(age) == IF age > MaxAge THEN age ELSE age + 1
Derived(body, age) == [body |-> body, age |-> age]
FreshKeys(k) == k # NoKey /\ k.age <= MaxAge
Sealing(k) == k # NoKey

(* Which producer a context uses, and the key it seals with: the shared    *)
(* file's, bound to the certificates; one per client CA; or the process's. *)
BoundTo(body, ctx) == <<"stek", body, ctx.certs>>
TicketerIgnoresCa(ctx, k) == IF ctx.stek THEN BoundTo(k.body, ctx) ELSE <<"node">>
Ticketer(ctx, k) ==
  IF ctx.stek THEN BoundTo(k.body, ctx)
  ELSE IF ctx.ca # NoKey THEN <<"ca", ctx.ca>> ELSE <<"node">>

(* from_manifest reads the file; an unusable one fails the build.          *)
Built(ctx) == [ctx |-> ctx, previous |-> NoKey, due |-> FALSE,
               current |-> IF ctx.stek THEN Derived(file.body, file.age) ELSE NoKey]
Buildable(ctx) == ctx.stek => file.body # Broken

Idle == [pc |-> "idle"]
Step(t, h) == hand' = [hand EXCEPT ![t] = h]
To(t, pc) == Step(t, [hand[t] EXCEPT !.pc = pc])
Mine(t) == builds[hand[t].build]

TicketsInit ==
  /\ file \in [body : Keys, age : {0}] /\ writes = 0
  /\ \E ctx \in Contexts : builds = <<Built(ctx)>>
  /\ hand = [t \in Threads |-> Idle] /\ held = {}
  /\ since = [k \in Keys |-> IF k = file.body THEN 0 ELSE MaxAge + 1]

(* A client connects: the handshake takes the active configuration and,    *)
(* under a shared file, maybe_reload looks whether the interval has passed *)
(* (one step: only the compare-and-swap that follows decides).             *)
Connect(t) ==
  /\ hand[t].pc = "idle"
  /\ Step(t, [pc |-> IF builds[Len(builds)].due THEN "claim" ELSE "use", build |-> Len(builds)])
  /\ UNCHANGED <<file, builds, held, since, writes>>

(* One thread wins the compare-and-swap; the others' expected value is     *)
(* gone and they go on with the keys there are.                            *)
Claim(t) ==
  /\ hand[t].pc = "claim"
  /\ builds' = [builds EXCEPT ![hand[t].build].due = FALSE]
  /\ hand' = [u \in Threads |->
       IF u = t THEN [hand[t] EXCEPT !.pc = "stat"]
       ELSE IF hand[u].pc = "claim" /\ hand[u].build = hand[t].build
       THEN [hand[u] EXCEPT !.pc = "use"] ELSE hand[u]]
  /\ UNCHANGED <<file, held, since, writes>>

(* read_and_derive: the time of the file, then its bytes.                  *)
Stat(t) ==
  /\ hand[t].pc = "stat"
  /\ Step(t, IF file.body = Broken
             THEN [pc |-> "install", build |-> hand[t].build, read |-> NoKey]
             ELSE [pc |-> "read", build |-> hand[t].build, age |-> file.age])
  /\ UNCHANGED <<file, builds, held, since, writes>>

Read(t) ==
  /\ hand[t].pc = "read"
  /\ Step(t, [pc |-> "install", build |-> hand[t].build,
              read |-> IF file.body = Broken THEN NoKey ELSE Derived(file.body, hand[t].age)])
  /\ UNCHANGED <<file, builds, held, since, writes>>

(* The state after a read: new bytes move current to previous, the same    *)
(* bytes refresh its time, an unusable file drops both.                    *)
InstalledUnlessBroken(b, read) ==
  IF read = NoKey THEN b
  ELSE IF b.current = NoKey THEN [b EXCEPT !.current = read]
  ELSE IF b.current.body = read.body THEN [b EXCEPT !.current.age = read.age]
  ELSE [b EXCEPT !.previous = b.current, !.current = read]
Installed(b, read) ==
  IF read = NoKey THEN [b EXCEPT !.current = NoKey, !.previous = NoKey]
  ELSE IF b.current = NoKey THEN [b EXCEPT !.current = read]
  ELSE IF b.current.body = read.body THEN [b EXCEPT !.current.age = read.age]
  ELSE [b EXCEPT !.previous = b.current, !.current = read]

Install(t) ==
  /\ hand[t].pc = "install"
  /\ builds' = [builds EXCEPT ![hand[t].build] = Installed(@, hand[t].read)]
  /\ Step(t, [pc |-> "use", build |-> hand[t].build])
  /\ UNCHANGED <<file, held, since, writes>>

(* encrypt: with the current key, while it is fresh.                       *)
Seals(b) == IF b.ctx.stek THEN {k \in {b.current} : FreshKeys(k)} ELSE {NoKey}

(* decrypt: the fresh key the ticket names, current or previous.           *)
OpensStale(b) == IF b.ctx.stek THEN {k \in {b.current, b.previous} : Sealing(k)} ELSE {NoKey}
Opens(b) == IF b.ctx.stek THEN {k \in {b.current, b.previous} : FreshKeys(k)} ELSE {NoKey}

Encrypt(t) ==
  /\ hand[t].pc = "use"
  /\ held' = held \cup {[key |-> Ticketer(Mine(t).ctx, k), ctx |-> Mine(t).ctx] : k \in Seals(Mine(t))}
  /\ Step(t, Idle)
  /\ UNCHANGED <<file, builds, since, writes>>

Resume(t, ticket) ==
  /\ hand[t].pc = "use" /\ ticket \in held
  /\ \E k \in Opens(Mine(t)) :
       /\ ticket.key = Ticketer(Mine(t).ctx, k)
       /\ Step(t, [pc |-> "resumed", build |-> hand[t].build, ticket |-> ticket, with |-> k])
  /\ UNCHANGED <<file, builds, held, since, writes>>

Finish(t) ==
  /\ hand[t].pc = "resumed" /\ Step(t, Idle)
  /\ UNCHANGED <<file, builds, held, since, writes>>

(* The operator writes the file, breaks it, or touches it.                 *)
Write(body) ==
  /\ writes < MaxWrites /\ writes' = writes + 1
  /\ file' = [body |-> body, age |-> 0]
  /\ since' = IF body = Broken THEN since ELSE [since EXCEPT ![body] = 0]
  /\ UNCHANGED <<builds, hand, held>>

(* A reload builds its own ticketer; the process-wide keys live on.        *)
Rebuild(ctx) ==
  /\ Len(builds) < MaxBuilds /\ Buildable(ctx)
  /\ builds' = Append(builds, Built(ctx))
  /\ UNCHANGED <<file, hand, held, since, writes>>

Aged(k) == IF k = NoKey THEN NoKey ELSE [k EXCEPT !.age = Older(@)]
Tick ==
  /\ file' = [file EXCEPT !.age = Older(@)]
  /\ since' = [k \in Keys |-> Older(since[k])]
  /\ builds' = [i \in DOMAIN builds |-> [builds[i] EXCEPT
       !.current = Aged(@), !.previous = Aged(@), !.due = builds[i].ctx.stek]]
  /\ hand' = [t \in Threads |->
       IF hand[t].pc = "read" THEN [hand[t] EXCEPT !.age = Older(@)]
       ELSE IF hand[t].pc = "install" THEN [hand[t] EXCEPT !.read = Aged(@)] ELSE hand[t]]
  /\ UNCHANGED <<held, writes>>

Handshake(t) ==
  \/ Connect(t) \/ Claim(t) \/ Stat(t) \/ Read(t) \/ Install(t) \/ Encrypt(t)
  \/ (\E ticket \in held : Resume(t, ticket)) \/ Finish(t)
TicketsNext ==
  \/ \E t \in Threads : Handshake(t)
  \/ \E body \in Keys \cup {Broken} : Write(body)
  \/ \E ctx \in Contexts : Rebuild(ctx)
  \/ Tick

(* Time passes, clients keep connecting and a handshake is not suspended   *)
(* for ever: the file is only ever looked at by handshakes.                *)
TicketsFairness == WF_ticketVars(Tick) /\ \A t \in Threads : WF_ticketVars(Handshake(t))

TicketsSpec == TicketsInit /\ [][TicketsNext]_ticketVars /\ TicketsFairness

(* A ticket resumes only where its session could have been made: under the *)
(* same client CA, and for a shared file under the same certificates.      *)
ResumesInContext ==
  \A t \in Threads : hand[t].pc = "resumed" =>
    LET made == hand[t].ticket.ctx
        here == Mine(t).ctx
    IN  made.ca = here.ca /\ made.stek = here.stek /\ (here.stek => made.certs = here.certs)

(* No ticket is opened with a key whose file is older than max_age_hours,  *)
(* whichever thread read the file and whenever its result landed.          *)
ExpiredKeysAreDead ==
  [][\A t \in Threads :
       hand[t].pc = "use" /\ hand'[t].pc = "resumed" /\ hand'[t].with # NoKey =>
         since[hand'[t].with.body] <= MaxAge]_ticketVars

(* Once the operator leaves the file alone, the build that serves has its  *)
(* key, or none if the file is unusable: a result that lands out of order  *)
(* is put right by a later check.                                          *)
Settled ==
  LET b == builds[Len(builds)]
  IN  b.ctx.stek =>
        IF file.body = Broken THEN b.current = NoKey /\ b.previous = NoKey
        ELSE b.current # NoKey /\ b.current.body = file.body
KeyFileSettles == <>[]Settled
=============================================================================
