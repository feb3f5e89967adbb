---------------------------- MODULE Serve_proofs ----------------------------
(***************************************************************************)
(* Proofs about the server's loops, for all their constants: one part per  *)
(* component of MCServe, with its inductive invariant, and the theorems    *)
(* about MCSpec at the end.                                                *)
(***************************************************************************)
EXTENDS MCServe, FiniteSetTheorems, SequenceTheorems, TLAPS

-----------------------------------------------------------------------------
(* UpstreamClients.  A cached client is the one of the configuration that  *)
(* lives at its key, because the entry itself keeps that configuration     *)
(* alive and two live configurations never share an address.               *)
ClientsTypeOK ==
  /\ newest \in 0..MaxConfigs
  /\ at \in [Configs -> Addresses \cup {0}]
  /\ section \in 0..newest
  /\ held \in [Requests -> 0..newest] /\ client \in [Requests -> 0..newest]
  /\ step \in [Requests -> {"idle", "start", "missed", "sending"}]
  /\ cache \subseteq Addresses
  /\ retained \in [Addresses -> 0..newest] /\ made \in [Addresses -> 0..newest]

OneConfigPerAddress ==
  \A c \in Alive \cap Configs :
    at[c] \in Addresses /\ \A d \in Alive \cap Configs : at[c] = at[d] => c = d
EntriesKeepConfig ==
  \A a \in cache : retained[a] \in Configs /\ at[retained[a]] = a /\ made[a] = retained[a]
MissedHasConfig == \A r \in Requests : step[r] = "missed" => held[r] # NoConfig

ClientsInv ==
  /\ ClientsTypeOK /\ OneConfigPerAddress /\ EntriesKeepConfig
  /\ MissedHasConfig /\ ClientMatchesGroup

LEMMA ClientsInitInv == ClientsInit => ClientsInv
  <1> SUFFICES ASSUME ClientsInit PROVE ClientsInv
    OBVIOUS
  <1>1. ClientsTypeOK  BY ClientsAssumption DEF ClientsInit, ClientsTypeOK, NoConfig
  <1>2. Alive \cap Configs = {}
    BY ClientsAssumption DEF ClientsInit, Alive, RetainedByCache, Configs, NoConfig
  <1>3. OneConfigPerAddress  BY <1>2 DEF OneConfigPerAddress
  <1>4. EntriesKeepConfig /\ MissedHasConfig /\ ClientMatchesGroup
    BY DEF ClientsInit, EntriesKeepConfig, MissedHasConfig, ClientMatchesGroup
  <1> QED  BY <1>1, <1>3, <1>4 DEF ClientsInv

(* A step that leaves the addresses alone and adds no live configuration.  *)
LEMMA NoNewConfig ==
  ASSUME OneConfigPerAddress, at' = at, Alive' \subseteq Alive \cup {NoConfig}
  PROVE  OneConfigPerAddress'
  <1>1. Alive' \cap Configs \subseteq Alive \cap Configs
    BY ClientsAssumption DEF Configs, NoConfig
  <1> QED  BY <1>1 DEF OneConfigPerAddress

LEMMA ClientsStepInv == ClientsInv /\ [ClientsNext]_clientVars => ClientsInv'
  <1> SUFFICES ASSUME ClientsInv, [ClientsNext]_clientVars PROVE ClientsInv'
    OBVIOUS
  <1> USE ClientsAssumption DEF ClientsInv
  <1>1. CASE UNCHANGED clientVars
    BY <1>1 DEF clientVars, ClientsTypeOK, OneConfigPerAddress, EntriesKeepConfig,
                MissedHasConfig, ClientMatchesGroup, Alive, RetainedByCache
  <1>2. CASE ReloadTls
    <2>1. /\ newest < MaxConfigs /\ newest' = newest + 1 /\ section' = newest + 1
          /\ UNCHANGED <<held, step, cache, retained, made, client>>
      BY <1>2 DEF ReloadTls
    <2>2. PICK a \in Addresses \ Taken : at' = [at EXCEPT ![newest + 1] = a]
      BY <1>2 DEF ReloadTls
    <2>3. newest + 1 \in Configs /\ newest \in Nat  BY <2>1 DEF ClientsTypeOK, Configs
    <2>4. Alive \subseteq 0..newest
      BY DEF Alive, RetainedByCache, ClientsTypeOK
    <2>5. newest + 1 \notin Alive  BY <2>3, <2>4
    <2>6. /\ at'[newest + 1] = a
          /\ \A c \in Alive \cap Configs : at'[c] = at[c] /\ at[c] # a
      BY <2>2, <2>3, <2>5 DEF ClientsTypeOK, Taken
    <2>7. ClientsTypeOK'
      <3>1. at' \in [Configs -> Addresses \cup {0}]  BY <2>2 DEF ClientsTypeOK
      <3>2. 0..newest \subseteq 0..(newest + 1)  BY <2>3
      <3>3. newest' \in 0..MaxConfigs /\ section' \in 0..newest'
        BY <2>1, <2>3 DEF ClientsTypeOK
      <3> QED  BY <2>1, <3>1, <3>2, <3>3 DEF ClientsTypeOK
    <2>8. Alive' \subseteq Alive \cup {newest + 1}
      BY <2>1 DEF Alive, RetainedByCache
    <2>9. OneConfigPerAddress'
      BY <2>2, <2>6, <2>8 DEF OneConfigPerAddress
    <2>10. EntriesKeepConfig'
      <3>1. \A b \in cache : retained[b] \in Alive \cap Configs
        BY DEF EntriesKeepConfig, Alive, RetainedByCache
      <3> QED  BY <2>1, <2>6, <3>1 DEF EntriesKeepConfig
    <2>11. MissedHasConfig' /\ ClientMatchesGroup'
      BY <2>1 DEF MissedHasConfig, ClientMatchesGroup
    <2> QED  BY <2>7, <2>9, <2>10, <2>11
  <1>3. CASE ReloadPlain
    <2>1. section' = NoConfig /\ UNCHANGED <<at, newest, held, step, cache, retained, made, client>>
      BY <1>3 DEF ReloadPlain
    <2>2. Alive' \subseteq Alive \cup {NoConfig}  BY <2>1 DEF Alive, RetainedByCache
    <2>3. OneConfigPerAddress'  BY <2>1, <2>2, NoNewConfig
    <2>4. ClientsTypeOK'  BY <2>1 DEF ClientsTypeOK, NoConfig
    <2>5. EntriesKeepConfig' /\ MissedHasConfig' /\ ClientMatchesGroup'
      BY <2>1 DEF EntriesKeepConfig, MissedHasConfig, ClientMatchesGroup
    <2> QED  BY <2>3, <2>4, <2>5
  <1>4. ASSUME NEW r \in Requests, TakeGroup(r) \/ Done(r) PROVE ClientsInv'
    <2>1. PICK c \in {section, NoConfig}, s \in {"start", "idle"} :
             held' = [held EXCEPT ![r] = c] /\ step' = [step EXCEPT ![r] = s]
      BY <1>4 DEF TakeGroup, Done
    <2>2. UNCHANGED <<at, section, newest, cache, retained, made, client>>
      BY <1>4 DEF TakeGroup, Done
    <2>3. \A q \in Requests : held'[q] = IF q = r THEN c ELSE held[q]
      BY <2>1 DEF ClientsTypeOK
    <2>4. \A q \in Requests : step'[q] = IF q = r THEN s ELSE step[q]
      BY <2>1 DEF ClientsTypeOK
    <2>5. Alive' \subseteq Alive \cup {NoConfig}
      BY <2>2, <2>3 DEF Alive, RetainedByCache
    <2>6. OneConfigPerAddress'  BY <2>2, <2>5, NoNewConfig
    <2>7. ClientsTypeOK'  BY <2>1, <2>2 DEF ClientsTypeOK, NoConfig
    <2>8. EntriesKeepConfig'  BY <2>2 DEF EntriesKeepConfig
    <2>9. MissedHasConfig' /\ ClientMatchesGroup'
      BY <2>2, <2>3, <2>4 DEF MissedHasConfig, ClientMatchesGroup
    <2> QED  BY <2>6, <2>7, <2>8, <2>9
  <1>5. ASSUME NEW r \in Requests, Plain(r) \/ Hit(r) \/ Miss(r) PROVE ClientsInv'
    <2>1. /\ UNCHANGED <<at, section, newest, held, cache, retained, made>>
          /\ step[r] = "start"
      BY <1>5 DEF Plain, Hit, Miss
    <2>2. Alive' = Alive  BY <2>1 DEF Alive, RetainedByCache
    <2>3. OneConfigPerAddress' /\ EntriesKeepConfig'
      BY <2>1, <2>2 DEF OneConfigPerAddress, EntriesKeepConfig
    <2>4. CASE Miss(r)
      <3>1. step' = [step EXCEPT ![r] = "missed"] /\ client' = client /\ held[r] # NoConfig
        BY <2>4 DEF Miss
      <3>2. ClientsTypeOK'  BY <2>1, <3>1 DEF ClientsTypeOK
      <3>3. MissedHasConfig' /\ ClientMatchesGroup'
        BY <2>1, <3>1 DEF ClientsTypeOK, MissedHasConfig, ClientMatchesGroup
      <3> QED  BY <2>3, <3>2, <3>3
    <2>5. CASE Plain(r) \/ Hit(r)
      <3>1. step' = [step EXCEPT ![r] = "sending"] /\ client' = [client EXCEPT ![r] = held[r]]
        <4>1. CASE Plain(r)  BY <4>1 DEF Plain
        <4>2. CASE Hit(r)
          <5>1. held[r] \in Alive \cap Configs
            BY <4>2 DEF Hit, Alive, ClientsTypeOK, Configs, NoConfig
          <5>2. Key(r) \in cache /\ Key(r) = at[held[r]]  BY <4>2 DEF Hit, Key
          <5>3. retained[Key(r)] \in Alive \cap Configs
            BY <5>2 DEF EntriesKeepConfig, Alive, RetainedByCache
          <5>4. at[retained[Key(r)]] = at[held[r]] /\ made[Key(r)] = retained[Key(r)]
            BY <5>2 DEF EntriesKeepConfig
          <5>5. retained[Key(r)] = held[r]  BY <5>1, <5>3, <5>4 DEF OneConfigPerAddress
          <5> QED  BY <4>2, <5>4, <5>5 DEF Hit
        <4> QED  BY <2>5, <4>1, <4>2
      <3>2. ClientsTypeOK'  BY <2>1, <3>1 DEF ClientsTypeOK
      <3>3. MissedHasConfig' /\ ClientMatchesGroup'
        BY <2>1, <3>1 DEF ClientsTypeOK, MissedHasConfig, ClientMatchesGroup
      <3> QED  BY <2>3, <3>2, <3>3
    <2> QED  BY <1>5, <2>4, <2>5
  <1>6. ASSUME NEW r \in Requests, Insert(r) PROVE ClientsInv'
    <2> DEFINE kept == IF Cardinality(cache) >= MaxClients THEN {} ELSE cache
               k == Key(r)
    <2>1. /\ step[r] = "missed" /\ step' = [step EXCEPT ![r] = "sending"]
          /\ cache' = kept \cup {k}
          /\ retained' = IF k \notin kept THEN [retained EXCEPT ![k] = held[r]] ELSE retained
          /\ made' = IF k \notin kept THEN [made EXCEPT ![k] = held[r]] ELSE made
          /\ client' = [client EXCEPT ![r] = made'[k]]
          /\ UNCHANGED <<at, section, newest, held>>
      BY <1>6 DEF Insert
    <2>2. kept \subseteq cache  OBVIOUS
    <2>3. held[r] \in Alive \cap Configs
      BY <2>1 DEF Alive, ClientsTypeOK, Configs, NoConfig, MissedHasConfig
    <2>4. k = at[held[r]] /\ k \in Addresses
      BY <2>3 DEF Key, OneConfigPerAddress
    <2>5. \A a \in cache : retained[a] \in Alive \cap Configs
      BY DEF EntriesKeepConfig, Alive, RetainedByCache
    <2> HIDE DEF kept, k
    <2>6. \A a \in Addresses :
             (a # k \/ k \in kept) => retained'[a] = retained[a] /\ made'[a] = made[a]
      BY <2>1 DEF ClientsTypeOK
    <2>7. retained'[k] = held[r] /\ made'[k] = held[r]
      <3>1. CASE k \in kept
        <4>1. retained[k] \in Alive \cap Configs /\ at[retained[k]] = at[held[r]]
              /\ made[k] = retained[k]
          BY <2>2, <2>4, <2>5, <3>1 DEF EntriesKeepConfig
        <4>2. retained[k] = held[r]  BY <2>3, <4>1 DEF OneConfigPerAddress
        <4> QED  BY <2>4, <2>6, <3>1, <4>1, <4>2
      <3>2. CASE k \notin kept  BY <2>1, <2>4, <3>2 DEF ClientsTypeOK
      <3> QED  BY <3>1, <3>2
    <2>8. \A a \in cache' : a = k \/ a \in cache  BY <2>1, <2>2
    <2>9. Alive' \subseteq Alive \cup {NoConfig}
      <3>1. \A a \in cache' : retained'[a] \in Alive
        BY <2>3, <2>5, <2>6, <2>7, <2>8 DEF ClientsTypeOK
      <3> QED  BY <2>1, <3>1 DEF Alive, RetainedByCache
    <2>10. OneConfigPerAddress'  BY <2>1, <2>9, NoNewConfig
    <2>11. EntriesKeepConfig'
      BY <2>1, <2>3, <2>4, <2>6, <2>7, <2>8 DEF EntriesKeepConfig, ClientsTypeOK
    <2>12. ClientsTypeOK'
      <3>1. cache' \subseteq Addresses  BY <2>4, <2>8 DEF ClientsTypeOK
      <3>2. retained' \in [Addresses -> 0..newest] /\ made' \in [Addresses -> 0..newest]
        BY <2>1 DEF ClientsTypeOK
      <3>3. client' \in [Requests -> 0..newest]  BY <2>1, <2>7 DEF ClientsTypeOK
      <3> QED  BY <2>1, <3>1, <3>2, <3>3 DEF ClientsTypeOK
    <2>13. MissedHasConfig' /\ ClientMatchesGroup'
      BY <2>1, <2>7 DEF ClientsTypeOK, MissedHasConfig, ClientMatchesGroup
    <2> QED  BY <2>10, <2>11, <2>12, <2>13
  <1> HIDE DEF ClientsInv
  <1> QED  BY <1>1, <1>2, <1>3, <1>4, <1>5, <1>6 DEF ClientsNext

-----------------------------------------------------------------------------
(* Export, the spans: what is pushed is always in exactly one place.       *)
SpansInv ==
  /\ pushed \in Nat /\ queue \in Nat /\ dropped \in Nat /\ batch \in Nat /\ delivered \in Nat
  /\ SpansAccounted

LEMMA SpansInitInv == ExportInit => SpansInv
  BY DEF ExportInit, SpansInv, SpansAccounted

LEMMA SpansStepInv == SpansInv /\ [ExportNext]_exportVars => SpansInv'
  <1> SUFFICES ASSUME SpansInv, [ExportNext]_exportVars PROVE SpansInv'
    OBVIOUS
  <1> USE DEF SpansInv, SpansAccounted
  <1>1. CASE UNCHANGED exportVars  BY <1>1 DEF exportVars
  <1>2. CASE push  BY <1>2 DEF push
  <1>3. CASE TakeBatch
    <2>1. Drained \in Nat /\ Drained <= queue  BY ExportAssumption DEF Drained
    <2> QED  BY <1>3, <2>1 DEF TakeBatch
  <1>4. CASE Wake \/ Emptied  BY <1>4 DEF Wake, Emptied, Exporting
  <1>5. CASE Accepted \/ BodyCollected
    <2>1. CASE Accepted  BY <2>1 DEF Accepted
    <2>2. CASE BodyCollected  BY <2>2 DEF BodyCollected
    <2> QED  BY <1>5, <2>1, <2>2
  <1>6. CASE Rejected  BY <1>6 DEF Rejected, GiveUp
  <1>9. CASE Retryable  BY <1>9 DEF Retryable, GiveUp
  <1>7. CASE FlushExpires  BY <1>7 DEF FlushExpires
  <1>8. CASE DrainStarts \/ ServeReturns  BY <1>8 DEF DrainStarts, ServeReturns
  <1> HIDE DEF SpansInv
  <1> QED  BY <1>1, <1>2, <1>3, <1>4, <1>5, <1>6, <1>7, <1>8, <1>9 DEF ExportNext

-----------------------------------------------------------------------------
(* H3Stream.  Once the request is proxied its declared lengths agree, and  *)
(* what remains is what they say less what was passed on.                  *)
StreamTypeOK ==
  /\ declared \in Seq(Lengths \cup {Unparseable})
  /\ received \in Nat /\ passed \in Nat /\ passed <= received
  /\ fin \in {"open", "fin", "reset"}
RemainingExact ==
  core = "proxy" =>
    /\ declared = <<>> => remaining = None
    /\ declared # <<>> => /\ remaining \in Nat
                          /\ \A i \in DOMAIN declared : declared[i] = passed + remaining
BodyWaits ==
  /\ core # "proxy" => body = "open" /\ passed = 0
  /\ core = "parse" => source = "none"
  /\ source \in {"none", "open"} => sendHalf = "open"

StreamInv == StreamTypeOK /\ RemainingExact /\ BodyWaits /\ FramingExact

LEMMA StreamInitInv == StreamInit \/ StreamRest => StreamInv
  <1> SUFFICES ASSUME StreamInit \/ StreamRest PROVE StreamInv
    OBVIOUS
  <1> DEFINE S == Lengths \cup {Unparseable}
  <1>1. declared \in Seq(S)
    <2>1. CASE StreamRest  BY <2>1 DEF StreamRest
    <2>2. CASE StreamInit
      <3>1. PICK k \in 0..2 : declared \in [1..k -> S]  BY <2>2 DEF StreamInit
      <3> HIDE DEF S
      <3> QED  BY <3>1
    <2> QED  BY <2>1, <2>2
  <1>2. StreamTypeOK  BY <1>1 DEF StreamInit, StreamRest, StreamTypeOK
  <1>3. RemainingExact /\ BodyWaits /\ FramingExact
    BY DEF StreamInit, StreamRest, RemainingExact, BodyWaits, FramingExact
  <1> QED  BY <1>2, <1>3 DEF StreamInv

(* declared_content_length: one value, whatever the number of fields.      *)
LEMMA DeclaredAgree ==
  ASSUME NEW f \in Seq(Lengths \cup {Unparseable}), declared_content_length(f).ok
  PROVE  /\ f = <<>> => declared_content_length(f).n = None
         /\ f # <<>> => /\ declared_content_length(f).n \in Nat
                        /\ \A i \in DOMAIN f : f[i] = declared_content_length(f).n
  <1>1. CASE f = <<>>  BY <1>1 DEF declared_content_length
  <1>2. CASE f # <<>>
    <2>1. /\ declared_content_length(f).n = f[1]
          /\ \A i \in DOMAIN f : f[i] # Unparseable /\ f[i] = f[1]
      BY <1>2 DEF declared_content_length
    <2>2. 1 \in DOMAIN f /\ f[1] \in Lengths \cup {Unparseable}  BY <1>2
    <2>3. f[1] \in Nat  BY <2>1, <2>2, BytesAssumption DEF Lengths
    <2> QED  BY <1>2, <2>1, <2>3
  <1> QED  BY <1>1, <1>2

LEMMA StreamStepInv == StreamInv /\ [StreamNext]_streamVars => StreamInv'
  <1> SUFFICES ASSUME StreamInv, [StreamNext]_streamVars PROVE StreamInv'
    OBVIOUS
  <1> USE DEF StreamInv
  <1>1. CASE UNCHANGED streamVars
    BY <1>1 DEF streamVars, StreamTypeOK, RemainingExact, BodyWaits, FramingExact
  <1>2. CASE ClientData \/ ClientEnds
    BY <1>2 DEF ClientData, ClientEnds, StreamTypeOK, RemainingExact, BodyWaits, FramingExact
  <1>3. CASE Resolve
    <2> DEFINE d == declared_content_length(declared)
    <2>1. /\ core = "parse" /\ UNCHANGED <<declared, received, fin, passed, body, sendHalf, sentTrailers>>
          /\ \/ d.ok /\ core' = "proxy" /\ remaining' = d.n /\ source' = source
             \/ core' = "refused" /\ source' = "open"
      BY <1>3 DEF Resolve
    <2>2. body = "open" /\ passed = 0 /\ source = "none" /\ sendHalf = "open"
      BY <2>1 DEF BodyWaits
    <2>3. StreamTypeOK' /\ BodyWaits' /\ FramingExact'
      BY <2>1, <2>2 DEF StreamTypeOK, BodyWaits, FramingExact
    <2>4. RemainingExact'
      <3>1. CASE d.ok /\ core' = "proxy" /\ remaining' = d.n
        <4>1. /\ declared = <<>> => d.n = None
              /\ declared # <<>> => d.n \in Nat /\ \A i \in DOMAIN declared : declared[i] = d.n
          BY <3>1, DeclaredAgree DEF StreamTypeOK
        <4> HIDE DEF d
        <4> QED  BY <2>1, <2>2, <3>1, <4>1 DEF RemainingExact
      <3>2. CASE core' = "refused"  BY <3>2 DEF RemainingExact
      <3> QED  BY <2>1, <3>1, <3>2
    <2> QED  BY <2>3, <2>4
  <1>4. CASE Frame
    <2>1. /\ core = "proxy" /\ body = "open" /\ received > passed
          /\ UNCHANGED <<declared, received, fin, core, source, sendHalf, sentTrailers>>
          /\ \/ body' = "error" /\ UNCHANGED <<remaining, passed>>
             \/ /\ passed' = received /\ body' = body
                /\ ~ (remaining # None /\ received - passed > remaining)
                /\ remaining' = IF remaining = None THEN None ELSE remaining - (received - passed)
      BY <1>4 DEF Frame, Polled
    <2>2. StreamTypeOK' /\ BodyWaits' /\ FramingExact'
      BY <2>1 DEF StreamTypeOK, BodyWaits, FramingExact
    <2>3. RemainingExact'
      <3>1. CASE UNCHANGED <<remaining, passed>>  BY <2>1, <3>1 DEF RemainingExact
      <3>2. CASE /\ passed' = received
                 /\ ~ (remaining # None /\ received - passed > remaining)
                 /\ remaining' = IF remaining = None THEN None
                                 ELSE remaining - (received - passed)
        <4>1. CASE declared = <<>>  BY <2>1, <3>2, <4>1 DEF RemainingExact
        <4>2. CASE declared # <<>>
          <5>1. remaining \in Nat /\ \A i \in DOMAIN declared : declared[i] = passed + remaining
            BY <2>1, <4>2 DEF RemainingExact
          <5>2. remaining' \in Nat /\ passed' + remaining' = passed + remaining
            BY <2>1, <3>2, <5>1 DEF StreamTypeOK, None
          <5> QED  BY <2>1, <4>2, <5>1, <5>2 DEF RemainingExact
        <4> QED  BY <4>1, <4>2
      <3> QED  BY <2>1, <3>1, <3>2
    <2> QED  BY <2>2, <2>3
  <1>5. CASE EndOfBody
    <2>1. /\ core = "proxy" /\ received = passed /\ fin # "open"
          /\ body' = IF fin = "reset" \/ remaining > 0 THEN "error" ELSE "complete"
          /\ UNCHANGED <<declared, received, fin, core, remaining, passed, source, sendHalf, sentTrailers>>
      BY <1>5 DEF EndOfBody, Polled
    <2>2. StreamTypeOK' /\ BodyWaits' /\ RemainingExact'
      BY <2>1 DEF StreamTypeOK, BodyWaits, RemainingExact
    <2>3. FramingExact'
      <3>1. body' = "complete" => \A i \in DOMAIN declared : declared[i] = passed
        BY <2>1 DEF RemainingExact, StreamTypeOK
      <3> QED  BY <2>1, <3>1 DEF FramingExact, StreamTypeOK
    <2> QED  BY <2>2, <2>3
  <1>6. CASE Answer \/ SourceEnds
    BY <1>6 DEF Answer, SourceEnds, StreamTypeOK, RemainingExact, BodyWaits, FramingExact
  <1>7. CASE SendEnds
    BY <1>7 DEF SendEnds, FinishClean, StreamTypeOK, RemainingExact, BodyWaits, FramingExact
  <1> HIDE DEF StreamInv
  <1> QED  BY <1>1, <1>2, <1>3, <1>4, <1>5, <1>6, <1>7 DEF StreamNext

-----------------------------------------------------------------------------
(* Serve.  A connection's guards say exactly who of its task and its       *)
(* tunnel is still there, so a permit comes home when the last of them     *)
(* lets go; and once the QUIC endpoint closes before any window ran out,   *)
(* no QUIC connection is left to break.                                    *)
ServeTypeOK ==
  /\ stage \in {"serving", "grace", "drain", "h3", "flush", "returned"}
  /\ permits \in Nat
  /\ loop \in {"permit", "accept", "off"}
  /\ quic \in {"top", "permit", "accept", "drain", "closing", "gone"}
  /\ conn \in [Conns -> States]
  /\ tunnel \in [Conns -> {"none", "joining", "splicing"}]
  /\ guards \in [Conns -> SUBSET {"task", "tunnel"}]

GuardsExact ==
  \A c \in Conns : /\ "task" \in guards[c] <=> conn[c] \in InTask
                   /\ "tunnel" \in guards[c] <=> tunnel[c] # "none"
TunnelAfterTask ==
  \A c \in Conns : conn[c] \in {"none", "arriving"} => tunnel[c] = "none"
ClosedQuic ==
  quic \in {"closing", "gone"} => expired \/ \A c \in Quic : conn[c] \notin InTask
Unbroken == \A c \in Conns : conn[c] = "broken" => expired
StillServing ==
  stage \in {"serving", "grace"} => loop # "off" /\ quic \in {"top", "permit", "accept"}

(* The permits in use: connections and tunnels, and one per waiting loop.  *)
LoopBit == IF loop = "accept" THEN 1 ELSE 0
QuicBit == IF quic = "accept" THEN 1 ELSE 0
PermitsExact == Cardinality(Live) + LoopBit + QuicBit + permits = MaxConnections

ServeShape ==
  ServeTypeOK /\ GuardsExact /\ TunnelAfterTask /\ ClosedQuic /\ Unbroken /\ StillServing
ServeInv == ServeShape /\ PermitsExact

LEMMA GuardedIsLive ==
  ASSUME ServeTypeOK, GuardsExact
  PROVE  \A c \in Conns : (guards[c] # {}) <=> (c \in Live)
  BY DEF ServeTypeOK, GuardsExact, Live

LEMMA GuardedIsLiveNext ==
  ASSUME ServeTypeOK', GuardsExact'
  PROVE  \A c \in Conns : (guards'[c] # {}) <=> (c \in Live')
  BY DEF ServeTypeOK, GuardsExact, Live

LEMMA ServeInvSound == ServeInv => LiveWithinCap /\ GracefulShutdown
  <1> SUFFICES ASSUME ServeInv PROVE LiveWithinCap /\ GracefulShutdown
    OBVIOUS
  <1>1. LiveWithinCap
    <2>1. \A c \in Conns : (guards[c] # {}) = (c \in Live)
      BY GuardedIsLive DEF ServeInv, ServeShape
    <2> QED  BY <2>1 DEF ServeInv, PermitsExact, LoopBit, QuicBit, LiveWithinCap
  <1>2. GracefulShutdown
    BY DEF ServeInv, ServeShape, Unbroken, StillServing, GracefulShutdown, Readyz
  <1> QED  BY <1>1, <1>2

LEMMA LiveIsFinite == IsFiniteSet(Live) /\ Cardinality(Live) \in Nat
  <1>1. IsFiniteSet(Conns)  BY ServeAssumption, FS_Union DEF Conns
  <1>2. Live \in SUBSET Conns  BY DEF Live
  <1>3. IsFiniteSet(Live)  BY <1>1, <1>2, FS_Subset
  <1> QED  BY <1>3, FS_CardinalityType

LEMMA ServeInitInv == ServeInit \/ ServeRest => ServeInv
  <1> SUFFICES ASSUME ServeInit \/ ServeRest PROVE ServeInv
    OBVIOUS
  <1>1. ServeTypeOK
    BY ServeAssumption DEF ServeInit, ServeRest, ServeTypeOK, States
  <1>2. GuardsExact /\ TunnelAfterTask /\ Unbroken
    BY DEF ServeInit, ServeRest, GuardsExact, TunnelAfterTask, Unbroken, InTask
  <1>3. ClosedQuic /\ StillServing
    BY DEF ServeInit, ServeRest, ClosedQuic, StillServing, InTask, Conns
  <1>4. PermitsExact
    <2>1. Live = {}  BY DEF ServeInit, ServeRest, Live, InTask
    <2>2. Cardinality(Live) = 0  BY <2>1, FS_EmptySet
    <2>3. LoopBit = 0 /\ QuicBit = 0 /\ permits = MaxConnections
      BY DEF ServeInit, ServeRest, LoopBit, QuicBit
    <2> QED  BY <2>2, <2>3, ServeAssumption DEF PermitsExact
  <1> QED  BY <1>1, <1>2, <1>3, <1>4 DEF ServeInv, ServeShape

(* Dropping one owner's hold on some connections keeps the sum.            *)
LEMMA DropsKeepPermits ==
  ASSUME ServeInv, NEW owner \in {"task", "tunnel"}, NEW cs \in SUBSET Conns,
         Drops(owner, cs), UNCHANGED <<loop, quic>>, ServeTypeOK', GuardsExact'
  PROVE  PermitsExact'
  <1> DEFINE Gone == {c \in cs : guards[c] = {owner}}
  <1>1. \A c \in Conns : guards'[c] = IF c \in cs THEN guards[c] \ {owner} ELSE guards[c]
    BY DEF Drops
  <1>2. /\ \A c \in Conns : (guards[c] # {}) <=> (c \in Live)
        /\ \A c \in Conns : (guards'[c] # {}) <=> (c \in Live')
    BY GuardedIsLive, GuardedIsLiveNext DEF ServeInv, ServeShape
  <1>3. Live \subseteq Conns /\ Live' \subseteq Conns  BY DEF Live
  <1>4. Live' = Live \ Gone
    <2>1. ASSUME NEW c \in Conns PROVE c \in Live' <=> c \in Live /\ c \notin Gone
      <3>1. guards[c] \subseteq {"task", "tunnel"}  BY DEF ServeInv, ServeShape, ServeTypeOK
      <3>2. CASE c \in cs
        <4>1. guards[c] \ {owner} # {} <=> guards[c] # {} /\ guards[c] # {owner}
          BY <3>1
        <4> QED  BY <1>1, <1>2, <3>2, <4>1
      <3>3. CASE c \notin cs  BY <1>1, <1>2, <3>3
      <3> QED  BY <3>2, <3>3
    <2> QED  BY <1>3, <2>1
  <1>5. Live \cap Gone = Gone  BY <1>2
  <1>6. permits' = permits + Cardinality(Gone)  BY DEF Drops
  <1> HIDE DEF Gone
  <1>7. Cardinality(Live') = Cardinality(Live) - Cardinality(Gone)
    BY <1>4, <1>5, LiveIsFinite, FS_Difference
  <1>8. Cardinality(Gone) \in Nat
    BY <1>5, LiveIsFinite, FS_Intersection, FS_CardinalityType
  <1>9. LoopBit' = LoopBit /\ QuicBit' = QuicBit /\ LoopBit \in Nat /\ QuicBit \in Nat
    BY DEF LoopBit, QuicBit
  <1>10. permits \in Nat  BY DEF ServeInv, ServeShape, ServeTypeOK
  <1> QED
    BY <1>6, <1>7, <1>8, <1>9, <1>10, LiveIsFinite DEF ServeInv, PermitsExact

(* A step that changes no connection's standing keeps it too, if permits   *)
(* and loops trade evenly.                                                 *)
LEMMA SameLive ==
  ASSUME ServeInv, Live' = Live, NEW d \in Int, permits' = permits + d,
         LoopBit' + QuicBit' = LoopBit + QuicBit - d
  PROVE  PermitsExact'
  <1>1. LoopBit' \in Nat /\ QuicBit' \in Nat /\ LoopBit \in Nat /\ QuicBit \in Nat
    BY DEF LoopBit, QuicBit
  <1>2. permits \in Nat  BY DEF ServeInv, ServeShape, ServeTypeOK
  <1>3. Cardinality(Live') = Cardinality(Live) /\ Cardinality(Live) \in Nat
    BY LiveIsFinite
  <1>4. Cardinality(Live) + LoopBit + QuicBit + permits = MaxConnections
    BY DEF ServeInv, PermitsExact
  <1>5. Cardinality(Live') + LoopBit' + QuicBit' + permits' = MaxConnections
    BY <1>2, <1>3, <1>4, ServeAssumption DEF LoopBit, QuicBit
  <1> QED  BY <1>5 DEF PermitsExact

(* A connection that is accepted takes the permit its loop was holding.    *)
LEMMA AcceptKeepsPermits ==
  ASSUME ServeInv, NEW c \in Conns, c \notin Live, Live' = Live \cup {c}, permits' = permits,
         LoopBit' + QuicBit' = LoopBit + QuicBit - 1
  PROVE  PermitsExact'
  <1>1. LoopBit' \in Nat /\ QuicBit' \in Nat /\ LoopBit \in Nat /\ QuicBit \in Nat
    BY DEF LoopBit, QuicBit
  <1>2. permits \in Nat  BY DEF ServeInv, ServeShape, ServeTypeOK
  <1>3. Cardinality(Live') = Cardinality(Live) + 1 /\ Cardinality(Live) \in Nat
    BY LiveIsFinite, FS_AddElement
  <1>4. Cardinality(Live) + LoopBit + QuicBit + permits = MaxConnections
    BY DEF ServeInv, PermitsExact
  <1>5. Cardinality(Live') + LoopBit' + QuicBit' + permits' = MaxConnections
    BY <1>2, <1>3, <1>4, ServeAssumption DEF LoopBit, QuicBit
  <1> QED  BY <1>5 DEF PermitsExact

(* Ending tasks leaves the rest of the state in shape, when no request is  *)
(* broken before a window ran out.                                         *)
LEMMA EndTaskKeeps ==
  ASSUME ServeInv, NEW cs \in SUBSET Conns, \A c \in cs : conn[c] \in InTask,
         conn' \in [Conns -> States],
         \A c \in Conns : c \in cs => conn'[c] \in {"ended", "broken"},
         \A c \in Conns : c \notin cs => conn'[c] = conn[c],
         \A c \in cs : conn'[c] = "broken" => expired',
         Drops("task", cs), UNCHANGED <<loop, quic, tunnel>>, expired => expired',
         stage' = stage \/ stage' \notin {"serving", "grace"}, 
         stage' \in {"serving", "grace", "drain", "h3", "flush", "returned"}
  PROVE  ServeInv'
  <1> USE DEF ServeInv, ServeShape
  <1>1. /\ guards' = [c \in Conns |-> IF c \in cs THEN guards[c] \ {"task"} ELSE guards[c]]
        /\ permits' = permits + Cardinality({c \in cs : guards[c] = {"task"}})
    BY DEF Drops
  <1>2. permits' \in Nat
    <2>1. {c \in cs : guards[c] = {"task"}} \in SUBSET Live
      BY GuardedIsLive
    <2>2. Cardinality({c \in cs : guards[c] = {"task"}}) \in Nat
      BY <2>1, LiveIsFinite, FS_Subset, FS_CardinalityType
    <2> QED  BY <1>1, <2>2 DEF ServeTypeOK
  <1>3. ServeTypeOK'  BY <1>1, <1>2 DEF ServeTypeOK
  <1>4. GuardsExact'
    <2> SUFFICES ASSUME NEW c \in Conns
                 PROVE  /\ "task" \in guards'[c] <=> conn'[c] \in InTask
                        /\ "tunnel" \in guards'[c] <=> tunnel'[c] # "none"
      BY DEF GuardsExact
    <2>1. CASE c \in cs
      <3>1. guards'[c] = guards[c] \ {"task"} /\ conn'[c] \notin InTask
        BY <1>1, <2>1 DEF InTask
      <3> QED  BY <3>1 DEF GuardsExact
    <2>2. CASE c \notin cs  BY <1>1, <2>2 DEF GuardsExact
    <2> QED  BY <2>1, <2>2
  <1>5. TunnelAfterTask'  BY DEF TunnelAfterTask, InTask
  <1>6. ClosedQuic'  BY DEF ClosedQuic, Conns, InTask
  <1>7. Unbroken'  BY DEF Unbroken
  <1>8. StillServing'  BY DEF StillServing
  <1>9. PermitsExact'  BY <1>3, <1>4, DropsKeepPermits
  <1> QED  BY <1>3, <1>4, <1>5, <1>6, <1>7, <1>8, <1>9

LEMMA ServeStepInv == ServeInv /\ [ServeNext]_serveVars => ServeInv'
  <1> SUFFICES ASSUME ServeInv, [ServeNext]_serveVars PROVE ServeInv'
    OBVIOUS
  <1> USE DEF ServeInv, ServeShape
  <1>t. /\ permits \in Nat /\ conn \in [Conns -> States] /\ guards \in [Conns -> SUBSET {"task", "tunnel"}]
        /\ tunnel \in [Conns -> {"none", "joining", "splicing"}]
        /\ Tcp \subseteq Conns /\ Quic \subseteq Conns
    BY DEF ServeTypeOK, Conns
  <1>0. CASE UNCHANGED <<stage, permits, loop, quic, conn, tunnel, guards, expired>>
    <2>1. ServeShape'
      BY <1>0 DEF ServeTypeOK, GuardsExact, TunnelAfterTask, ClosedQuic, Unbroken, StillServing
    <2>2. PermitsExact'  BY <1>0 DEF PermitsExact, Live, LoopBit, QuicBit
    <2> QED  BY <2>1, <2>2
  <1>1. ASSUME UNCHANGED <<stage, permits, loop, quic, tunnel, guards, expired>>,
               NEW c \in Conns, NEW x \in States \ {"broken"}, conn' = [conn EXCEPT ![c] = x],
               conn[c] \in InTask <=> x \in InTask, x \in {"none", "arriving"} => conn[c] = "none"
        PROVE  ServeInv'
    <2>1. \A d \in Conns : conn'[d] = IF d = c THEN x ELSE conn[d]  BY <1>1, <1>t
    <2>2. ServeTypeOK'  BY <1>1, <1>t DEF ServeTypeOK
    <2>3. GuardsExact' /\ TunnelAfterTask' /\ ClosedQuic' /\ Unbroken' /\ StillServing'
      BY <1>1, <1>t, <2>1 DEF GuardsExact, TunnelAfterTask, ClosedQuic, Unbroken, StillServing
    <2>4. Live' = Live  BY <1>1, <2>1 DEF Live
    <2>5. PermitsExact'  BY <1>1, <1>t, <2>4 DEF PermitsExact, LoopBit, QuicBit
    <2> QED  BY <2>2, <2>3, <2>5
  <1>2. ASSUME NEW c \in Conns, Arrive(c) \/ Opens(c) \/ HandshakeQuic(c) \/ Request(c)
        PROVE  ServeInv'
    <2>1. /\ UNCHANGED <<stage, permits, loop, quic, tunnel, guards, expired>>
          /\ \/ conn[c] = "none" /\ conn' = [conn EXCEPT ![c] = "arriving"]
             \/ conn[c] = "opening" /\ conn' = [conn EXCEPT ![c] = "idle"]
             \/ conn[c] = "idle" /\ conn' = [conn EXCEPT ![c] = "busy"]
      BY <1>2 DEF Arrive, Opens, HandshakeQuic, Request
    <2> QED  BY <1>1, <2>1 DEF States, InTask
  <1>3. ASSUME NEW c \in Conns, Respond(c) PROVE ServeInv'
    <2>1. CASE c \notin told
      <3>1. /\ UNCHANGED <<stage, permits, loop, quic, tunnel, guards, expired>>
            /\ conn[c] = "busy" /\ conn' = [conn EXCEPT ![c] = "idle"]
        BY <1>3, <2>1 DEF Respond, Answered
      <3> QED  BY <1>1, <3>1 DEF States, InTask
    <2>2. CASE c \in told
      <3>1. /\ UNCHANGED <<stage, loop, quic, tunnel, expired>> /\ Drops("task", {c})
            /\ conn[c] = "busy" /\ conn' = [conn EXCEPT ![c] = "ended"]
        BY <1>3, <2>2 DEF Respond, Answered
      <3>2. conn' \in [Conns -> States] /\ conn'[c] = "ended"
            /\ \A d \in Conns : d \notin {c} => conn'[d] = conn[d]
        BY <1>t, <3>1 DEF States
      <3> QED  BY <3>1, <3>2, EndTaskKeeps DEF InTask, ServeTypeOK
    <2> QED  BY <2>1, <2>2
  <1>4. ASSUME NEW c \in Conns, Finish101(c) \/ ClientLeaves(c) PROVE ServeInv'
    <2>1. /\ UNCHANGED <<stage, loop, quic, tunnel, expired>> /\ Drops("task", {c})
          /\ conn[c] \in InTask /\ conn' = [conn EXCEPT ![c] = "ended"]
      BY <1>4 DEF Finish101, ClientLeaves, InTask
    <2>2. conn' \in [Conns -> States] /\ conn'[c] = "ended"
          /\ \A d \in Conns : d \notin {c} => conn'[d] = conn[d]
      BY <1>t, <2>1 DEF States
    <2> QED  BY <2>1, <2>2, EndTaskKeeps DEF InTask, ServeTypeOK
  <1>5. ASSUME NEW cs \in SUBSET Conns, \A c \in cs : conn[c] \in InTask, EndTask(cs),
               UNCHANGED <<loop, quic, tunnel>>, expired => expired',
               \A c \in cs : conn[c] = "busy" => expired',
               stage' = stage \/ stage' \notin {"serving", "grace"},
               stage' \in {"serving", "grace", "drain", "h3", "flush", "returned"}
        PROVE  ServeInv'
    <2>1. /\ conn' = [c \in Conns |-> IF c \in cs THEN Ended(c) ELSE conn[c]]
          /\ Drops("task", cs)
      BY <1>5 DEF EndTask
    <2>2. conn' \in [Conns -> States]  BY <1>t, <2>1 DEF States, Ended
    <2>3. \A c \in Conns : c \in cs => conn'[c] \in {"ended", "broken"}
      BY <2>1 DEF Ended
    <2>4. \A c \in Conns : c \notin cs => conn'[c] = conn[c]  BY <2>1
    <2>5. \A c \in cs : conn'[c] = "broken" => expired'  BY <1>5, <2>1 DEF Ended
    <2> QED  BY <1>5, <2>1, <2>2, <2>3, <2>4, <2>5, EndTaskKeeps
  <1>6. ASSUME UNCHANGED <<conn, tunnel, guards>>, NEW d \in Int, permits' = permits + d, permits' \in Nat,
               LoopBit' + QuicBit' = LoopBit + QuicBit - d,
               stage' \in {"serving", "grace", "drain", "h3", "flush", "returned"},
               loop' \in {"permit", "accept", "off"},
               quic' \in {"top", "permit", "accept", "drain", "closing", "gone"},
               expired => expired', ClosedQuic', StillServing'
        PROVE  ServeInv'
    <2>1. ServeTypeOK'  BY <1>6, <1>t DEF ServeTypeOK
    <2>2. GuardsExact' /\ TunnelAfterTask' /\ Unbroken'
      BY <1>6 DEF GuardsExact, TunnelAfterTask, Unbroken
    <2>3. Live' = Live  BY <1>6 DEF Live
    <2>4. PermitsExact'  BY <1>6, <2>3, SameLive
    <2> QED  BY <1>6, <2>1, <2>2, <2>4
  <1>7. CASE AcquireTcp \/ RetryTcp \/ StartDrain
    <2>1. /\ UNCHANGED <<conn, tunnel, guards, quic, expired>>
          /\ \/ loop = "permit" /\ loop' = "accept" /\ permits > 0 /\ permits' = permits - 1 /\ stage' = stage
             \/ loop = "accept" /\ loop' = "permit" /\ permits' = permits + 1 /\ stage' = stage
             \/ loop = "accept" /\ loop' = "off" /\ permits' = permits + 1 /\ stage' = "drain"
             \/ loop # "accept" /\ loop' = "off" /\ permits' = permits + 0 /\ stage' = "drain"
      BY <1>7, <1>t DEF AcquireTcp, RetryTcp, StartDrain
    <2>2. /\ stage' \in {"serving", "grace", "drain", "h3", "flush", "returned"}
          /\ loop' \in {"permit", "accept", "off"}
          /\ quic' \in {"top", "permit", "accept", "drain", "closing", "gone"}
          /\ permits' \in Nat /\ ClosedQuic' /\ StillServing'
      BY <1>t, <2>1 DEF ServeTypeOK, ClosedQuic, StillServing
    <2>3. \E d \in Int : permits' = permits + d /\ LoopBit' + QuicBit' = LoopBit + QuicBit - d
      <3>1. CASE permits' = permits - 1 /\ loop = "permit" /\ loop' = "accept"
        <4> WITNESS -1 \in Int
        <4> QED  BY <1>t, <2>1, <3>1 DEF LoopBit, QuicBit
      <3>2. CASE permits' = permits + 1 /\ loop = "accept" /\ loop' # "accept"
        <4> WITNESS 1 \in Int
        <4> QED  BY <1>t, <2>1, <3>2 DEF LoopBit, QuicBit
      <3>3. CASE permits' = permits + 0 /\ loop # "accept" /\ loop' = "off"
        <4> WITNESS 0 \in Int
        <4> QED  BY <1>t, <2>1, <3>3 DEF LoopBit, QuicBit
      <3> QED  BY <2>1, <3>1, <3>2, <3>3
    <2> QED  BY <1>6, <2>1, <2>2, <2>3
  <1>8. CASE Apply \/ AcquireQuic \/ RetryQuic \/ QuicDrains
    <2>1. /\ UNCHANGED <<conn, tunnel, guards, loop, stage, expired>>
          /\ \/ quic = "top" /\ quic' = "permit" /\ permits' = permits + 0
             \/ quic = "permit" /\ quic' = "accept" /\ permits > 0 /\ permits' = permits - 1
             \/ quic = "accept" /\ quic' = "top" /\ permits' = permits + 1
             \/ Draining /\ quic = "accept" /\ quic' = "drain" /\ permits' = permits + 1
             \/ Draining /\ quic = "permit" /\ quic' = "drain" /\ permits' = permits + 0
      BY <1>8, <1>t DEF Apply, AcquireQuic, RetryQuic, QuicDrains
    <2>2. /\ stage' \in {"serving", "grace", "drain", "h3", "flush", "returned"}
          /\ loop' \in {"permit", "accept", "off"}
          /\ quic' \in {"top", "permit", "accept", "drain", "closing", "gone"}
          /\ permits' \in Nat /\ ClosedQuic' /\ StillServing'
      BY <1>t, <2>1 DEF ServeTypeOK, ClosedQuic, StillServing, Draining
    <2>3. \E d \in Int : permits' = permits + d /\ LoopBit' + QuicBit' = LoopBit + QuicBit - d
      <3>1. CASE permits' = permits - 1 /\ quic = "permit" /\ quic' = "accept"
        <4> WITNESS -1 \in Int
        <4> QED  BY <1>t, <2>1, <3>1 DEF LoopBit, QuicBit
      <3>2. CASE permits' = permits + 1 /\ quic = "accept" /\ quic' # "accept"
        <4> WITNESS 1 \in Int
        <4> QED  BY <1>t, <2>1, <3>2 DEF LoopBit, QuicBit
      <3>3. CASE permits' = permits + 0 /\ quic # "accept" /\ quic' # "accept"
        <4> WITNESS 0 \in Int
        <4> QED  BY <1>t, <2>1, <3>3 DEF LoopBit, QuicBit
      <3> QED  BY <2>1, <3>1, <3>2, <3>3
    <2> QED  BY <1>6, <2>1, <2>2, <2>3
  <1>9. ASSUME UNCHANGED <<conn, tunnel, guards, loop, permits>>, expired => expired',
               stage' \in {"serving", "grace", "drain", "h3", "flush", "returned"},
               quic' = quic \/ (quic = "drain" /\ quic' = "closing") \/ (quic = "closing" /\ quic' = "gone"),
               ClosedQuic', StillServing'
        PROVE  ServeInv'
    <2>1. permits' = permits + 0 /\ permits' \in Nat  BY <1>9, <1>t
    <2>2. /\ loop' \in {"permit", "accept", "off"}
          /\ quic' \in {"top", "permit", "accept", "drain", "closing", "gone"}
      BY <1>9 DEF ServeTypeOK
    <2>3. LoopBit' + QuicBit' = LoopBit + QuicBit - 0
      BY <1>9 DEF LoopBit, QuicBit
    <2> QED  BY <1>6, <1>9, <2>1, <2>2, <2>3
  <1>10. CASE Signal \/ AllHome \/ AwaitQuic \/ Return
    <2>1. /\ UNCHANGED <<conn, tunnel, guards, loop, permits, quic, expired>>
          /\ \/ stage = "serving" /\ stage' = "grace"
             \/ stage' \in {"h3", "flush", "returned"}
      BY <1>10 DEF Signal, AllHome, AwaitQuic, Return
    <2>2. ClosedQuic' /\ StillServing'  BY <2>1 DEF ClosedQuic, StillServing
    <2> QED  BY <1>9, <2>1, <2>2
  <1>11. CASE QuicCloses
    <2>1. /\ UNCHANGED <<conn, tunnel, guards, loop, permits, stage>> 
          /\ quic = "drain" /\ quic' = "closing"
      BY <1>11 DEF QuicCloses
    <2>2. expired' <=> expired \/ QuicLive  BY <1>11 DEF QuicCloses
    <2>3. ClosedQuic'  BY <2>1, <2>2 DEF ClosedQuic, QuicLive
    <2>4. StillServing' /\ stage' \in {"serving", "grace", "drain", "h3", "flush", "returned"}
      BY <2>1 DEF StillServing, ServeTypeOK
    <2> QED  BY <1>9, <2>1, <2>2, <2>3, <2>4
  <1>12. CASE QuicIdle
    <2>1. /\ UNCHANGED <<conn, tunnel, guards, loop, permits, stage, expired>> 
          /\ quic = "closing" /\ quic' = "gone"
      BY <1>12 DEF QuicIdle
    <2>2. ClosedQuic' /\ StillServing' /\ stage' \in {"serving", "grace", "drain", "h3", "flush", "returned"}
      BY <2>1 DEF ClosedQuic, StillServing, ServeTypeOK
    <2> QED  BY <1>9, <2>1, <2>2
  <1>13. ASSUME NEW c \in Conns, AcceptTcp(c) \/ AcceptQuic(c) PROVE ServeInv'
    <2>1. /\ conn[c] = "arriving" /\ UNCHANGED <<stage, permits, tunnel, expired>>
          /\ conn' = [conn EXCEPT ![c] = "opening"] /\ guards' = [guards EXCEPT ![c] = {"task"}]
          /\ \/ c \in Tcp /\ loop = "accept" /\ loop' = "permit" /\ quic' = quic
             \/ quic = "accept" /\ quic' = "top" /\ loop' = loop
      BY <1>13 DEF AcceptTcp, AcceptQuic
    <2>2. /\ \A d \in Conns : conn'[d] = IF d = c THEN "opening" ELSE conn[d]
          /\ \A d \in Conns : guards'[d] = IF d = c THEN {"task"} ELSE guards[d]
      BY <1>t, <2>1
    <2>3. tunnel[c] = "none"  BY <2>1 DEF TunnelAfterTask
    <2>4. ServeTypeOK'
      <3>1. conn' \in [Conns -> States] /\ guards' \in [Conns -> SUBSET {"task", "tunnel"}]
        BY <1>t, <2>1 DEF States
      <3> QED  BY <2>1, <3>1 DEF ServeTypeOK
    <2>5. GuardsExact' /\ TunnelAfterTask' /\ Unbroken'
      BY <2>1, <2>2, <2>3 DEF GuardsExact, TunnelAfterTask, Unbroken, InTask
    <2>6. ClosedQuic'
      <3>1. c \in Quic => quic' = "top"
        BY <2>1, ServeAssumption
      <3> QED  BY <1>t, <2>1, <2>2, <3>1 DEF ClosedQuic
    <2>7. StillServing'  BY <2>1 DEF StillServing
    <2>8. PermitsExact'
      <3>1. c \notin Live /\ Live' = Live \cup {c}
        BY <2>1, <2>2, <2>3 DEF Live, InTask
      <3>2. LoopBit' + QuicBit' = LoopBit + QuicBit - 1
        BY <2>1 DEF LoopBit, QuicBit
      <3> QED  BY <2>1, <3>1, <3>2, AcceptKeepsPermits
    <2> QED  BY <2>4, <2>5, <2>6, <2>7, <2>8
  <1>14. ASSUME NEW c \in Conns, Upgrade(c) \/ TunnelJoins(c) PROVE ServeInv'
    <2>1. /\ UNCHANGED <<stage, permits, loop, quic, conn, expired>>
          /\ \/ /\ conn[c] = "busy" /\ tunnel[c] = "none"
                /\ guards' = [guards EXCEPT ![c] = @ \cup {"tunnel"}]
                /\ tunnel' = [tunnel EXCEPT ![c] = "joining"]
             \/ /\ tunnel[c] = "joining" /\ guards' = guards
                /\ tunnel' = [tunnel EXCEPT ![c] = "splicing"]
      BY <1>14 DEF Upgrade, Switch, TunnelJoins
    <2>2. ServeTypeOK'
      <3>1. guards' \in [Conns -> SUBSET {"task", "tunnel"}]
        <4>1. CASE guards' = guards  BY <1>t, <4>1
        <4>2. CASE guards' = [guards EXCEPT ![c] = @ \cup {"tunnel"}]
          <5>1. guards[c] \cup {"tunnel"} \in SUBSET {"task", "tunnel"}  BY <1>t
          <5> QED  BY <1>t, <4>2, <5>1
        <4> QED  BY <2>1, <4>1, <4>2
      <3>2. tunnel' \in [Conns -> {"none", "joining", "splicing"}]  BY <1>t, <2>1
      <3> QED  BY <2>1, <3>1, <3>2 DEF ServeTypeOK
    <2>3. GuardsExact'
      <3> SUFFICES ASSUME NEW d \in Conns
                   PROVE  /\ "task" \in guards'[d] <=> conn'[d] \in InTask
                          /\ "tunnel" \in guards'[d] <=> tunnel'[d] # "none"
        BY DEF GuardsExact
      <3>1. CASE d = c
        <4>1. tunnel'[c] # "none"  BY <1>t, <2>1
        <4>2. "task" \in guards'[c] <=> "task" \in guards[c]  BY <1>t, <2>1
        <4>3. "tunnel" \in guards'[c]  BY <1>t, <2>1 DEF GuardsExact
        <4> QED  BY <2>1, <3>1, <4>1, <4>2, <4>3 DEF GuardsExact
      <3>2. CASE d # c
        <4>1. guards'[d] = guards[d] /\ tunnel'[d] = tunnel[d]  BY <1>t, <2>1, <3>2
        <4> QED  BY <2>1, <4>1 DEF GuardsExact
      <3> QED  BY <3>1, <3>2
    <2>4. TunnelAfterTask'
      <3>1. \A d \in Conns : d # c => tunnel'[d] = tunnel[d]  BY <1>t, <2>1
      <3>2. conn[c] \notin {"none", "arriving"}  BY <2>1 DEF TunnelAfterTask
      <3> QED  BY <2>1, <3>1, <3>2 DEF TunnelAfterTask
    <2>5. ClosedQuic' /\ Unbroken' /\ StillServing'
      BY <2>1 DEF ClosedQuic, Unbroken, StillServing
    <2>6. PermitsExact'
      <3>1. \A d \in Conns : d # c => tunnel'[d] = tunnel[d]  BY <1>t, <2>1
      <3>2. c \in Live /\ c \in Live'
        <4>1. tunnel'[c] # "none"  BY <1>t, <2>1
        <4> QED  BY <2>1, <4>1 DEF Live, InTask
      <3>3. Live' = Live
        <4>1. \A d \in Conns : d \in Live' <=> d \in Live  BY <2>1, <3>1, <3>2 DEF Live
        <4> QED  BY <4>1 DEF Live
      <3>4. permits' = permits + 0 /\ LoopBit' + QuicBit' = LoopBit + QuicBit - 0
        BY <1>t, <2>1 DEF LoopBit, QuicBit
      <3> QED  BY <3>3, <3>4, SameLive
    <2> QED  BY <2>2, <2>3, <2>4, <2>5, <2>6
  <1>15. ASSUME NEW c \in Conns, TunnelCloses(c) \/ TunnelDrained(c) PROVE ServeInv'
    <2>1. /\ UNCHANGED <<stage, loop, quic, conn, expired>> /\ tunnel[c] # "none"
          /\ tunnel' = [tunnel EXCEPT ![c] = "none"] /\ Drops("tunnel", {c})
      BY <1>15 DEF TunnelCloses, TunnelDrained, TunnelOver
    <2>2. /\ guards' = [d \in Conns |-> IF d \in {c} THEN guards[d] \ {"tunnel"} ELSE guards[d]]
          /\ permits' = permits + Cardinality({d \in {c} : guards[d] = {"tunnel"}})
      BY <2>1 DEF Drops
    <2>3. permits' \in Nat
      <3>1. {d \in {c} : guards[d] = {"tunnel"}} \in SUBSET Live  BY GuardedIsLive
      <3>2. Cardinality({d \in {c} : guards[d] = {"tunnel"}}) \in Nat
        BY <3>1, LiveIsFinite, FS_Subset, FS_CardinalityType
      <3> QED  BY <1>t, <2>2, <3>2
    <2>4. ServeTypeOK'
      <3>1. guards' \in [Conns -> SUBSET {"task", "tunnel"}]  BY <1>t, <2>2
      <3>2. tunnel' \in [Conns -> {"none", "joining", "splicing"}]  BY <1>t, <2>1
      <3> QED  BY <2>1, <2>3, <3>1, <3>2 DEF ServeTypeOK
    <2>5. GuardsExact'
      <3>1. \A d \in Conns : tunnel'[d] = IF d = c THEN "none" ELSE tunnel[d]  BY <1>t, <2>1
      <3>2. \A d \in Conns : guards'[d] = IF d = c THEN guards[d] \ {"tunnel"} ELSE guards[d]
        BY <2>2
      <3> QED  BY <2>1, <3>1, <3>2 DEF GuardsExact
    <2>6. TunnelAfterTask' /\ ClosedQuic' /\ Unbroken' /\ StillServing'
      BY <1>t, <2>1 DEF TunnelAfterTask, ClosedQuic, Unbroken, StillServing
    <2>7. PermitsExact'  BY <2>1, <2>4, <2>5, DropsKeepPermits
    <2> QED  BY <2>4, <2>5, <2>6, <2>7
  <1>16. ASSUME NEW c \in Conns, OpenFails(c) \/ QuicCut(c) PROVE ServeInv'
    <2>1. /\ EndTask({c}) /\ conn[c] \in InTask /\ UNCHANGED <<stage, loop, quic, tunnel, expired>>
          /\ conn[c] = "opening" \/ (quic = "closing" /\ c \in Quic)
      BY <1>16 DEF OpenFails, QuicCut, InTask
    <2>2. conn[c] = "busy" => expired'  BY <2>1 DEF ClosedQuic
    <2>3. stage \in {"serving", "grace", "drain", "h3", "flush", "returned"}  BY DEF ServeTypeOK
    <2> QED  BY <1>5, <2>1, <2>2, <2>3
  <1>17. ASSUME NEW c \in Conns, Notice(c) PROVE ServeInv'
    <2>1. CASE conn[c] = "idle"
      <3>1. EndTask({c}) /\ conn[c] \in InTask /\ UNCHANGED <<stage, loop, quic, tunnel, expired>>
        BY <1>17, <2>1 DEF Notice, NoticeDrain, InTask
      <3>2. stage \in {"serving", "grace", "drain", "h3", "flush", "returned"}  BY DEF ServeTypeOK
      <3> QED  BY <1>5, <2>1, <3>1, <3>2
    <2>2. CASE conn[c] # "idle"
      BY <1>0, <1>17, <2>2 DEF Notice, NoticeDrain
    <2> QED  BY <2>1, <2>2
  <1>18. CASE DrainExpires
    <2>1. /\ stage' = "h3" /\ expired' /\ EndTask({c \in Tcp : conn[c] \in InTask})
          /\ UNCHANGED <<loop, quic, tunnel>>
      BY <1>18 DEF DrainExpires
    <2>2. {c \in Tcp : conn[c] \in InTask} \in SUBSET Conns  BY <1>t
    <2> QED  BY <1>5, <2>1, <2>2
  <1>19. CASE Reload \/ AdminFills \/ AdminFrees \/ AdminDrains \/ UNCHANGED serveVars
    BY <1>0, <1>19 DEF Reload, AdminFills, AdminFrees, AdminDrains, serveVars
  <1> QED
    <2> HIDE DEF ServeInv
    <2>1. ASSUME NEW c \in Conns, Client(c) \/ Task(c) PROVE ServeInv'
      BY <1>2, <1>3, <1>4, <1>14, <1>15, <1>16, <1>17, <2>1 DEF Client, Task
    <2>2. CASE Loops  BY <1>7, <1>8, <1>13, <2>2 DEF Loops
    <2>3. CASE Shutdown  BY <1>7, <1>8, <1>10, <1>11, <1>12, <1>18, <1>19, <2>3 DEF Shutdown
    <2> QED  BY <1>10, <1>19, <2>1, <2>2, <2>3 DEF ServeNext

-----------------------------------------------------------------------------
(* ProxyHeader.  The reader holds nothing or the fixed prefix, and what it *)
(* decides from what it holds is what the whole stream says.               *)
LEMMA PartIs ==
  ASSUME NEW s, NEW m \in Nat \ {0}, NEW n \in Nat, m <= n + 1
  PROVE  /\ SubSeq(s, m, n) = [i \in 1..(n - m + 1) |-> s[m + i - 1]]
         /\ Len(SubSeq(s, m, n)) = n - m + 1
  <1> DEFINE S == {s[i] : i \in m..n}
  <1>1. \A i \in m..n : s[i] \in S  OBVIOUS
  <1> HIDE DEF S
  <1>2. /\ SubSeq(s, m, n) \in Seq(S)
        /\ Len(SubSeq(s, m, n)) = n - m + 1
        /\ \A i \in 1..(n - m + 1) : SubSeq(s, m, n)[i] = s[m + i - 1]
    BY <1>1, SubSeqProperties
  <1>3. SubSeq(s, m, n) \in [1..(n - m + 1) -> S]
    BY <1>2, LenProperties
  <1> QED  BY <1>2, <1>3

LEMMA PrefixIs ==
  ASSUME NEW s, NEW n \in Nat
  PROVE  SubSeq(s, 1, n) = [i \in 1..n |-> s[i]] /\ Len(SubSeq(s, 1, n)) = n
  BY PartIs

LEMMA StartsMeans ==
  ASSUME NEW s, Len(s) \in Nat
  PROVE  Starts(s, SigLen)
           <=> \A i \in 1..SigLen : i <= Len(s) => s[i] = "sig"
  <1> DEFINE k == Least(SigLen, Len(s))
  <1>1. k \in Nat /\ k <= SigLen /\ k <= Len(s) /\ (k = SigLen \/ k = Len(s))
    BY HeaderAssumption DEF Least
  <1> HIDE DEF k
  <1>2. SubSeq(s, 1, k) = [i \in 1..k |-> s[i]]  BY <1>1, PrefixIs
  <1>3. SubSeq(SIGNATURE, 1, k) = [i \in 1..k |-> "sig"]
    <2>1. SubSeq(SIGNATURE, 1, k) = [i \in 1..k |-> SIGNATURE[i]]  BY <1>1, PrefixIs
    <2>2. \A i \in 1..k : SIGNATURE[i] = "sig"  BY <1>1, HeaderAssumption DEF SIGNATURE
    <2> QED  BY <2>1, <2>2
  <1>4. Starts(s, SigLen) <=> \A i \in 1..k : s[i] = "sig"
    BY <1>2, <1>3 DEF Starts, k
  <1>5. \A i \in 1..SigLen : i <= Len(s) <=> i \in 1..k
    BY <1>1, HeaderAssumption
  <1>6. \A i \in 1..k : i \in 1..SigLen  BY <1>1, HeaderAssumption
  <1> QED  BY <1>4, <1>5, <1>6

(* What the parser makes of the first n bytes, when the prefix is there.   *)
LEMMA ParseOutcome ==
  ASSUME NEW s \in Streams, NEW n \in Nat, PrefixLen <= n, n <= Len(s),
         NEW got, got = parse_proxy_v2(SubSeq(s, 1, n))
  PROVE  /\ got.t = "complete" => /\ Valid(s) /\ got.peer = Names(s)
                                  /\ PrefixLen + Declared(s) <= n
         /\ got.t = "incomplete" => got.needed = PrefixLen + Declared(s) /\ n < got.needed
  <1> DEFINE buf == SubSeq(s, 1, n)
             v == s[SigLen + 1]
             f == s[SigLen + 2]
             d == s[SigLen + 3]
  <1>1. /\ Len(s) \in Nat /\ PrefixLen \in Nat /\ PrefixLen = SigLen + 3 /\ SigLen \in Nat
        /\ f \in {"v4", "v6", "other"} /\ d \in Nat /\ MaxDeclared \in Nat /\ d = Declared(s)
    BY StreamsAssumption, HeaderAssumption DEF PrefixLen, Declared
  <1>2. buf = [i \in 1..n |-> s[i]] /\ Len(buf) = n  BY PrefixIs
  <1>3. buf[SigLen + 1] = v /\ buf[SigLen + 2] = f /\ buf[SigLen + 3] = d
    BY <1>1, <1>2
  <1>4. Starts(buf, SigLen) <=> Starts(s, SigLen)
    <2>1. \A i \in 1..SigLen : i <= n /\ i <= Len(s) /\ buf[i] = s[i]  BY <1>1, <1>2
    <2>2. Len(buf) \in Nat  BY <1>2
    <2> HIDE DEF buf
    <2>3. Starts(buf, SigLen) <=> \A i \in 1..SigLen : i <= Len(buf) => buf[i] = "sig"
      BY <2>2, StartsMeans
    <2>4. Starts(s, SigLen) <=> \A i \in 1..SigLen : i <= Len(s) => s[i] = "sig"
      BY <1>1, StartsMeans
    <2> QED  BY <1>2, <2>1, <2>3, <2>4
  <1>5. got = IF ~Starts(s, SigLen) THEN Fault ELSE ParseBody(buf, v, f, d)
    BY <1>1, <1>2, <1>3, <1>4 DEF parse_proxy_v2
  <1> HIDE DEF buf, v, f, d
  <1>6. CASE ~Starts(s, SigLen)  BY <1>5, <1>6 DEF Fault
  <1>7. ASSUME Starts(s, SigLen) PROVE s \in HeaderStreams
    BY <1>1, <1>7 DEF HeaderStreams
  <1>8. CASE Starts(s, SigLen) /\ v = "local" /\ d <= MaxDeclared
    <2>1. got = IF n < PrefixLen + d THEN Incomplete(PrefixLen + d) ELSE Complete(Real)
      BY <1>1, <1>2, <1>5, <1>8 DEF ParseBody
    <2>2. n < PrefixLen + d => got.t = "incomplete" /\ got.needed = PrefixLen + d
      BY <2>1 DEF Incomplete
    <2>3. ~(n < PrefixLen + d) => got.t = "complete" /\ got.peer = Real
      BY <2>1 DEF Complete
    <2>4. Names(s) = Real  BY <1>8 DEF Names, v
    <2>5. ~(n < PrefixLen + d) => Valid(s)  BY <1>1, <1>7, <1>8 DEF Valid, v
    <2> QED  BY <1>1, <2>2, <2>3, <2>4, <2>5
  <1>9. CASE /\ Starts(s, SigLen) /\ v = "proxy" /\ d <= MaxDeclared
             /\ f # "other" /\ d >= Need(f)
    <2> DEFINE p == ParseSrc(SubSeq(buf, PrefixLen + 1, PrefixLen + Need(f)))
    <2>1. got = IF n < PrefixLen + d THEN Incomplete(PrefixLen + d) ELSE Complete(p)
      <3>1. Need(f) \in {2, 4}  BY <1>1, <1>9 DEF Need
      <3>2. ~(d < Need(f)) /\ ~(d > MaxDeclared)  BY <1>1, <1>9, <3>1
      <3>3. got = ParseBody(buf, v, f, d)  BY <1>5, <1>9
      <3> QED  BY <1>2, <1>9, <3>2, <3>3 DEF ParseBody
    <2>2. n < PrefixLen + d => got.t = "incomplete" /\ got.needed = PrefixLen + d
      BY <2>1 DEF Incomplete
    <2>3. ~(n < PrefixLen + d) => got.t = "complete" /\ got.peer = p
      BY <2>1 DEF Complete
    <2>4. Need(f) \in {2, 4}  BY <1>1, <1>9 DEF Need
    <2>5. ASSUME ~(n < PrefixLen + d) PROVE p = Names(s)
      <3> DEFINE block == SubSeq(buf, PrefixLen + 1, PrefixLen + Need(f))
                 h == Need(f) \div 2
      <3>1. h \in Nat /\ h <= Need(f) /\ Need(f) \in Nat  BY <2>4
      <3>2. block = [i \in 1..Need(f) |-> buf[PrefixLen + i]] /\ Len(block) = Need(f)
        <4>1. PrefixLen + 1 \in Nat \ {0} /\ PrefixLen + Need(f) \in Nat
              /\ PrefixLen + 1 <= PrefixLen + Need(f) + 1
              /\ PrefixLen + Need(f) - (PrefixLen + 1) + 1 = Need(f)
          BY <1>1, <3>1
        <4> DEFINE m == PrefixLen + 1
                   e == PrefixLen + Need(f)
        <4> HIDE DEF m, e
        <4>2. m \in Nat \ {0} /\ e \in Nat /\ m <= e + 1  BY <4>1 DEF m, e
        <4>3. /\ SubSeq(buf, m, e) = [i \in 1..(e - m + 1) |-> buf[m + i - 1]]
              /\ Len(SubSeq(buf, m, e)) = e - m + 1
          BY <4>2, PartIs
        <4>4. block = SubSeq(buf, m, e)  BY DEF m, e
        <4>5. e - m + 1 = Need(f) /\ \A i \in 1..Need(f) : m + i - 1 = PrefixLen + i
          BY <1>1, <3>1 DEF m, e
        <4> HIDE DEF block
        <4> QED  BY <4>3, <4>4, <4>5
      <3>3. p = SubSeq(block, 1, h)  BY <3>2 DEF ParseSrc
      <3> HIDE DEF p, block, h
      <3>4. p = [i \in 1..h |-> block[i]]  BY <3>1, <3>3, PrefixIs
      <3>5. \A i \in 1..h : block[i] = s[PrefixLen + i]
        <4> TAKE i \in 1..h
        <4>1. i \in 1..Need(f) /\ PrefixLen + i \in 1..n  BY <1>1, <1>9, <2>5, <3>1
        <4> QED  BY <1>2, <3>2, <4>1
      <3>6. Names(s) = [i \in 1..h |-> s[PrefixLen + i]]  BY <1>9 DEF Names, v, f, h
      <3> QED  BY <3>4, <3>5, <3>6
    <2>6. ~(n < PrefixLen + d) => Valid(s)  BY <1>1, <1>7, <1>9 DEF Valid, v, f
    <2> HIDE DEF p
    <2> QED  BY <1>1, <2>2, <2>3, <2>5, <2>6
  <1>10. CASE /\ Starts(s, SigLen)
              /\ ~(v = "local" /\ d <= MaxDeclared)
              /\ ~(v = "proxy" /\ d <= MaxDeclared /\ f # "other" /\ d >= Need(f))
    <2>1. Need(f) \in {2, 4} \/ f = "other"  BY <1>1 DEF Need
    <2>2. got = Fault
      BY <1>1, <1>5, <1>10, <2>1 DEF ParseBody
    <2> QED  BY <2>2 DEF Fault
  <1> QED  BY <1>6, <1>8, <1>9, <1>10

HeaderReading ==
  verdict = "reading" =>
    /\ stream \in Streams /\ sent \in 0..Len(stream)
    /\ have = 0 \/ /\ trusted /\ have = PrefixLen /\ PrefixLen <= sent
                    /\ parse_proxy_v2(SubSeq(stream, 1, have)).t = "incomplete"
HeaderInv == HeaderReading /\ PeerIsRight

LEMMA HeaderInitInv == HeaderInit \/ HeaderRest => HeaderInv
  <1> SUFFICES ASSUME HeaderInit \/ HeaderRest PROVE HeaderInv
    OBVIOUS
  <1>1. HeaderReading
    BY StreamsAssumption DEF HeaderInit, HeaderRest, HeaderReading
  <1> QED  BY <1>1 DEF HeaderInit, HeaderRest, HeaderInv, PeerIsRight

LEMMA HeaderStepInv == HeaderInv /\ [HeaderNext]_headerVars => HeaderInv'
  <1> SUFFICES ASSUME HeaderInv, [HeaderNext]_headerVars PROVE HeaderInv'
    OBVIOUS
  <1>1. CASE UNCHANGED headerVars
    BY <1>1 DEF headerVars, HeaderInv, HeaderReading, PeerIsRight
  <1>2. SUFFICES ASSUME verdict = "reading", HeaderNext PROVE HeaderInv'
    BY <1>1 DEF HeaderNext, ClientSends, ClientCloses, ReadTrusted, TruncatedTrusted,
                PeekUntrusted, PeekEof, DeadlineEnds, Decide, Peek
  <1>3. /\ stream \in Streams /\ Len(stream) \in Nat /\ sent \in 0..Len(stream) /\ PrefixLen \in Nat
        /\ have = 0 \/ /\ trusted /\ have = PrefixLen /\ PrefixLen <= sent
                        /\ parse_proxy_v2(SubSeq(stream, 1, have)).t = "incomplete"
    BY <1>2, StreamsAssumption, HeaderAssumption DEF HeaderInv, HeaderReading, PrefixLen
  <1>4. CASE ClientSends \/ ClientCloses
    <2>1. /\ UNCHANGED <<trusted, stream, have, verdict, peer>>
          /\ sent' = sent \/ sent' \in (sent + 1)..Len(stream)
      BY <1>4 DEF ClientSends, ClientCloses
    <2>2. sent' \in 0..Len(stream) /\ sent <= sent'  BY <1>3, <2>1
    <2>3. HeaderReading'
      <3>1. have = PrefixLen /\ PrefixLen <= sent => PrefixLen <= sent'  BY <1>3, <2>2
      <3> QED  BY <1>3, <2>1, <2>2, <3>1 DEF HeaderReading
    <2>4. PeerIsRight'  BY <1>2, <2>1 DEF PeerIsRight
    <2> QED  BY <2>3, <2>4 DEF HeaderInv
  <1>5. CASE TruncatedTrusted \/ PeekEof \/ DeadlineEnds
    <2>1. verdict' = "fault"
      BY <1>5 DEF TruncatedTrusted, PeekEof, DeadlineEnds, Decide
    <2> QED  BY <2>1 DEF HeaderInv, HeaderReading, PeerIsRight
  <1>6. CASE PeekUntrusted
    <2> DEFINE k == Least(sent, SigLen)
               seen == SubSeq(stream, 1, k)
    <2>1. /\ ~trusted /\ have' = have /\ UNCHANGED <<trusted, stream>> /\ Peek(seen)
          /\ \/ verdict' = "resolved" /\ peer' = Real /\ ~Starts(seen, SigLen)
             \/ verdict' = "fault"
      BY <1>6 DEF PeekUntrusted, Peek, Decide, Clears
    <2>2. ~Starts(seen, SigLen) => ~Starts(stream, SigLen)
      <3>1. k \in Nat /\ k <= Len(stream)  BY <1>3, HeaderAssumption DEF Least
      <3>2. seen = [i \in 1..k |-> stream[i]] /\ Len(seen) = k  BY <3>1, PrefixIs
      <3> HIDE DEF seen, k
      <3>3. Starts(seen, SigLen) <=> \A i \in 1..SigLen : i <= Len(seen) => seen[i] = "sig"
        BY <3>1, <3>2, StartsMeans
      <3>4. Starts(stream, SigLen) <=> \A i \in 1..SigLen : i <= Len(stream) => stream[i] = "sig"
        BY <1>3, StartsMeans
      <3>5. \A i \in 1..SigLen : i <= k => i <= Len(stream) /\ seen[i] = stream[i]
        BY <1>3, <3>1, <3>2, HeaderAssumption
      <3> QED  BY <3>2, <3>3, <3>4, <3>5
    <2>3. have = 0  BY <1>3, <2>1
    <2> HIDE DEF seen
    <2> QED  BY <2>1, <2>2, <2>3 DEF HeaderInv, HeaderReading, PeerIsRight
  <1>7. CASE ReadTrusted
    <2> DEFINE got == parse_proxy_v2(SubSeq(stream, 1, Wanted))
    <2>1. /\ trusted /\ sent >= Wanted /\ have' = Wanted /\ UNCHANGED <<trusted, stream, sent>>
          /\ \/ got.t = "fault" /\ verdict' = "fault"
             \/ got.t = "complete" /\ verdict' = "resolved" /\ peer' = got.peer
             \/ got.t = "incomplete" /\ verdict' = "reading"
      BY <1>7 DEF ReadTrusted, Decide
    <2>2. \/ have = 0 /\ Wanted = PrefixLen
          \/ have = PrefixLen /\ Wanted = PrefixLen + Declared(stream) /\ PrefixLen < Wanted
      <3>1. CASE have = 0  BY <3>1 DEF Wanted
      <3>2. CASE have # 0
        <4>1. have = PrefixLen /\ PrefixLen <= Len(stream)  BY <1>3, <3>2
        <4>2. /\ parse_proxy_v2(SubSeq(stream, 1, PrefixLen)).needed = PrefixLen + Declared(stream)
              /\ PrefixLen < parse_proxy_v2(SubSeq(stream, 1, PrefixLen)).needed
          BY <1>3, <3>2, <4>1, ParseOutcome
        <4> QED  BY <3>2, <4>1, <4>2 DEF Wanted
      <3> QED  BY <3>1, <3>2
    <2>3. Declared(stream) \in Nat
      <3>1. PrefixLen <= Len(stream)
        <4>1. CASE have = 0  BY <1>3, <2>1, <2>2, <4>1, HeaderAssumption DEF PrefixLen
        <4>2. CASE have # 0  BY <1>3, <4>2
        <4> QED  BY <4>1, <4>2
      <3> QED  BY <1>3, <3>1, StreamsAssumption DEF Declared
    <2>4. Wanted \in Nat /\ PrefixLen <= Wanted /\ Wanted <= Len(stream)
      BY <1>3, <2>1, <2>2, <2>3
    <2>5. /\ got.t = "complete" => /\ Valid(stream) /\ got.peer = Names(stream)
                                   /\ PrefixLen + Declared(stream) <= Wanted
          /\ got.t = "incomplete" => Wanted < PrefixLen + Declared(stream)
      <3> HIDE DEF Wanted
      <3> QED  BY <1>3, <2>4, ParseOutcome
    <2> HIDE DEF got
    <2>6. CASE got.t = "fault" /\ verdict' = "fault"
      BY <2>6 DEF HeaderInv, HeaderReading, PeerIsRight
    <2>7. CASE got.t = "complete" /\ verdict' = "resolved" /\ peer' = got.peer
      <3>1. Wanted = PrefixLen + Declared(stream)  BY <1>3, <2>2, <2>3, <2>4, <2>5, <2>7
      <3>2. PeerIsRight'
        <4>1. Valid(stream)' <=> Valid(stream)  BY <2>1
        <4>2. Names(stream)' = Names(stream) /\ Declared(stream)' = Declared(stream)  BY <2>1
        <4> QED  BY <2>1, <2>5, <2>7, <3>1, <4>1, <4>2 DEF PeerIsRight
      <3> QED  BY <2>7, <3>2 DEF HeaderInv, HeaderReading
    <2>8. CASE got.t = "incomplete" /\ verdict' = "reading"
      <3>1. Wanted = PrefixLen  BY <1>3, <2>2, <2>3, <2>4, <2>5, <2>8
      <3>2. parse_proxy_v2(SubSeq(stream, 1, have))'.t = "incomplete"
        BY <2>1, <2>8 DEF got
      <3>3. HeaderReading'  BY <1>3, <2>1, <3>1, <3>2 DEF HeaderReading
      <3> QED  BY <2>8, <3>3 DEF HeaderInv, PeerIsRight
    <2> QED  BY <2>1, <2>6, <2>7, <2>8
  <1> QED  BY <1>2, <1>4, <1>5, <1>6, <1>7 DEF HeaderNext

-----------------------------------------------------------------------------
(* The request counters.  A name that has counters keeps them, a task that *)
(* is about to add holds the ones the registry names, and a scrape that    *)
(* reads holds a map that is older, never another.                         *)
Count == [ended : Nat, limited : Nat]
Kinds == {"ended", "limited", "duration"}
LoadTask == [at : {"load"}, name : Labels, limit : BOOLEAN, adds : SUBSET Kinds]
RcuTask == [at : {"rcu", "reload"}, name : Labels, limit : BOOLEAN, adds : SUBSET Kinds,
            map : [Labels -> Nat]]
AddTask == [at : {"add"}, name : Labels, limit : BOOLEAN, adds : SUBSET Kinds, cell : Nat]
TaskStates == {IdleTask, Serving} \cup LoadTask \cup RcuTask \cup AddTask
Scrapes == [at : {"idle", "render"}] \cup [at : {"rcu"}, names : SUBSET RouteNames, map : [Labels -> Nat]]
           \cup [at : {"read"}, map : [Labels -> Nat]]
History == [runs : Nat, scrapes : Nat, total : Nat, recorded : [Labels -> Count],
            shown : [Labels -> Count]]

MetricsTypeOK ==
  /\ registry \in [Labels -> Nat] /\ cells \in [Labels -> Seq(Count)]
  /\ observed \in Nat /\ gauge \in Int
  /\ task \in [Tasks -> TaskStates]
  /\ scrape \in Scrapes /\ happened \in History

RegistryKnown == \A n \in Labels : registry[n] <= Len(cells[n])
TasksHold ==
  \A t \in Tasks :
    /\ task[t].at = "reload" => registry[task[t].name] # 0
    /\ task[t].at = "add" => task[t].cell = registry[task[t].name] /\ task[t].cell # 0
ScrapeOlder ==
  scrape.at = "read" => \A n \in Labels : scrape.map[n] = 0 \/ scrape.map[n] = registry[n]
MetricsInv == MetricsTypeOK /\ RegistryKnown /\ TasksHold /\ ScrapeOlder /\ CountersKept

Timed == {t \in Tasks : Recording(t) /\ "duration" \in task[t].adds}
Gauged == {t \in Tasks : task[t] = Serving \/ (Recording(t) /\ task[t].limit)}
In(t, P) == IF t \in P THEN 1 ELSE 0

LEMMA OneMoves ==
  ASSUME NEW t \in Tasks, NEW P \in SUBSET Tasks, NEW Q \in SUBSET Tasks,
         \A u \in Tasks : u # t => (u \in Q <=> u \in P)
  PROVE  /\ Cardinality(P) \in Nat /\ Cardinality(Q) \in Nat
         /\ Cardinality(Q) = Cardinality(P) + In(t, Q) - In(t, P)
  <1>1. IsFiniteSet(P) /\ IsFiniteSet(Q)  BY ExportAssumption, FS_Subset
  <1>2. Cardinality(P) \in Nat /\ Cardinality(Q) \in Nat  BY <1>1, FS_CardinalityType
  <1>3. CASE t \in P <=> t \in Q
    <2>1. P = Q  BY <1>3
    <2> QED  BY <1>2, <2>1 DEF In
  <1>4. CASE t \in Q /\ t \notin P
    <2>1. Q = P \cup {t}  BY <1>4
    <2>2. Cardinality(Q) = Cardinality(P) + 1  BY <1>1, <1>4, <2>1, FS_AddElement
    <2> QED  BY <1>2, <1>4, <2>2 DEF In
  <1>5. CASE t \in P /\ t \notin Q
    <2>1. Q = P \ {t}  BY <1>5
    <2>2. Cardinality(Q) = Cardinality(P) - 1  BY <1>1, <1>5, <2>1, FS_RemoveElement
    <2> QED  BY <1>2, <1>5, <2>2 DEF In
  <1> QED  BY <1>3, <1>4, <1>5

LEMMA MetricsInitInv == MetricsInit => MetricsInv
  <1> SUFFICES ASSUME MetricsInit PROVE MetricsInv
    OBVIOUS
  <1>1. Zero \in Count  BY DEF Zero, Count
  <1>2. MetricsTypeOK
    <2>1. registry \in [Labels -> Nat] /\ observed \in Nat /\ gauge \in Int
      BY DEF MetricsInit
    <2>2. cells \in [Labels -> Seq(Count)]
      BY <1>1 DEF MetricsInit
    <2>3. task \in [Tasks -> TaskStates]  BY DEF MetricsInit, TaskStates
    <2>4. scrape \in Scrapes  BY DEF MetricsInit, Scrapes
    <2>5. happened \in History  BY <1>1 DEF MetricsInit, History
    <2> QED  BY <2>1, <2>2, <2>3, <2>4, <2>5 DEF MetricsTypeOK
  <1>3. RegistryKnown
    <2> SUFFICES ASSUME NEW n \in Labels PROVE registry[n] <= Len(cells[n])
      BY DEF RegistryKnown
    <2> QED  BY DEF MetricsInit
  <1>4. TasksHold /\ ScrapeOlder
    BY DEF MetricsInit, TasksHold, ScrapeOlder, IdleTask
  <1>5. CountersKept
    <2>1. \A n \in Labels : Series(n) = Zero
      <3> SUFFICES ASSUME NEW n \in Labels PROVE Series(n) = Zero
        OBVIOUS
      <3>1. CASE n = Unmatched
        BY <3>1 DEF MetricsInit, Series
      <3>2. CASE n # Unmatched  BY <3>2 DEF MetricsInit, Series
      <3> QED  BY <3>1, <3>2
    <2>2. \A n, what : Pending(n, what) = {}
      BY DEF MetricsInit, Pending, Recording, IdleTask
    <2>3. Timed = {} /\ Gauged = {}
      BY DEF MetricsInit, Timed, Gauged, Recording, IdleTask, Serving
    <2>4. Cardinality({}) = 0  BY FS_EmptySet
    <2>5. ASSUME NEW n \in Labels, NEW what \in {"ended", "limited"}
          PROVE  /\ happened.recorded[n][what] = Series(n)[what] + Cardinality(Pending(n, what))
                 /\ happened.shown[n][what] <= Series(n)[what]
      <3>1. Series(n) = Zero /\ Cardinality(Pending(n, what)) = 0  BY <2>1, <2>2, <2>4
      <3>2. happened.recorded[n] = Zero /\ happened.shown[n] = Zero  BY DEF MetricsInit
      <3>3. Zero[what] = 0  BY DEF Zero
      <3> QED  BY <3>1, <3>2, <3>3
    <2>6. happened.total = observed + Cardinality(Timed)  BY <2>3, <2>4 DEF MetricsInit
    <2>7. gauge = Cardinality(Gauged)  BY <2>3, <2>4 DEF MetricsInit
    <2> QED  BY <2>5, <2>6, <2>7 DEF CountersKept, Timed, Gauged
  <1> QED  BY <1>2, <1>3, <1>4, <1>5 DEF MetricsInv

LEMMA SeriesCounts == MetricsTypeOK /\ RegistryKnown => \A n \in Labels : Series(n) \in Count
  <1> SUFFICES ASSUME MetricsTypeOK, RegistryKnown, NEW n \in Labels PROVE Series(n) \in Count
    OBVIOUS
  <1>1. CASE registry[n] = 0  BY <1>1 DEF Series, Zero, Count
  <1>2. CASE registry[n] # 0
    <2>1. registry[n] \in 1..Len(cells[n]) /\ cells[n] \in Seq(Count)
      <3>1. registry[n] \in Nat /\ cells[n] \in Seq(Count)  BY DEF MetricsTypeOK
      <3>2. Len(cells[n]) \in Nat  BY <3>1, LenProperties
      <3> QED  BY <1>2, <3>1, <3>2 DEF RegistryKnown
    <2>2. cells[n][registry[n]] \in Count  BY <2>1, ElementOfSeq
    <2> QED  BY <1>2, <2>2 DEF Series
  <1> QED  BY <1>1, <1>2

(* Registering names adds counters at zero and replaces none.              *)
LEMMA InstallKeeps ==
  ASSUME MetricsInv, NEW names \in SUBSET Labels, Install(registry, names)
  PROVE  /\ registry' \in [Labels -> Nat] /\ cells' \in [Labels -> Seq(Count)] /\ RegistryKnown'
         /\ \A n \in Labels : registry[n] # 0 => registry'[n] = registry[n]
         /\ \A n \in names : registry'[n] # 0
         /\ \A n \in Labels : Series(n)' = Series(n)
  <1> DEFINE New(n) == n \in names /\ registry[n] = 0
  <1>1. \A n \in Labels : /\ registry[n] \in Nat /\ cells[n] \in Seq(Count) /\ Len(cells[n]) \in Nat
                          /\ registry[n] <= Len(cells[n])
    BY LenProperties DEF MetricsInv, MetricsTypeOK, RegistryKnown
  <1>2. /\ registry' = [n \in Labels |-> IF New(n) THEN Len(cells[n]) + 1 ELSE registry[n]]
        /\ cells' = [n \in Labels |-> IF New(n) THEN Append(cells[n], Zero) ELSE cells[n]]
    BY DEF Install, Registered
  <1>3. Zero \in Count  BY DEF Zero, Count
  <1>4. ASSUME NEW n \in Labels
        PROVE  /\ Append(cells[n], Zero) \in Seq(Count)
               /\ Len(Append(cells[n], Zero)) = Len(cells[n]) + 1
               /\ Append(cells[n], Zero)[Len(cells[n]) + 1] = Zero
    BY <1>1, <1>3, AppendProperties
  <1> HIDE DEF New
  <1>5. registry' \in [Labels -> Nat]  BY <1>1, <1>2
  <1>6. cells' \in [Labels -> Seq(Count)]  BY <1>1, <1>2, <1>4
  <1>7. ASSUME NEW n \in Labels
        PROVE  registry'[n] <= Len(cells'[n]) /\ Series(n)' = Series(n)
    <2>1. CASE New(n)
      <3>1. registry'[n] = Len(cells[n]) + 1 /\ cells'[n] = Append(cells[n], Zero) /\ registry[n] = 0
        BY <1>2, <2>1 DEF New
      <3>2. registry'[n] # 0  BY <1>1, <3>1
      <3>3. Series(n)' = Zero  BY <1>4, <3>1, <3>2 DEF Series
      <3>4. Series(n) = Zero  BY <3>1 DEF Series
      <3> QED  BY <1>1, <1>4, <3>1, <3>3, <3>4
    <2>2. CASE ~New(n)
      <3>1. registry'[n] = registry[n] /\ cells'[n] = cells[n]  BY <1>2, <2>2
      <3> QED  BY <1>1, <3>1 DEF Series
    <2> QED  BY <2>1, <2>2
  <1>8. RegistryKnown'  BY <1>7 DEF RegistryKnown
  <1>9. \A n \in Labels : registry[n] # 0 => registry'[n] = registry[n]  BY <1>2 DEF New
  <1>10. \A n \in names : registry'[n] # 0  BY <1>1, <1>2 DEF New
  <1> QED  BY <1>5, <1>6, <1>7, <1>8, <1>9, <1>10

(* One task moves: what it takes from the counts still to be made is what  *)
(* the counters gain.                                                      *)
LEMMA CountersMove ==
  ASSUME MetricsInv, MetricsTypeOK', RegistryKnown', NEW t \in Tasks,
         \A u \in Tasks : u # t => task'[u] = task[u],
         \A n \in Labels, what \in {"ended", "limited"} :
           /\ Series(n)[what] <= Series(n)'[what]
           /\ happened'.recorded[n][what] - Series(n)'[what] - In(t, Pending(n, what)')
                = happened.recorded[n][what] - Series(n)[what] - In(t, Pending(n, what)),
         happened'.shown = happened.shown,
         happened'.total - observed' - In(t, Timed') = happened.total - observed - In(t, Timed),
         gauge' - In(t, Gauged') = gauge - In(t, Gauged)
  PROVE  CountersKept'
  <1>1. \A n \in Labels : Series(n) \in Count /\ Series(n)' \in Count
    <2>1. (MetricsTypeOK /\ RegistryKnown)' => (\A n \in Labels : Series(n) \in Count)'
      BY SeriesCounts, PTL
    <2>2. (\A n \in Labels : Series(n) \in Count)'  BY <2>1
    <2>3. \A n \in Labels : Series(n)' \in Count  BY <2>2 DEF Series, Count
    <2> QED  BY <2>3, SeriesCounts DEF MetricsInv
  <1>2. \A u \in Tasks : u # t =>
          /\ Recording(u)' <=> Recording(u)
          /\ task'[u] = task[u]
    BY DEF Recording
  <1>3. ASSUME NEW n \in Labels, NEW what \in {"ended", "limited"}
        PROVE  /\ happened'.recorded[n][what] = Series(n)'[what] + Cardinality(Pending(n, what)')
               /\ happened'.shown[n][what] <= Series(n)'[what]
    <2>1. Pending(n, what) \in SUBSET Tasks /\ Pending(n, what)' \in SUBSET Tasks
      BY DEF Pending
    <2>2. \A u \in Tasks : u # t => (u \in Pending(n, what)' <=> u \in Pending(n, what))
      BY <1>2 DEF Pending
    <2>3. PICK P, Q \in SUBSET Tasks : P = Pending(n, what) /\ Q = Pending(n, what)'
      BY <2>1
    <2>4. /\ Cardinality(P) \in Nat /\ Cardinality(Q) \in Nat
          /\ Cardinality(Q) = Cardinality(P) + In(t, Q) - In(t, P)
      BY <2>2, <2>3, OneMoves
    <2>5. In(t, P) \in Nat /\ In(t, Q) \in Nat  BY DEF In
    <2>6. PICK a, b, r, q, z \in Nat :
            /\ a = Series(n)[what] /\ b = Series(n)'[what]
            /\ r = happened.recorded[n][what] /\ q = happened'.recorded[n][what]
            /\ z = happened.shown[n][what] /\ z = happened'.shown[n][what]
      <3>1. Series(n)[what] \in Nat /\ Series(n)'[what] \in Nat  BY <1>1 DEF Count
      <3>2. /\ happened.recorded[n] \in Count /\ happened'.recorded[n] \in Count
            /\ happened.shown[n] \in Count /\ happened'.shown[n] = happened.shown[n]
        BY DEF MetricsInv, MetricsTypeOK, History
      <3>3. \A k \in Count : k[what] \in Nat  BY DEF Count
      <3> QED  BY <3>1, <3>2, <3>3
    <2>7. r = a + Cardinality(P) /\ z <= a
      BY <2>3, <2>6 DEF MetricsInv, CountersKept
    <2>8. a <= b /\ q - b - In(t, Q) = r - a - In(t, P)
      BY <2>3, <2>6
    <2>9. q = b + Cardinality(Q) /\ z <= b  BY <2>4, <2>5, <2>6, <2>7, <2>8
    <2> QED  BY <2>3, <2>6, <2>9
  <1>4. happened'.total = observed' + Cardinality(Timed')
    <2>1. Timed \in SUBSET Tasks /\ Timed' \in SUBSET Tasks  BY DEF Timed
    <2>2. \A u \in Tasks : u # t => (u \in Timed' <=> u \in Timed)  BY <1>2 DEF Timed
    <2>3. PICK P, Q \in SUBSET Tasks : P = Timed /\ Q = Timed'  BY <2>1
    <2>4. /\ Cardinality(P) \in Nat /\ Cardinality(Q) \in Nat
          /\ Cardinality(Q) = Cardinality(P) + In(t, Q) - In(t, P)
      BY <2>2, <2>3, OneMoves
    <2>5. In(t, P) \in Nat /\ In(t, Q) \in Nat  BY DEF In
    <2>6. happened.total = observed + Cardinality(P)
      BY <2>3 DEF MetricsInv, CountersKept, Timed
    <2>7. happened'.total - observed' - In(t, Q) = happened.total - observed - In(t, P)
      BY <2>3
    <2>8. observed \in Nat /\ observed' \in Nat /\ happened.total \in Nat /\ happened'.total \in Nat
      BY DEF MetricsInv, MetricsTypeOK, History
    <2>9. happened'.total = observed' + Cardinality(Q)  BY <2>4, <2>5, <2>6, <2>7, <2>8
    <2> QED  BY <2>3, <2>9
  <1>5. gauge' = Cardinality(Gauged')
    <2>1. Gauged \in SUBSET Tasks /\ Gauged' \in SUBSET Tasks  BY DEF Gauged
    <2>2. \A u \in Tasks : u # t => (u \in Gauged' <=> u \in Gauged)  BY <1>2 DEF Gauged
    <2>3. PICK P, Q \in SUBSET Tasks : P = Gauged /\ Q = Gauged'  BY <2>1
    <2>4. /\ Cardinality(P) \in Nat /\ Cardinality(Q) \in Nat
          /\ Cardinality(Q) = Cardinality(P) + In(t, Q) - In(t, P)
      BY <2>2, <2>3, OneMoves
    <2>5. In(t, P) \in Nat /\ In(t, Q) \in Nat  BY DEF In
    <2>6. gauge = Cardinality(P)  BY <2>3 DEF MetricsInv, CountersKept, Gauged
    <2>7. gauge' - In(t, Q) = gauge - In(t, P)  BY <2>3
    <2>8. gauge \in Int /\ gauge' \in Int  BY DEF MetricsInv, MetricsTypeOK
    <2>9. gauge' = Cardinality(Q)  BY <2>4, <2>5, <2>6, <2>7, <2>8
    <2> QED  BY <2>3, <2>9
  <1> QED  BY <1>3, <1>4, <1>5 DEF CountersKept, Timed, Gauged

LEMMA CountersStill ==
  ASSUME MetricsInv, MetricsTypeOK', UNCHANGED <<task, observed, gauge>>,
         happened'.recorded = happened.recorded, happened'.total = happened.total,
         \A n \in Labels : Series(n)' = Series(n),
         \A n \in Labels, what \in {"ended", "limited"} : happened'.shown[n][what] <= Series(n)[what]
  PROVE  CountersKept'
  <1>1. \A n \in Labels, what \in {"ended", "limited"} : Pending(n, what)' = Pending(n, what)
    BY DEF Pending, Recording
  <1>2. Timed' = Timed /\ Gauged' = Gauged  BY DEF Timed, Gauged, Recording
  <1>3. ASSUME NEW n \in Labels, NEW what \in {"ended", "limited"}
        PROVE  /\ happened'.recorded[n][what] = Series(n)'[what] + Cardinality(Pending(n, what)')
               /\ happened'.shown[n][what] <= Series(n)'[what]
    <2>1. happened.recorded[n][what] = Series(n)[what] + Cardinality(Pending(n, what))
      BY DEF MetricsInv, CountersKept
    <2> QED  BY <1>1, <2>1
  <1>4. happened'.total = observed' + Cardinality(Timed') /\ gauge' = Cardinality(Gauged')
    BY <1>2 DEF MetricsInv, CountersKept, Timed, Gauged
  <1> QED  BY <1>3, <1>4 DEF CountersKept, Timed, Gauged

LEMMA TaskStep ==
  ASSUME MetricsInv, NEW t \in Tasks, NEW k \in TaskStates, task' = [task EXCEPT ![t] = k],
         UNCHANGED <<registry, cells, observed, scrape>>,
         happened' \in History, gauge' \in Int, happened'.shown = happened.shown,
         k.at = "reload" => registry[k.name] # 0,
         k.at = "add" => k.cell = registry[k.name] /\ k.cell # 0,
         \A n \in Labels, what \in {"ended", "limited"} :
           happened'.recorded[n][what] - In(t, Pending(n, what)')
             = happened.recorded[n][what] - In(t, Pending(n, what)),
         happened'.total - In(t, Timed') = happened.total - In(t, Timed),
         gauge' - In(t, Gauged') = gauge - In(t, Gauged)
  PROVE  MetricsInv'
  <1>1. task'[t] = k /\ \A u \in Tasks : u # t => task'[u] = task[u]
    BY DEF MetricsInv, MetricsTypeOK
  <1>2. MetricsTypeOK'  BY DEF MetricsInv, MetricsTypeOK
  <1>3. RegistryKnown' /\ ScrapeOlder'  BY DEF MetricsInv, RegistryKnown, ScrapeOlder
  <1>4. TasksHold'  BY <1>1 DEF MetricsInv, TasksHold
  <1>5. CountersKept'
    <2>1. ASSUME NEW n \in Labels, NEW what \in {"ended", "limited"}
          PROVE  /\ Series(n)[what] <= Series(n)'[what]
                 /\ happened'.recorded[n][what] - Series(n)'[what] - In(t, Pending(n, what)')
                      = happened.recorded[n][what] - Series(n)[what] - In(t, Pending(n, what))
      <3>1. Series(n)' = Series(n)  BY DEF Series
      <3>2. PICK a \in Nat : a = Series(n)[what]
        <4>1. Series(n) \in Count  BY SeriesCounts DEF MetricsInv
        <4> QED  BY <4>1 DEF Count
      <3>3. PICK r, q \in Nat : r = happened.recorded[n][what] /\ q = happened'.recorded[n][what]
        <4>1. happened.recorded[n] \in Count /\ happened'.recorded[n] \in Count
          BY DEF MetricsInv, MetricsTypeOK, History
        <4> QED  BY <4>1 DEF Count
      <3>4. PICK i, j \in Nat : i = In(t, Pending(n, what)) /\ j = In(t, Pending(n, what)')
        BY DEF In
      <3>5. q - j = r - i  BY <3>3, <3>4
      <3>6. a <= a /\ q - a - j = r - a - i  BY <3>2, <3>3, <3>4, <3>5
      <3> QED  BY <3>1, <3>2, <3>3, <3>4, <3>6
    <2>2. happened'.total - observed' - In(t, Timed') = happened.total - observed - In(t, Timed)
      <3>1. PICK r, q \in Nat : r = happened.total /\ q = happened'.total
        BY DEF MetricsInv, MetricsTypeOK, History
      <3>2. PICK i, j \in Nat : i = In(t, Timed) /\ j = In(t, Timed')
        BY DEF In
      <3>3. observed \in Nat /\ observed' = observed  BY DEF MetricsInv, MetricsTypeOK
      <3>4. q - j = r - i  BY <3>1, <3>2
      <3>5. q - observed - j = r - observed - i  BY <3>1, <3>2, <3>3, <3>4
      <3> QED  BY <3>1, <3>2, <3>3, <3>5
    <2> QED  BY <1>1, <1>2, <1>3, <2>1, <2>2, CountersMove
  <1> QED  BY <1>2, <1>3, <1>4, <1>5 DEF MetricsInv

(* New counters disturb neither a task nor a scrape.                       *)
Undisturbed ==
  /\ \A n \in Labels : registry[n] # 0 => registry'[n] = registry[n]
  /\ scrape' = scrape \/ scrape'.at # "read"
  /\ \A u \in Tasks : \/ task'[u] = task[u]
                      \/ task'[u].at = "reload" /\ registry'[task'[u].name] # 0

LEMMA UndisturbedHold ==
  ASSUME MetricsInv, Undisturbed
  PROVE  TasksHold' /\ ScrapeOlder'
  <1>1. \A n \in Labels : registry[n] # 0 => registry'[n] = registry[n]  BY DEF Undisturbed
  <1>2. TasksHold'
    <2> SUFFICES ASSUME NEW u \in Tasks
                 PROVE  /\ task'[u].at = "reload" => registry'[task'[u].name] # 0
                        /\ task'[u].at = "add" => task'[u].cell = registry'[task'[u].name] /\ task'[u].cell # 0
      BY DEF TasksHold
    <2>1. CASE task'[u] = task[u]
      <3>1. task[u].at \in {"reload", "add"} => task[u].name \in Labels
        <4>1. task[u] \in TaskStates  BY DEF MetricsInv, MetricsTypeOK
        <4> QED  BY <4>1 DEF TaskStates, IdleTask, Serving, LoadTask, RcuTask, AddTask
      <3> QED  BY <1>1, <2>1, <3>1 DEF MetricsInv, TasksHold
    <2>2. CASE task'[u].at = "reload" /\ registry'[task'[u].name] # 0  BY <2>2
    <2> QED  BY <2>1, <2>2 DEF Undisturbed
  <1>3. ScrapeOlder'
    <2>1. CASE scrape' = scrape  BY <1>1, <2>1 DEF MetricsInv, ScrapeOlder
    <2>2. CASE scrape'.at # "read"  BY <2>2 DEF ScrapeOlder
    <2> QED  BY <2>1, <2>2 DEF Undisturbed
  <1> QED  BY <1>2, <1>3

LEMMA MetricsStepInv == MetricsInv /\ [MetricsNext]_metricVars => MetricsInv'
  <1> SUFFICES ASSUME MetricsInv, [MetricsNext]_metricVars PROVE MetricsInv'
    OBVIOUS
  <1>t. /\ registry \in [Labels -> Nat] /\ gauge \in Int /\ happened \in History
        /\ task \in [Tasks -> TaskStates] /\ scrape \in Scrapes /\ observed \in Nat
        /\ Unmatched \in Labels /\ RouteNames \subseteq Labels
    BY DEF MetricsInv, MetricsTypeOK, Labels
  <1>s. \A k \in TaskStates :
          /\ k.at = "load" => k \in LoadTask
          /\ k.at \in {"rcu", "reload"} => k \in RcuTask
          /\ k.at = "add" => k \in AddTask
    BY DEF TaskStates, LoadTask, RcuTask, AddTask, IdleTask, Serving
  <1>l. \A n \in Labels, limit \in BOOLEAN, adds \in SUBSET Kinds :
          Looking(n, limit, adds) \in LoadTask /\ Looking(n, limit, adds) \in TaskStates
    BY DEF Looking, LoadTask, TaskStates
  <1>m. ASSUME NEW t \in Tasks, NEW k, task' = [task EXCEPT ![t] = k]
        PROVE  /\ \A n, what : t \in Pending(n, what)' <=>
                    k.at \in {"load", "rcu", "reload", "add"} /\ k.name = n /\ what \in k.adds
               /\ t \in Timed' <=> k.at \in {"load", "rcu", "reload", "add"} /\ "duration" \in k.adds
               /\ t \in Gauged' <=> k = Serving \/ (k.at \in {"load", "rcu", "reload", "add"} /\ k.limit)
    <2>1. task'[t] = k  BY <1>t, <1>m
    <2> QED  BY <2>1 DEF Pending, Timed, Gauged, Recording
  (* A task that keeps its name, its limit and what it has to add.         *)
  <1>1. ASSUME NEW t \in Tasks, NEW k \in TaskStates, task' = [task EXCEPT ![t] = k],
               UNCHANGED <<registry, cells, observed, scrape, gauge, happened>>,
               task[t].at \in {"load", "rcu", "reload", "add"}, k.at \in {"load", "rcu", "reload", "add"},
               k.name = task[t].name, k.limit = task[t].limit, k.adds = task[t].adds,
               k.at = "reload" => registry[k.name] # 0,
               k.at = "add" => k.cell = registry[k.name] /\ k.cell # 0
        PROVE  MetricsInv'
    <2>1. task[t] # Serving /\ k # Serving  BY <1>1 DEF Serving
    <2>2. \A n, what : t \in Pending(n, what)' <=> t \in Pending(n, what)
      BY <1>m, <1>1 DEF Pending, Recording
    <2>3. (t \in Timed' <=> t \in Timed) /\ (t \in Gauged' <=> t \in Gauged)
      BY <1>m, <1>1, <2>1 DEF Timed, Gauged, Recording
    <2>4. /\ \A n \in Labels, what \in {"ended", "limited"} : In(t, Pending(n, what)') = In(t, Pending(n, what))
          /\ In(t, Timed') = In(t, Timed) /\ In(t, Gauged') = In(t, Gauged)
      BY <2>2, <2>3 DEF In
    <2>5. /\ \A n \in Labels, what \in {"ended", "limited"} :
               happened'.recorded[n][what] - In(t, Pending(n, what)')
                 = happened.recorded[n][what] - In(t, Pending(n, what))
          /\ happened'.total - In(t, Timed') = happened.total - In(t, Timed)
          /\ gauge' - In(t, Gauged') = gauge - In(t, Gauged)
      BY <1>1, <2>4
    <2>6. happened' \in History /\ gauge' \in Int /\ happened'.shown = happened.shown  BY <1>t, <1>1
    <2> QED  BY <1>1, <2>5, <2>6, TaskStep
  <1>2. ASSUME NEW t \in Tasks, Counters(t) \/ LookAgain(t) PROVE MetricsInv'
    <2>1. task[t].name \in Labels /\ task[t].limit \in BOOLEAN /\ task[t].adds \in SUBSET Kinds
          /\ task[t].at \in {"load", "reload"} /\ UNCHANGED <<registry, cells, observed, scrape, gauge, happened>>
      BY <1>s, <1>t, <1>2 DEF Counters, LookAgain, LoadTask, RcuTask
    <2>2. CASE task' = [task EXCEPT ![t] = Adding(task[t])] /\ registry[task[t].name] # 0
      <3>1. /\ Adding(task[t]) \in AddTask /\ Adding(task[t]).at = "add"
            /\ Adding(task[t]).name = task[t].name /\ Adding(task[t]).limit = task[t].limit
            /\ Adding(task[t]).adds = task[t].adds /\ Adding(task[t]).cell = registry[task[t].name]
        BY <1>t, <2>1 DEF Adding, AddTask
      <3> HIDE DEF Adding
      <3>2. Adding(task[t]) \in TaskStates  BY <3>1 DEF TaskStates
      <3> QED  BY <1>1, <2>1, <2>2, <3>1, <3>2
    <2>3. CASE task' = [task EXCEPT ![t] = [at |-> "rcu", name |-> task[t].name, limit |-> task[t].limit,
                                            adds |-> task[t].adds, map |-> registry]]
      <3> DEFINE k == [at |-> "rcu", name |-> task[t].name, limit |-> task[t].limit,
                       adds |-> task[t].adds, map |-> registry]
      <3>1. /\ k \in RcuTask /\ k.at = "rcu" /\ k.name = task[t].name /\ k.limit = task[t].limit
            /\ k.adds = task[t].adds
        BY <1>t, <2>1 DEF RcuTask
      <3>2. task' = [task EXCEPT ![t] = k]  BY <2>3
      <3> HIDE DEF k
      <3>3. k \in TaskStates  BY <3>1 DEF TaskStates
      <3> QED  BY <1>1, <2>1, <3>1, <3>2, <3>3
    <2>4. task[t].at = "reload" => registry[task[t].name] # 0  BY DEF MetricsInv, TasksHold
    <2> QED  BY <1>2, <2>2, <2>3, <2>4 DEF Counters, LookAgain
  (* A task that starts to record n's counts, or leaves without any.       *)
  <1>3. ASSUME NEW t \in Tasks, NEW n \in Labels, NEW limit \in BOOLEAN, NEW adds \in SUBSET Kinds,
               task' = [task EXCEPT ![t] = Looking(n, limit, adds)],
               UNCHANGED <<registry, cells, observed, scrape>>,
               happened' \in History, gauge' \in Int, happened'.shown = happened.shown,
               \A m, what : t \notin Pending(m, what), t \notin Timed,
               \A m \in Labels, what \in {"ended", "limited"} :
                 happened'.recorded[m][what]
                   = happened.recorded[m][what] + (IF m = n /\ what \in adds THEN 1 ELSE 0),
               happened'.total = happened.total + (IF "duration" \in adds THEN 1 ELSE 0),
               gauge' = gauge + (IF limit THEN 1 ELSE 0) - In(t, Gauged)
        PROVE  MetricsInv'
    <2>1. /\ Looking(n, limit, adds).at = "load" /\ Looking(n, limit, adds).name = n
          /\ Looking(n, limit, adds).limit = limit /\ Looking(n, limit, adds).adds = adds
          /\ Looking(n, limit, adds) # Serving
      BY DEF Looking, Serving
    <2>2. Looking(n, limit, adds) \in TaskStates  BY <1>l
    <2>3. /\ \A m, what : t \in Pending(m, what)' <=> m = n /\ what \in adds
          /\ t \in Timed' <=> "duration" \in adds
          /\ t \in Gauged' <=> limit
      <3> DEFINE k == Looking(n, limit, adds)
      <3>1. k.at = "load" /\ k.name = n /\ k.adds = adds /\ k # Serving /\ (k.limit <=> limit)
        BY <2>1
      <3>2. task' = [task EXCEPT ![t] = k]  BY <1>3
      <3> HIDE DEF k
      <3> QED  BY <1>m, <3>1, <3>2, Zenon
    <2>4. (\A m, what : t \notin Pending(m, what)) /\ t \notin Timed
      BY <1>3
    <2>5. ASSUME NEW m \in Labels, NEW what \in {"ended", "limited"}
          PROVE  happened'.recorded[m][what] - In(t, Pending(m, what)')
                   = happened.recorded[m][what] - In(t, Pending(m, what))
      <3>1. In(t, Pending(m, what)) = 0  BY <2>4 DEF In
      <3>2. In(t, Pending(m, what)') = IF m = n /\ what \in adds THEN 1 ELSE 0
        BY <2>3 DEF In
      <3>3. PICK r \in Nat : r = happened.recorded[m][what]
        <4>1. happened.recorded[m] \in Count  BY <1>t DEF History
        <4> QED  BY <4>1 DEF Count
      <3> QED  BY <1>3, <3>1, <3>2, <3>3
    <2>6. happened'.total - In(t, Timed') = happened.total - In(t, Timed)
      <3>1. In(t, Timed) = 0 /\ In(t, Timed') = IF "duration" \in adds THEN 1 ELSE 0
        BY <2>3, <2>4 DEF In
      <3>2. happened.total \in Nat  BY <1>t DEF History
      <3> QED  BY <1>3, <3>1, <3>2
    <2>7. gauge' - In(t, Gauged') = gauge - In(t, Gauged)
      <3>1. In(t, Gauged') = IF limit THEN 1 ELSE 0  BY <2>3 DEF In
      <3>2. In(t, Gauged) \in Nat  BY DEF In
      <3> QED  BY <1>t, <1>3, <3>1, <3>2
    <2> HIDE DEF Looking
    <2> QED  BY <1>3, <2>1, <2>2, <2>5, <2>6, <2>7, TaskStep
  <1>4. ASSUME NEW t \in Tasks, Begin(t) \/ Cancel(t) PROVE MetricsInv'
    <2>1. PICK k \in {IdleTask, Serving} :
            /\ task' = [task EXCEPT ![t] = k] /\ task[t] \in {IdleTask, Serving} /\ task[t] # k
            /\ gauge' = IF k = Serving THEN gauge + 1 ELSE gauge - 1
            /\ UNCHANGED <<registry, cells, observed, scrape>>
            /\ happened' = happened \/ happened' = [happened EXCEPT !.runs = @ + 1]
      BY <1>4 DEF Begin, Cancel, IdleTask, Serving
    <2>2. /\ k.at \notin {"load", "rcu", "reload", "add"} /\ k \in TaskStates
          /\ task[t].at \notin {"load", "rcu", "reload", "add"}
      BY <2>1 DEF IdleTask, Serving, TaskStates
    <2>3. /\ happened' \in History /\ happened'.recorded = happened.recorded
          /\ happened'.total = happened.total /\ happened'.shown = happened.shown
      BY <1>t, <2>1 DEF History
    <2>4. /\ \A n, what : t \notin Pending(n, what)' /\ t \notin Pending(n, what)
          /\ t \notin Timed' /\ t \notin Timed
          /\ t \in Gauged' <=> k = Serving
          /\ t \in Gauged <=> k # Serving
      BY <1>m, <2>1, <2>2 DEF Pending, Timed, Gauged, Recording
    <2>5. /\ \A n \in Labels, what \in {"ended", "limited"} :
               In(t, Pending(n, what)') = 0 /\ In(t, Pending(n, what)) = 0
          /\ In(t, Timed') = 0 /\ In(t, Timed) = 0
          /\ In(t, Gauged') = IF k = Serving THEN 1 ELSE 0
          /\ In(t, Gauged) = IF k = Serving THEN 0 ELSE 1
      BY <2>4 DEF In
    <2>6. gauge' \in Int /\ gauge' - In(t, Gauged') = gauge - In(t, Gauged)
      BY <1>t, <2>1, <2>5
    <2> QED  BY <2>1, <2>2, <2>3, <2>5, <2>6, TaskStep
  (* Record, with the gauge it leaves.                                     *)
  <1>5. ASSUME NEW t \in Tasks, NEW n \in Labels, Record(t, n),
               UNCHANGED <<registry, cells, observed, scrape>>,
               task[t].at \in {"load", "rcu", "reload", "add"} => task[t].adds = {},
               t \in Gauged, gauge' = gauge - 1
        PROVE  MetricsInv'
    <2>1. /\ task' = [task EXCEPT ![t] = Looking(n, FALSE, {"ended", "duration"})]
          /\ happened' = [happened EXCEPT !.total = @ + 1, !.recorded[n].ended = @ + 1]
      BY <1>5 DEF Record
    <2>2. /\ happened' \in History /\ happened'.shown = happened.shown
          /\ happened'.total = happened.total + 1
      <3>1. happened.recorded \in [Labels -> Count] /\ happened.total \in Nat  BY <1>t DEF History
      <3>2. happened.recorded[n] \in Count /\ happened.recorded[n].ended + 1 \in Nat
        BY <3>1 DEF Count
      <3> DEFINE r == [happened.recorded EXCEPT ![n].ended = @ + 1]
                 a == happened.total + 1
      <3>3. r \in [Labels -> Count] /\ a \in Nat  BY <3>1, <3>2 DEF Count
      <3>4. happened' = [happened EXCEPT !.total = a, !.recorded = r]  BY <1>t, <2>1 DEF History
      <3> HIDE DEF r
      <3> QED  BY <1>t, <3>3, <3>4 DEF History
    <2>3. \A m \in Labels, what \in {"ended", "limited"} :
            happened'.recorded[m][what]
              = happened.recorded[m][what] + (IF m = n /\ what \in {"ended", "duration"} THEN 1 ELSE 0)
      <3>1. happened.recorded \in [Labels -> Count]  BY <1>t DEF History
      <3>2. happened'.recorded = [happened.recorded EXCEPT ![n].ended = @ + 1]  BY <1>t, <2>1 DEF History
      <3> QED  BY <3>1, <3>2 DEF Count
    <2>4. gauge' \in Int /\ gauge' = gauge + (IF FALSE THEN 1 ELSE 0) - In(t, Gauged)
      BY <1>t, <1>5 DEF In
    <2>5. {"ended", "duration"} \in SUBSET Kinds /\ FALSE \in BOOLEAN
          /\ happened'.total = happened.total + (IF "duration" \in {"ended", "duration"} THEN 1 ELSE 0)
      BY <2>2 DEF Kinds
    <2>6. UNCHANGED <<registry, cells, observed, scrape>>  BY <1>5
    <2>7. PICK limit \in BOOLEAN, adds \in SUBSET Kinds : limit = FALSE /\ adds = {"ended", "duration"}
      BY <2>5
    <2>8. /\ \A m \in Labels, what \in {"ended", "limited"} :
               happened'.recorded[m][what]
                 = happened.recorded[m][what] + (IF m = n /\ what \in adds THEN 1 ELSE 0)
          /\ happened'.total = happened.total + (IF "duration" \in adds THEN 1 ELSE 0)
          /\ gauge' = gauge + (IF limit THEN 1 ELSE 0) - In(t, Gauged)
          /\ task' = [task EXCEPT ![t] = Looking(n, limit, adds)]
      BY <2>1, <2>3, <2>4, <2>5, <2>7
    <2> HIDE DEF Looking
    <2>9. (\A m, what : t \notin Pending(m, what)) /\ t \notin Timed
      BY <1>5 DEF Pending, Timed, Recording
    <2> QED  BY <1>3, <2>2, <2>4, <2>6, <2>8, <2>9
  <1>6. ASSUME NEW t \in Tasks, NEW n \in Labels, End(t, n) PROVE MetricsInv'
    <2>1. /\ task[t] = Serving /\ Record(t, n) /\ gauge' = gauge - 1
          /\ UNCHANGED <<registry, cells, observed, scrape>>
      BY <1>6 DEF End
    <2>2. t \in Gauged /\ task[t].at = "serving"  BY <2>1 DEF Gauged, Serving
    <2> QED  BY <1>5, <2>1, <2>2
  <1>7. ASSUME NEW t \in Tasks, Recorded(t) PROVE MetricsInv'
    <2>1. /\ task[t].at = "add" /\ task[t].adds = {} /\ task[t] \in AddTask
          /\ UNCHANGED <<registry, cells, observed, scrape>>
      BY <1>s, <1>t, <1>7 DEF Recorded
    <2>2. CASE task[t].limit
      <3>1. Record(t, task[t].name) /\ gauge' = gauge - 1  BY <1>7, <2>2 DEF Recorded
      <3>2. t \in Gauged /\ task[t].name \in Labels  BY <2>1, <2>2 DEF Gauged, Recording, AddTask
      <3> QED  BY <1>5, <2>1, <3>1, <3>2
    <2>3. CASE ~task[t].limit
      <3>1. task' = [task EXCEPT ![t] = IdleTask] /\ UNCHANGED <<gauge, happened>>
        BY <1>7, <2>3 DEF Recorded
      <3>2. IdleTask.at = "idle" /\ IdleTask # Serving /\ IdleTask \in TaskStates /\ task[t] # Serving
        BY <2>1 DEF IdleTask, Serving, TaskStates
      <3>3. /\ \A n, what : t \notin Pending(n, what)' /\ t \notin Pending(n, what)
            /\ t \notin Timed' /\ t \notin Timed /\ t \notin Gauged' /\ t \notin Gauged
        BY <1>m, <2>1, <2>3, <3>1, <3>2 DEF Pending, Timed, Gauged, Recording
      <3>4. /\ \A n \in Labels, what \in {"ended", "limited"} :
                 In(t, Pending(n, what)') = In(t, Pending(n, what))
            /\ In(t, Timed') = In(t, Timed) /\ In(t, Gauged') = In(t, Gauged)
        BY <3>3 DEF In
      <3>5. /\ \A n \in Labels, what \in {"ended", "limited"} :
                 happened'.recorded[n][what] - In(t, Pending(n, what)')
                   = happened.recorded[n][what] - In(t, Pending(n, what))
            /\ happened'.total - In(t, Timed') = happened.total - In(t, Timed)
            /\ gauge' - In(t, Gauged') = gauge - In(t, Gauged)
            /\ happened' \in History /\ gauge' \in Int /\ happened'.shown = happened.shown
        BY <1>t, <3>1, <3>4
      <3> HIDE DEF IdleTask
      <3> QED  BY <2>1, <3>1, <3>2, <3>5, TaskStep
    <2> QED  BY <2>2, <2>3
  <1>8. ASSUME NEW t \in Tasks, Overloaded(t) PROVE MetricsInv'
    <2>1. /\ task[t] = IdleTask
          /\ task' = [task EXCEPT ![t] = Looking(Unmatched, FALSE, {"ended", "duration"})]
          /\ happened' = [happened EXCEPT !.runs = @ + 1, !.total = @ + 1, !.recorded[Unmatched].ended = @ + 1]
          /\ UNCHANGED <<registry, cells, observed, gauge, scrape>>
      BY <1>8 DEF Overloaded
    <2>2. /\ happened' \in History /\ happened'.shown = happened.shown
          /\ happened'.total = happened.total + 1
      <3>1. happened.recorded \in [Labels -> Count] /\ happened.total \in Nat /\ happened.runs \in Nat
        BY <1>t DEF History
      <3>2. happened.recorded[Unmatched] \in Count /\ happened.recorded[Unmatched].ended + 1 \in Nat
        BY <1>t, <3>1 DEF Count
      <3> DEFINE r == [happened.recorded EXCEPT ![Unmatched].ended = @ + 1]
                 a == happened.total + 1
                 b == happened.runs + 1
      <3>3. r \in [Labels -> Count]  BY <1>t, <3>1, <3>2 DEF Count
      <3>4. a \in Nat /\ b \in Nat  BY <3>1
      <3>5. happened' = [happened EXCEPT !.runs = b, !.total = a, !.recorded = r]
        BY <1>t, <2>1 DEF History
      <3> HIDE DEF r
      <3> QED  BY <1>t, <3>3, <3>4, <3>5 DEF History
    <2>3. \A m \in Labels, what \in {"ended", "limited"} :
            happened'.recorded[m][what]
              = happened.recorded[m][what] + (IF m = Unmatched /\ what \in {"ended", "duration"} THEN 1 ELSE 0)
      <3>1. happened.recorded \in [Labels -> Count]  BY <1>t DEF History
      <3>2. happened'.recorded = [happened.recorded EXCEPT ![Unmatched].ended = @ + 1]
        BY <1>t, <2>1 DEF History
      <3> QED  BY <1>t, <3>1, <3>2 DEF Count
    <2>4. t \notin Gauged /\ task[t].at = "idle"
      BY <2>1 DEF Gauged, Recording, IdleTask, Serving
    <2>5. gauge' \in Int /\ gauge' = gauge + (IF FALSE THEN 1 ELSE 0) - In(t, Gauged)
      BY <1>t, <2>1, <2>4 DEF In
    <2>6. {"ended", "duration"} \in SUBSET Kinds /\ FALSE \in BOOLEAN
          /\ happened'.total = happened.total + (IF "duration" \in {"ended", "duration"} THEN 1 ELSE 0)
      BY <2>2 DEF Kinds
    <2>7. (\A m, what : t \notin Pending(m, what)) /\ t \notin Timed
      BY <2>4 DEF Pending, Timed, Recording
    <2> HIDE DEF Looking
    <2> QED  BY <1>t, <1>3, <2>1, <2>2, <2>3, <2>5, <2>6, <2>7
  <1>9. ASSUME NEW t \in Tasks, NEW n \in RouteNames, RateLimited(t, n) PROVE MetricsInv'
    <2>1. /\ task[t] = Serving
          /\ task' = [task EXCEPT ![t] = Looking(n, TRUE, {"limited"})]
          /\ happened' = [happened EXCEPT !.recorded[n].limited = @ + 1]
          /\ UNCHANGED <<registry, cells, observed, gauge, scrape>> /\ n \in Labels
      BY <1>t, <1>9 DEF RateLimited
    <2>2. /\ happened' \in History /\ happened'.shown = happened.shown
          /\ happened'.total = happened.total + 0
      <3>1. happened.recorded \in [Labels -> Count] /\ happened.total \in Nat
        BY <1>t DEF History
      <3>2. happened.recorded[n] \in Count /\ happened.recorded[n].limited + 1 \in Nat
        BY <2>1, <3>1 DEF Count
      <3>3. [happened.recorded[n] EXCEPT !.limited = @ + 1] \in Count  BY <3>2 DEF Count
      <3> QED  BY <1>t, <2>1, <3>1, <3>3 DEF History
    <2>3. \A m \in Labels, what \in {"ended", "limited"} :
            happened'.recorded[m][what]
              = happened.recorded[m][what] + (IF m = n /\ what \in {"limited"} THEN 1 ELSE 0)
      <3>1. happened.recorded \in [Labels -> Count]  BY <1>t DEF History
      <3>2. happened'.recorded = [happened.recorded EXCEPT ![n].limited = @ + 1]
        BY <1>t, <2>1 DEF History
      <3> QED  BY <2>1, <3>1, <3>2 DEF Count
    <2>4. t \in Gauged /\ task[t].at = "serving"  BY <2>1 DEF Gauged, Serving
    <2>5. gauge' \in Int /\ gauge' = gauge + (IF TRUE THEN 1 ELSE 0) - In(t, Gauged)
      BY <1>t, <2>1, <2>4 DEF In
    <2>6. {"limited"} \in SUBSET Kinds /\ TRUE \in BOOLEAN
          /\ happened'.total = happened.total + (IF "duration" \in {"limited"} THEN 1 ELSE 0)
      BY <2>2 DEF Kinds
    <2>7. (\A m, what : t \notin Pending(m, what)) /\ t \notin Timed
      BY <2>4 DEF Pending, Timed, Recording
    <2> HIDE DEF Looking
    <2> QED  BY <1>3, <2>1, <2>2, <2>3, <2>5, <2>6, <2>7
  <1>10. ASSUME NEW t \in Tasks, RegisterLazily(t) PROVE MetricsInv'
    <2>1. /\ task[t].at = "rcu" /\ task[t] \in RcuTask /\ UNCHANGED <<observed, gauge, scrape, happened>>
      BY <1>s, <1>t, <1>10 DEF RegisterLazily
    <2>2. CASE registry = task[t].map
      <3> DEFINE k == [task[t] EXCEPT !.at = "reload"]
      <3>1. Install(registry, {task[t].name}) /\ task' = [task EXCEPT ![t] = k]
        BY <1>t, <1>10, <2>2 DEF RegisterLazily
      <3>2. /\ k \in RcuTask /\ k.at = "reload" /\ k.name = task[t].name /\ (k.limit <=> task[t].limit)
            /\ k.adds = task[t].adds /\ {task[t].name} \in SUBSET Labels
        BY <2>1 DEF RcuTask
      <3> HIDE DEF k
      <3>3. task'[t] = k /\ \A u \in Tasks : u # t => task'[u] = task[u]  BY <1>t, <3>1
      <3>4. /\ registry' \in [Labels -> Nat] /\ cells' \in [Labels -> Seq(Count)] /\ RegistryKnown'
            /\ \A n \in Labels : Series(n)' = Series(n)
            /\ \A n \in Labels : registry[n] # 0 => registry'[n] = registry[n]
            /\ registry'[task[t].name] # 0
        BY <3>1, <3>2, InstallKeeps
      <3>5. MetricsTypeOK'
        <4>1. k \in TaskStates  BY <3>2 DEF TaskStates
        <4>2. task' \in [Tasks -> TaskStates]  BY <1>t, <3>1, <4>1
        <4> QED  BY <1>t, <2>1, <3>4, <4>2 DEF MetricsTypeOK
      <3>6. TasksHold' /\ ScrapeOlder'
        <4>1. \A u \in Tasks : \/ task'[u] = task[u]
                               \/ task'[u].at = "reload" /\ registry'[task'[u].name] # 0
          BY <3>2, <3>3, <3>4
        <4>2. scrape' = scrape \/ scrape'.at # "read"  BY <2>1
        <4>3. \A n \in Labels : registry[n] # 0 => registry'[n] = registry[n]  BY <3>4
        <4>4. Undisturbed  BY <4>1, <4>2, <4>3 DEF Undisturbed
        <4> QED  BY <4>4, UndisturbedHold
      <3>7. CountersKept'
        <4>1. task[t] # Serving /\ k # Serving  BY <2>1, <3>2 DEF Serving
        <4>2. \A n, what : t \in Pending(n, what)' <=> t \in Pending(n, what)
          BY <1>m, <2>1, <3>1, <3>2 DEF Pending, Recording
        <4>3. t \in Timed' <=> t \in Timed
          BY <1>m, <2>1, <3>1, <3>2 DEF Timed, Recording
        <4>4. t \in Gauged' <=> t \in Gauged
          BY <1>m, <2>1, <3>1, <3>2, <4>1 DEF Gauged, Recording
        <4>5. /\ \A n \in Labels, what \in {"ended", "limited"} : In(t, Pending(n, what)') = In(t, Pending(n, what))
              /\ In(t, Timed') = In(t, Timed) /\ In(t, Gauged') = In(t, Gauged)
          BY <4>2, <4>3, <4>4 DEF In
        <4>6. ASSUME NEW n \in Labels, NEW what \in {"ended", "limited"}
              PROVE  /\ Series(n)[what] <= Series(n)'[what]
                     /\ happened'.recorded[n][what] - Series(n)'[what] - In(t, Pending(n, what)')
                          = happened.recorded[n][what] - Series(n)[what] - In(t, Pending(n, what))
          <5>1. Series(n) \in Count  BY SeriesCounts DEF MetricsInv
          <5>2. PICK a \in Nat : a = Series(n)[what]  BY <5>1 DEF Count
          <5>3. a <= a  BY <5>2
          <5> QED  BY <2>1, <3>4, <4>5, <5>2, <5>3
        <4>7. /\ happened'.total - observed' - In(t, Timed') = happened.total - observed - In(t, Timed)
              /\ gauge' - In(t, Gauged') = gauge - In(t, Gauged)
              /\ happened'.shown = happened.shown
          BY <2>1, <4>5
        <4> QED  BY <3>3, <3>4, <3>5, <4>6, <4>7, CountersMove
      <3> QED  BY <3>4, <3>5, <3>6, <3>7 DEF MetricsInv
    <2>3. CASE registry # task[t].map
      <3> DEFINE k == [task[t] EXCEPT !.map = registry]
      <3>1. task' = [task EXCEPT ![t] = k] /\ UNCHANGED <<registry, cells>>
        BY <1>t, <1>10, <2>3 DEF RegisterLazily
      <3>2. /\ k \in RcuTask /\ k.at = "rcu" /\ k.name = task[t].name /\ k.limit = task[t].limit
            /\ k.adds = task[t].adds
        BY <1>t, <2>1 DEF RcuTask
      <3> HIDE DEF k
      <3>3. k \in TaskStates  BY <3>2 DEF TaskStates
      <3> QED  BY <1>1, <2>1, <3>1, <3>2, <3>3
    <2> QED  BY <2>2, <2>3
  <1>11. ASSUME NEW t \in Tasks, NEW what \in Kinds, Bump(t, what) PROVE MetricsInv'
    <2>0. /\ task[t].at = "add" /\ task[t] \in AddTask /\ what \in task[t].adds
          /\ UNCHANGED <<registry, gauge, scrape, happened>>
      BY <1>s, <1>t, <1>11 DEF Bump
    <2>1. PICK n \in Labels, e \in Nat :
            /\ n = task[t].name /\ e = task[t].cell /\ e = registry[n] /\ e # 0
            /\ UNCHANGED <<registry, gauge, scrape, happened>> /\ what \in task[t].adds
      BY <2>0 DEF AddTask, MetricsInv, TasksHold
    <2>2. PICK k \in AddTask :
            /\ task' = [task EXCEPT ![t] = k] /\ k.at = "add" /\ k.name = n /\ (k.limit <=> task[t].limit)
            /\ k.cell = e /\ k.adds = task[t].adds \ {what}
      <3> DEFINE k == [task[t] EXCEPT !.adds = @ \ {what}]
      <3>1. task' = [task EXCEPT ![t] = k]  BY <1>t, <1>11 DEF Bump
      <3>2. task[t].adds \ {what} \in SUBSET Kinds  BY <2>0 DEF AddTask
      <3>3. /\ k \in AddTask /\ k.at = "add" /\ k.name = n /\ (k.limit <=> task[t].limit)
            /\ k.cell = e /\ k.adds = task[t].adds \ {what}
        BY <2>0, <2>1, <3>2 DEF AddTask
      <3> HIDE DEF k
      <3> QED  BY <3>1, <3>3
    <2>3. /\ cells[n] \in Seq(Count) /\ e \in 1..Len(cells[n]) /\ cells[n][e] \in Count
          /\ Series(n) = cells[n][e] /\ cells \in [Labels -> Seq(Count)] /\ Len(cells[n]) \in Nat
      <3>1. cells[n] \in Seq(Count) /\ cells \in [Labels -> Seq(Count)] /\ e <= Len(cells[n])
        BY <2>1 DEF MetricsInv, MetricsTypeOK, RegistryKnown
      <3>2. Len(cells[n]) \in Nat  BY <3>1, LenProperties
      <3>3. e \in 1..Len(cells[n])  BY <2>1, <3>1, <3>2
      <3>4. cells[n][e] \in Count  BY <3>1, <3>3, ElementOfSeq
      <3>5. Series(n) = cells[n][e]  BY <2>1 DEF Series
      <3> QED  BY <3>1, <3>2, <3>3, <3>4, <3>5
    <2>4. what = "duration" => cells' = cells /\ observed' = observed + 1
      BY <1>11 DEF Bump
    <2>5. ASSUME what \in {"ended", "limited"}
          PROVE  \E row \in Seq(Count) :
                   /\ cells' = [cells EXCEPT ![n] = row] /\ observed' = observed + 0
                   /\ Len(row) = Len(cells[n]) /\ row[e] = [cells[n][e] EXCEPT ![what] = @ + 1]
      <3>1. /\ cells' = [cells EXCEPT ![task[t].name][task[t].cell][what] = @ + 1]
            /\ observed' = observed + 0
        BY <1>11, <2>1, <2>5 DEF Bump
      <3>2. cells' = [cells EXCEPT ![n][e][what] = @ + 1]  BY <2>1, <3>1
      <3> DEFINE x == [cells[n][e] EXCEPT ![what] = @ + 1]
                 row == [cells[n] EXCEPT ![e] = x]
      <3>3. cells' = [cells EXCEPT ![n] = row]  BY <3>2
      <3>4. x \in Count
        <4>1. \A c \in Count : /\ [c EXCEPT !.ended = c.ended + 1] \in Count
                               /\ [c EXCEPT !.limited = c.limited + 1] \in Count
          BY DEF Count
        <4>2. CASE what = "ended"
          <5>1. x = [cells[n][e] EXCEPT !.ended = cells[n][e].ended + 1]  BY <4>2
          <5> QED  BY <2>3, <4>1, <5>1
        <4>3. CASE what = "limited"
          <5>1. x = [cells[n][e] EXCEPT !.limited = cells[n][e].limited + 1]  BY <4>3
          <5> QED  BY <2>3, <4>1, <5>1
        <4> QED  BY <2>5, <4>2, <4>3
      <3> HIDE DEF x
      <3>5. row \in Seq(Count) /\ Len(row) = Len(cells[n]) /\ row[e] = x
        BY <2>3, <3>4, ExceptSeq
      <3> HIDE DEF row
      <3>6. row[e] = [cells[n][e] EXCEPT ![what] = @ + 1]  BY <3>5 DEF x
      <3> QED  BY <3>1, <3>3, <3>5, <3>6
    <2>6. MetricsTypeOK'
      <3>1. cells' \in [Labels -> Seq(Count)] /\ observed' \in Nat
        <4>1. CASE what \in {"ended", "limited"}
          <5>1. PICK row \in Seq(Count) : cells' = [cells EXCEPT ![n] = row] /\ observed' = observed + 0
            BY <2>5, <4>1
          <5>2. cells' \in [Labels -> Seq(Count)]  BY <2>3, <5>1
          <5>3. observed' \in Nat  BY <1>t, <5>1
          <5> QED  BY <5>2, <5>3
        <4>2. CASE what = "duration"  BY <1>t, <2>3, <2>4, <4>2
        <4> QED  BY <4>1, <4>2 DEF Kinds
      <3>2. k \in TaskStates  BY <2>2 DEF TaskStates
      <3>3. task' \in [Tasks -> TaskStates]  BY <1>t, <2>2, <3>2
      <3> QED  BY <1>t, <2>1, <3>1, <3>3 DEF MetricsTypeOK
    <2>7. RegistryKnown' /\ ScrapeOlder'
      <3>1. \A m \in Labels : Len(cells'[m]) = Len(cells[m])
        <4>1. CASE what \in {"ended", "limited"}  BY <2>3, <2>5, <4>1
        <4>2. CASE what = "duration"  BY <2>4, <4>2
        <4> QED  BY <4>1, <4>2 DEF Kinds
      <3> QED  BY <2>1, <3>1 DEF MetricsInv, RegistryKnown, ScrapeOlder
    <2>8. task'[t] = k /\ \A u \in Tasks : u # t => task'[u] = task[u]  BY <1>t, <2>2
    <2>9. TasksHold'  BY <2>1, <2>2, <2>8 DEF MetricsInv, TasksHold
    <2>10. /\ \A m, w : t \in Pending(m, w)' <=> m = n /\ w \in task[t].adds /\ w # what
           /\ \A m, w : t \in Pending(m, w) <=> m = n /\ w \in task[t].adds
           /\ t \in Timed' <=> "duration" \in task[t].adds /\ what # "duration"
           /\ t \in Timed <=> "duration" \in task[t].adds
      <3>1. k.at \in {"load", "rcu", "reload", "add"} /\ task[t].at \in {"load", "rcu", "reload", "add"}
        BY <2>0, <2>2
      <3>2. \A w : w \in k.adds <=> w \in task[t].adds /\ w # what  BY <2>2
      <3>3. \A m, w : t \in Pending(m, w)' <=> m = n /\ w \in task[t].adds /\ w # what
        BY <1>m, <2>2, <3>1, <3>2
      <3>4. \A m, w : t \in Pending(m, w) <=> m = n /\ w \in task[t].adds
        BY <2>1, <3>1 DEF Pending, Recording
      <3>5. t \in Timed' <=> "duration" \in task[t].adds /\ what # "duration"
        BY <1>m, <2>2, <3>1, <3>2
      <3>6. t \in Timed <=> "duration" \in task[t].adds  BY <3>1 DEF Timed, Recording
      <3> QED  BY <3>3, <3>4, <3>5, <3>6
    <2>11. t \in Gauged' <=> t \in Gauged
      <3>1. k # Serving /\ task[t] # Serving  BY <2>0, <2>2 DEF Serving
      <3> QED  BY <1>m, <2>0, <2>2, <3>1 DEF Gauged, Recording
    <2>12. ASSUME NEW m \in Labels, NEW w \in {"ended", "limited"}
           PROVE  /\ Series(m)[w] <= Series(m)'[w]
                  /\ happened'.recorded[m][w] - Series(m)'[w] - In(t, Pending(m, w)')
                       = happened.recorded[m][w] - Series(m)[w] - In(t, Pending(m, w))
      <3>1. Series(m) \in Count  BY SeriesCounts DEF MetricsInv
      <3>2. PICK a \in Nat : a = Series(m)[w]  BY <3>1 DEF Count
      <3>3. PICK r \in Nat : r = happened.recorded[m][w]
        <4>1. happened.recorded[m] \in Count  BY <1>t DEF History
        <4> QED  BY <4>1 DEF Count
      <3>4. CASE m = n /\ w = what
        <4>0. PICK row \in Seq(Count) :
                cells' = [cells EXCEPT ![n] = row] /\ row[e] = [cells[n][e] EXCEPT ![what] = @ + 1]
          BY <2>5, <3>4
        <4>1. Series(n)' = [cells[n][e] EXCEPT ![what] = @ + 1]
          BY <2>1, <2>3, <4>0 DEF Series
        <4>2. Series(m)'[w] = a + 1  BY <2>3, <3>2, <3>4, <4>1 DEF Count
        <4>3. In(t, Pending(m, w)') = 0 /\ In(t, Pending(m, w)) = 1  BY <2>1, <2>10, <3>4 DEF In
        <4>4. a <= a + 1 /\ r - (a + 1) - 0 = r - a - 1  BY <3>2, <3>3
        <4> QED  BY <2>1, <3>2, <3>3, <4>2, <4>3, <4>4
      <3>5. CASE ~(m = n /\ w = what)
        <4>1. Series(m)'[w] = a
          <5>1. CASE m # n \/ what = "duration"
            <6>1. cells'[m] = cells[m]
              <7>1. CASE what = "duration"  BY <2>4, <7>1
              <7>2. CASE what # "duration"
                <8>1. PICK row \in Seq(Count) : cells' = [cells EXCEPT ![n] = row]
                  BY <2>5, <7>2 DEF Kinds
                <8> QED  BY <2>3, <5>1, <7>2, <8>1
              <7> QED  BY <7>1, <7>2
            <6>2. Series(m)' = Series(m)  BY <2>1, <6>1 DEF Series
            <6> QED  BY <3>2, <6>2
          <5>2. CASE m = n /\ what # "duration"
            <6>0. PICK row \in Seq(Count) :
                    cells' = [cells EXCEPT ![n] = row] /\ row[e] = [cells[n][e] EXCEPT ![what] = @ + 1]
              BY <2>5, <5>2 DEF Kinds
            <6>1. Series(n)' = [cells[n][e] EXCEPT ![what] = @ + 1]
              BY <2>1, <2>3, <6>0 DEF Series
            <6> QED  BY <2>3, <3>2, <3>5, <5>2, <6>1 DEF Count
          <5> QED  BY <5>1, <5>2
        <4>2. In(t, Pending(m, w)') = In(t, Pending(m, w))  BY <2>10, <3>5 DEF In
        <4>3. a <= a  BY <3>2
        <4> QED  BY <2>1, <3>2, <4>1, <4>2, <4>3
      <3> QED  BY <3>4, <3>5
    <2>13. happened'.total - observed' - In(t, Timed') = happened.total - observed - In(t, Timed)
      <3>1. happened.total \in Nat  BY <1>t DEF History
      <3>2. CASE what = "duration"
        <4>1. In(t, Timed') = 0 /\ In(t, Timed) = 1  BY <2>1, <2>10, <3>2 DEF In
        <4> QED  BY <1>t, <2>1, <2>4, <3>1, <3>2, <4>1
      <3>3. CASE what # "duration"
        <4>1. In(t, Timed') = In(t, Timed)  BY <2>10, <3>3 DEF In
        <4>2. observed' = observed  BY <1>t, <2>5, <3>3 DEF Kinds
        <4> QED  BY <2>1, <4>1, <4>2
      <3> QED  BY <3>2, <3>3
    <2>14. gauge' - In(t, Gauged') = gauge - In(t, Gauged)  BY <2>1, <2>11 DEF In
    <2>15. happened'.shown = happened.shown  BY <2>1
    <2>16. CountersKept'  BY <2>6, <2>7, <2>8, <2>12, <2>13, <2>14, <2>15, CountersMove
    <2> QED  BY <2>6, <2>7, <2>9, <2>16 DEF MetricsInv
  (* A scrape: no task moves.                                              *)
  <1>c. \A n \in Labels, what \in {"ended", "limited"} :
          Series(n) \in Count /\ Series(n)[what] \in Nat /\ happened.shown[n][what] <= Series(n)[what]
    <2>1. \A n \in Labels : Series(n) \in Count  BY SeriesCounts DEF MetricsInv
    <2>2. \A c \in Count, what \in {"ended", "limited"} : c[what] \in Nat  BY DEF Count
    <2> QED  BY <2>1, <2>2 DEF MetricsInv, CountersKept
  <1>12. ASSUME UNCHANGED <<registry, cells, observed, gauge, task>>, scrape' \in Scrapes, happened' \in History,
                happened'.recorded = happened.recorded, happened'.total = happened.total,
                \A n \in Labels, what \in {"ended", "limited"} : happened'.shown[n][what] <= Series(n)[what],
                scrape'.at = "read" => \A n \in Labels : scrape'.map[n] = 0 \/ scrape'.map[n] = registry[n]
         PROVE  MetricsInv'
    <2>1. MetricsTypeOK'  BY <1>12 DEF MetricsInv, MetricsTypeOK
    <2>2. RegistryKnown' /\ TasksHold'  BY <1>12 DEF MetricsInv, RegistryKnown, TasksHold
    <2>3. ScrapeOlder'  BY <1>12 DEF ScrapeOlder
    <2>4. \A n \in Labels : Series(n)' = Series(n)  BY <1>12 DEF Series
    <2>5. CountersKept'  BY <1>12, <2>1, <2>4, CountersStill
    <2> QED  BY <2>1, <2>2, <2>3, <2>5 DEF MetricsInv
  <1>13. ASSUME NEW names \in SUBSET RouteNames, Scrape(names) PROVE MetricsInv'
    <2>1. /\ UNCHANGED <<registry, cells, observed, gauge, task>>
          /\ happened' = [happened EXCEPT !.scrapes = @ + 1]
          /\ \/ scrape' = [at |-> "render"]
             \/ scrape' = [at |-> "rcu", names |-> names, map |-> registry]
      BY <1>13 DEF Scrape
    <2>2. scrape' \in Scrapes /\ scrape'.at # "read"  BY <1>t, <2>1 DEF Scrapes
    <2>3. /\ happened' \in History /\ happened'.shown = happened.shown
          /\ happened'.recorded = happened.recorded /\ happened'.total = happened.total
      BY <1>t, <2>1 DEF History
    <2>4. \A n \in Labels, what \in {"ended", "limited"} : happened'.shown[n][what] <= Series(n)[what]
      BY <1>c, <2>3
    <2> QED  BY <1>12, <2>1, <2>2, <2>3, <2>4
  <1>14. CASE RenderLoads
    <2>1. /\ UNCHANGED <<registry, cells, observed, gauge, task, happened>>
          /\ scrape' = [at |-> "read", map |-> registry]
      BY <1>14 DEF RenderLoads
    <2>2. scrape' \in Scrapes /\ \A n \in Labels : scrape'.map[n] = registry[n]  BY <1>t, <2>1 DEF Scrapes
    <2>3. happened' \in History /\ happened'.recorded = happened.recorded /\ happened'.total = happened.total
      BY <1>t, <2>1
    <2>4. \A n \in Labels, what \in {"ended", "limited"} : happened'.shown[n][what] <= Series(n)[what]
      BY <1>c, <2>1
    <2>5. scrape'.at = "read" => \A n \in Labels : scrape'.map[n] = 0 \/ scrape'.map[n] = registry[n]
      BY <2>2
    <2> QED  BY <1>12, <2>1, <2>2, <2>3, <2>4, <2>5
  <1>15. CASE Render
    <2> DEFINE new == [n \in Labels |-> IF scrape.map[n] = 0 THEN Zero ELSE cells[n][scrape.map[n]]]
    <2>1. /\ UNCHANGED <<registry, cells, observed, gauge, task>> /\ scrape' = [at |-> "idle"]
          /\ happened' = [happened EXCEPT !.shown = new] /\ scrape.at = "read"
      BY <1>15 DEF Render
    <2>2. ASSUME NEW n \in Labels PROVE new[n] = Zero \/ new[n] = Series(n)
      <3>1. scrape.map[n] = 0 \/ scrape.map[n] = registry[n]  BY <2>1 DEF MetricsInv, ScrapeOlder
      <3>2. new[n] = IF scrape.map[n] = 0 THEN Zero ELSE cells[n][scrape.map[n]]  OBVIOUS
      <3>3. CASE scrape.map[n] = 0  BY <3>2, <3>3
      <3>4. CASE scrape.map[n] # 0
        <4>1. scrape.map[n] = registry[n] /\ registry[n] # 0  BY <3>1, <3>4
        <4>2. Series(n) = cells[n][scrape.map[n]]  BY <4>1 DEF Series
        <4> QED  BY <3>2, <3>4, <4>2
      <3> QED  BY <3>3, <3>4
    <2>3. new = [n \in Labels |-> new[n]]  OBVIOUS
    <2> HIDE DEF new
    <2>4. Zero \in Count  BY DEF Zero, Count
    <2>5. new \in [Labels -> Count]
      <3>1. \A n \in Labels : new[n] \in Count  BY <1>c, <2>2, <2>4
      <3> QED  BY <2>3, <3>1
    <2>6. /\ happened' \in History /\ happened'.shown = new
          /\ happened'.recorded = happened.recorded /\ happened'.total = happened.total
      BY <1>t, <2>1, <2>5 DEF History
    <2>7. \A n \in Labels, what \in {"ended", "limited"} : happened'.shown[n][what] <= Series(n)[what]
      <3> SUFFICES ASSUME NEW n \in Labels, NEW what \in {"ended", "limited"}
                   PROVE  new[n][what] <= Series(n)[what]
        BY <2>6
      <3>1. PICK a \in Nat : a = Series(n)[what]  BY <1>c
      <3>2. Zero[what] = 0  BY DEF Zero
      <3>3. 0 <= a /\ a <= a  BY <3>1
      <3> QED  BY <2>2, <3>1, <3>2, <3>3
    <2>8. scrape' \in Scrapes /\ scrape'.at # "read"  BY <2>1 DEF Scrapes
    <2> QED  BY <1>12, <2>1, <2>6, <2>7, <2>8
  <1>16. CASE RegisterRoutes
    <2>1. /\ scrape.at = "rcu" /\ UNCHANGED <<observed, gauge, task, happened>>
          /\ scrape \in [at : {"rcu"}, names : SUBSET RouteNames, map : [Labels -> Nat]]
      BY <1>t, <1>16 DEF RegisterRoutes, Scrapes
    <2>2. happened' \in History /\ happened'.recorded = happened.recorded /\ happened'.total = happened.total
      BY <1>t, <2>1
    <2>3. \A n \in Labels, what \in {"ended", "limited"} : happened'.shown[n][what] <= Series(n)[what]
      BY <1>c, <2>1
    <2>4. CASE registry = scrape.map
      <3>1. Install(registry, scrape.names) /\ scrape' = [at |-> "render"]
        BY <1>16, <2>4 DEF RegisterRoutes
      <3>2. scrape.names \in SUBSET Labels  BY <1>t, <2>1
      <3>3. scrape' \in Scrapes /\ scrape'.at # "read"  BY <3>1 DEF Scrapes
      <3>4. /\ registry' \in [Labels -> Nat] /\ cells' \in [Labels -> Seq(Count)] /\ RegistryKnown'
            /\ \A n \in Labels : Series(n)' = Series(n)
            /\ \A n \in Labels : registry[n] # 0 => registry'[n] = registry[n]
        BY <3>1, <3>2, InstallKeeps
      <3>5. MetricsTypeOK'  BY <1>t, <2>1, <3>3, <3>4 DEF MetricsTypeOK
      <3>6. Undisturbed  BY <2>1, <3>3, <3>4 DEF Undisturbed
      <3>7. TasksHold' /\ ScrapeOlder'  BY <3>6, UndisturbedHold
      <3>8. CountersKept'  BY <2>1, <2>2, <2>3, <3>4, <3>5, CountersStill
      <3> QED  BY <3>4, <3>5, <3>7, <3>8 DEF MetricsInv
    <2>5. CASE registry # scrape.map
      <3>1. UNCHANGED <<registry, cells>> /\ scrape' = [scrape EXCEPT !.map = registry]
        BY <1>16, <2>5 DEF RegisterRoutes
      <3>2. scrape' \in [at : {"rcu"}, names : SUBSET RouteNames, map : [Labels -> Nat]]
        BY <1>t, <2>1, <3>1
      <3>3. scrape' \in Scrapes /\ scrape'.at # "read"  BY <3>2 DEF Scrapes
      <3> QED  BY <1>12, <2>1, <2>2, <2>3, <3>1, <3>3
    <2> QED  BY <2>4, <2>5
  <1>17. CASE UNCHANGED metricVars
    <2>1. UNCHANGED <<registry, cells, observed, gauge, task, scrape, happened>>  BY <1>17 DEF metricVars
    <2>2. scrape'.at = "read" => \A n \in Labels : scrape'.map[n] = 0 \/ scrape'.map[n] = registry[n]
      BY <2>1 DEF MetricsInv, ScrapeOlder
    <2>3. \A n \in Labels, what \in {"ended", "limited"} : happened'.shown[n][what] <= Series(n)[what]
      BY <1>c, <2>1
    <2>4. scrape' \in Scrapes /\ happened' \in History /\ happened'.recorded = happened.recorded
          /\ happened'.total = happened.total
      BY <1>t, <2>1
    <2> QED  BY <1>12, <2>1, <2>2, <2>3, <2>4
  <1>18. ASSUME NEW t \in Tasks,
                \/ Begin(t) \/ Overloaded(t) \/ Cancel(t)
                \/ \E n \in Labels : End(t, n)
                \/ \E n \in RouteNames : RateLimited(t, n)
                \/ Counters(t) \/ RegisterLazily(t) \/ LookAgain(t)
                \/ \E what \in {"ended", "limited", "duration"} : Bump(t, what)
                \/ Recorded(t)
         PROVE  MetricsInv'
    BY <1>2, <1>4, <1>6, <1>7, <1>8, <1>9, <1>10, <1>11, <1>18 DEF Kinds
  <1> QED  BY <1>13, <1>14, <1>15, <1>16, <1>17, <1>18 DEF MetricsNext

-----------------------------------------------------------------------------
(* The parts together.  A behaviour runs one of them; every other one's    *)
(* variables stay, which its own lemma covers as a stuttering step.        *)
MCInv == ServeInv /\ HeaderInv /\ SpansInv /\ MetricsInv /\ ClientsInv /\ StreamInv

LEMMA MCInvInit == MCInit => MCInv
  <1> SUFFICES ASSUME MCInit PROVE MCInv
    OBVIOUS
  <1>1. ServeInit \/ ServeRest  BY DEF MCInit
  <1>2. HeaderInit \/ HeaderRest  BY DEF MCInit
  <1>3. StreamInit \/ StreamRest  BY DEF MCInit
  <1>4. ExportInit /\ ClientsInit /\ MetricsInit  BY DEF MCInit
  <1> QED
    BY <1>1, <1>2, <1>3, <1>4, ServeInitInv, HeaderInitInv, SpansInitInv, MetricsInitInv,
       ClientsInitInv, StreamInitInv DEF MCInv

LEMMA MCInvStep == MCInv /\ [MCNext]_mcVars => MCInv'
  <1> SUFFICES ASSUME MCInv, [MCNext]_mcVars PROVE MCInv'
    OBVIOUS
  <1>1. /\ [ServeNext]_serveVars /\ [HeaderNext]_headerVars /\ [ExportNext]_exportVars
        /\ [MetricsNext]_metricVars /\ [ClientsNext]_clientVars /\ [StreamNext]_streamVars
    BY DEF MCNext, InServe, InHeader, InDns, InExport, InClients, InStream, InMetrics, mcVars
  <1> QED
    BY <1>1, ServeStepInv, HeaderStepInv, SpansStepInv, MetricsStepInv, ClientsStepInv,
       StreamStepInv DEF MCInv

LEMMA ServerInvariant == MCSpec => []MCInv
  BY MCInvInit, MCInvStep, PTL DEF MCSpec

(* However connections arrive, upgrade, end and drain, every connection    *)
(* and tunnel a client still has is one of MAX_CONNECTIONS permits, none   *)
(* is lost, and no request is broken before a drain window ran out.        *)
THEOREM DrainIsSound == MCSpec => []DrainSound
  <1>1. MCInv => DrainSound  BY ServeInvSound DEF MCInv, DrainSound
  <1> QED  BY <1>1, ServerInvariant, PTL

(* Whatever pieces a PROXY header or an HTTP/3 body arrives in, the peer   *)
(* and the length the server goes by are those of the whole.               *)
THEOREM ClientIsReadRight == MCSpec => []ClientReadRight
  <1>1. MCInv => ClientReadRight  BY DEF MCInv, HeaderInv, StreamInv, ClientReadRight
  <1> QED  BY <1>1, ServerInvariant, PTL

(* Until a flush is cut short every span is accounted for, and no          *)
(* interleaving of requests, lazy registrations and scrapes loses or       *)
(* repeats a count.                                                        *)
THEOREM TelemetryIsAccounted == MCSpec => []TelemetryAccounted
  <1>1. MCInv => TelemetryAccounted  BY DEF MCInv, SpansInv, MetricsInv, TelemetryAccounted
  <1> QED  BY <1>1, ServerInvariant, PTL

(* A request never goes out over a cached client that was made for another *)
(* group's TLS configuration, also when a freed one's address is reused.   *)
THEOREM ClientsMatchGroups == MCSpec => []ClientMatchesGroup
  <1>1. MCInv => ClientMatchesGroup  BY DEF MCInv, ClientsInv
  <1> QED  BY <1>1, ServerInvariant, PTL
=============================================================================
