-------------------------- MODULE Configure_proofs --------------------------
(***************************************************************************)
(* Proofs about Configure, Tickets and Reload, for every set of manifests, *)
(* files and layouts an operator may write, for any threads, keys,         *)
(* contexts and max_age, and for any callers that reload.  What the check  *)
(* passed loads, or fails for what the check cannot see; what runs was     *)
(* verified whole, and its Maglev tables have no hole.  A ticket resumes   *)
(* only in a context like its own, and never with a key whose file is too  *)
(* old, however handshakes, rotations, reloads and the clock interleave.   *)
(* A reload is all or nothing.                                             *)
(***************************************************************************)
EXTENDS Configure, Tickets, Reload, FoldLemmas, SequenceTheorems, WellFoundedInduction, TLAPS

(* A set of naturals that is not empty has a least one.                    *)
LEMMA MinIsIn ==
  ASSUME NEW S, S \subseteq Nat, S # {}
  PROVE  Min(S) \in S /\ \A i \in S : Min(S) <= i
<1> DEFINE Below == {ss \in Nat \X Nat : ss[1] < ss[2]}
<1>1. IsWellFoundedOn(Below, Nat)
  BY NatLessThanWellFounded DEF OpToRel
<1> HIDE DEF Below
<1>2. PICK x \in S : \A y \in S : ~(<<y, x>> \in Below)
  BY <1>1, WFMin
<1>3. ASSUME NEW y \in S PROVE x <= y
  <2>1. x \in Nat /\ y \in Nat /\ <<y, x>> \in Nat \X Nat
    OBVIOUS
  <2>2. ~(y < x)
    BY <1>2, <2>1 DEF Below
  <2> QED  BY <2>1, <2>2
<1> QED  BY <1>3 DEF Min

(* The error of a sequence of steps is that of one that failed.            *)
LEMMA FirstErrIsAStep ==
  ASSUME NEW n \in Nat, NEW steps, DOMAIN steps = 1..n
  PROVE  \/ (\A i \in 1..n : steps[i][1]) /\ FirstErr(steps) = "none"
         \/ \E i \in 1..n : ~steps[i][1] /\ FirstErr(steps) = steps[i][2]
<1> DEFINE failed == {i \in DOMAIN steps : ~steps[i][1]}
<1>1. CASE failed = {}
  BY <1>1 DEF FirstErr
<1>2. CASE failed # {}
  <2>1. failed \subseteq Nat
    OBVIOUS
  <2>2. Min(failed) \in failed
    <3> HIDE DEF failed
    <3> QED  BY <1>2, <2>1, MinIsIn
  <2> QED  BY <1>2, <2>2 DEF FirstErr
<1> QED  BY <1>1, <1>2

LEMMA ValidatedMeans ==
  ASSUME NEW d, ValidateErr(d) = "none"
  PROVE  /\ KeysReadable(d.manifest, d.files) /\ StateValid(d.manifest.state)
         /\ ListenValid(d.manifest.listen) /\ ObservabilityValid(d.manifest.observability)
         /\ FiltersValid(d.manifest)
         /\ \A f \in Each(d.manifest.filters) : ResolvedConfig(f, Texts(d.files)) # Absent
         /\ RoutesValid(d.manifest)
         /\ ServerTlsErr(d.manifest, d.files) = "none"
         /\ ReconcileErr(d.manifest, d.files, << >>) = "none"
<1> DEFINE steps == << <<KeysReadable(d.manifest, d.files), "trust">>,
              <<StateValid(d.manifest.state), "state">>,
              <<ListenValid(d.manifest.listen), "listen">>,
              <<ObservabilityValid(d.manifest.observability), "observability">>,
              <<FiltersValid(d.manifest), "filter">>,
              <<\A f \in Each(d.manifest.filters) :
                  ResolvedConfig(f, Texts(d.files)) # Absent, "config">>,
              <<RoutesValid(d.manifest), "route">>,
              <<ServerTlsErr(d.manifest, d.files) = "none", "tls">>,
              <<ReconcileErr(d.manifest, d.files, << >>) = "none", "upstream">> >>
<1>1. FirstErr(steps) = "none"
  BY DEF ValidateErr
<1>2. DOMAIN steps = 1..9 /\ \A i \in 1..9 : steps[i][2] # "none"
  OBVIOUS
<1>3. \A i \in 1..9 : steps[i][1]
  <2> HIDE DEF steps
  <2> QED  BY <1>1, <1>2, FirstErrIsAStep
<1>4. /\ steps[1][1] /\ steps[2][1] /\ steps[3][1] /\ steps[4][1] /\ steps[5][1]
      /\ steps[6][1] /\ steps[7][1] /\ steps[8][1] /\ steps[9][1]
  <2> HIDE DEF steps
  <2> QED  BY <1>3
<1> QED  BY <1>4, Zenon
LEMMA ResolvedMeans ==
  ASSUME NEW d, ResolveErr(d) = "none"
  PROVE  \A f \in Each(d.manifest.filters) :
           LET r == ResolvedFilter(d, f)
           IN  /\ r.err = "none"
               /\ VerifyArtifact(TrustedKeys(d.manifest, d.files), r.artifact) = "none"
               /\ ContractTarget(r.artifact["wasm"]) \in {"none", "inconclusive"}
<1> DEFINE all == \A f \in Each(d.manifest.filters) :
             /\ ResolvedFilter(d, f).err = "none"
             /\ VerifyArtifact(TrustedKeys(d.manifest, d.files), ResolvedFilter(d, f).artifact) = "none"
             /\ ContractTarget(ResolvedFilter(d, f).artifact["wasm"]) \in {"none", "inconclusive"}
           steps == << <<KeysReadable(d.manifest, d.files), "trust">>, <<all, "artifact">> >>
<1>1. FirstErr(steps) = "none"
  BY Zenon DEF ResolveErr
<1>2. DOMAIN steps = 1..2 /\ \A i \in 1..2 : steps[i][2] # "none"
  OBVIOUS
<1>3. steps[2][1]
  <2> HIDE DEF steps
  <2>1. \A i \in 1..2 : steps[i][1]
    BY <1>1, <1>2, FirstErrIsAStep
  <2> QED  BY <2>1
<1>4. all
  <2> HIDE DEF all
  <2> QED  BY <1>3, Zenon
<1> QED  BY <1>4

(* A verified component fails, if at all, for what only a load can see.    *)
LEMMA LoadIsLate ==
  ASSUME NEW d, NEW f, NEW keys, NEW backend,
         ResolvedFilter(d, f).err = "none",
         VerifyArtifact(keys, ResolvedFilter(d, f).artifact) = "none",
         ResolvedConfig(f, Texts(d.files)) # Absent
  PROVE  LoadErr(d, keys, backend, f) \in LoadTime
<1> DEFINE a == ResolvedFilter(d, f).artifact
           c == a["wasm"]
           opts == LoadOptions(f, ResolvedConfig(f, Texts(d.files)))
<1>2. LoadErr(d, keys, backend, f) = Load(f.id, opts, a, keys, backend).err
  BY DEF LoadErr
<1>3. VerifyArtifact(keys, a) = "none"
  OBVIOUS
<1> HIDE DEF a, opts
<1>4. Load(f.id, opts, a, keys, backend).err \in LoadTime
  BY <1>3 DEF Load, LoadTime, Refused
<1> QED  BY <1>2, <1>4

(* Groups that stand spare a build the reading of their TLS files.         *)
LEMMA ReconcileWithGroups ==
  ASSUME NEW m, NEW fs, NEW groups, ReconcileErr(m, fs, << >>) = "none"
  PROVE  ReconcileErr(m, fs, groups) = "none"
<1> DEFINE reused(g, u) == u.name \in DOMAIN g /\ g[u.name].tls = u.tls
           loads(g) == \A u \in Each(m.upstreams) :
             u.tls = Absent \/ (reused(g, u) /\ u.tls.sni # "bad") \/ UpstreamTlsLoads(u.tls, fs)
           steps(g) == << <<UpstreamsValid(m), "upstream">>, <<loads(g), "upstream_tls">> >>
<1>1. \A g : ReconcileErr(m, fs, g) = FirstErr(steps(g))
  BY Zenon DEF ReconcileErr
<1>2. \A g : DOMAIN steps(g) = 1..2 /\ (\A i \in 1..2 : steps(g)[i][2] # "none")
  OBVIOUS
<1>3. \A i \in 1..2 : steps(<< >>)[i][1]
  <2> HIDE DEF steps
  <2> QED  BY <1>1, <1>2, FirstErrIsAStep
<1>4. UpstreamsValid(m) /\ loads(<< >>)
  <2>1. steps(<< >>)[1][1] /\ steps(<< >>)[2][1]
    <3> HIDE DEF steps
    <3> QED  BY <1>3
  <2> QED  BY <2>1, Zenon
<1>5. loads(groups)
  BY <1>4
<1>6. \A i \in 1..2 : steps(groups)[i][1]
  <2>1. steps(groups)[1][1] /\ steps(groups)[2][1]
    BY <1>4, <1>5, Zenon
  <2> HIDE DEF steps
  <2> QED  BY <2>1
<1>7. FirstErr(steps(groups)) = "none"
  <2> HIDE DEF steps
  <2> QED  BY <1>2, <1>6, FirstErrIsAStep
<1> QED  BY <1>1, <1>7

(* What BuildErr says: some step's error, and "none" only if all passed.   *)
LEMMA BuildErrMeans ==
  ASSUME NEW d, NEW keys, NEW backend, NEW groups, DOMAIN d.manifest.filters \subseteq Nat
  PROVE  LET err == BuildErr(d, keys, backend, groups)
         IN  \/ err = "filter" /\ ~FiltersValid(d.manifest)
             \/ /\ err # "none"
                /\ \E f \in Each(d.manifest.filters) : err = LoadErr(d, keys, backend, f)
             \/ err = "route" /\ ~RoutesValid(d.manifest)
             \/ err = "tls" /\ ServerTlsErr(d.manifest, d.files) # "none"
             \/ err = "digest" /\ ~Digestible(d)
             \/ err = "upstream" /\ ReconcileErr(d.manifest, d.files, groups) # "none"
             \/ /\ err = "none" /\ FiltersValid(d.manifest) /\ RoutesValid(d.manifest)
                /\ \A f \in Each(d.manifest.filters) : LoadErr(d, keys, backend, f) = "none"
                /\ Digestible(d)
                /\ ServerTlsErr(d.manifest, d.files) = "none"
                /\ ReconcileErr(d.manifest, d.files, groups) = "none"
<1> DEFINE filters == d.manifest.filters
           E(i) == LoadErr(d, keys, backend, filters[i])
           fail == {i \in DOMAIN filters : E(i) # "none"}
           label == IF fail = {} THEN "none" ELSE E(Min(fail))
           tls == ServerTlsErr(d.manifest, d.files) = "none"
           ups == ReconcileErr(d.manifest, d.files, groups) = "none"
           steps == << <<FiltersValid(d.manifest), "filter">>, <<fail = {}, label>>,
                       <<RoutesValid(d.manifest), "route">>, <<tls, "tls">>,
                       <<Digestible(d), "digest">>, <<ups, "upstream">> >>
<1>1. BuildErr(d, keys, backend, groups) = FirstErr(steps)
  BY Zenon DEF BuildErr
<1>2. fail # {} => Min(fail) \in DOMAIN filters /\ label # "none" /\ label = E(Min(fail))
  <2>1. fail \subseteq Nat
    OBVIOUS
  <2> HIDE DEF E
  <2>2. fail # {} => Min(fail) \in fail
    <3> HIDE DEF fail
    <3> QED  BY <2>1, MinIsIn
  <2> QED  BY <2>2
<1>3. fail # {} => \E f \in Each(d.manifest.filters) : label = LoadErr(d, keys, backend, f)
  BY <1>2 DEF Each
<1>4. fail = {} => \A f \in Each(d.manifest.filters) : LoadErr(d, keys, backend, f) = "none"
  BY DEF Each
<1>5. DOMAIN steps = 1..6
  OBVIOUS
<1>6. \/ (\A i \in 1..6 : steps[i][1]) /\ FirstErr(steps) = "none"
      \/ \E i \in 1..6 : ~steps[i][1] /\ FirstErr(steps) = steps[i][2]
  <2> HIDE DEF steps
  <2> QED  BY <1>5, FirstErrIsAStep
<1>7. \/ /\ steps[1][1] /\ steps[2][1] /\ steps[3][1] /\ steps[4][1] /\ steps[5][1]
         /\ steps[6][1] /\ FirstErr(steps) = "none"
      \/ ~steps[1][1] /\ FirstErr(steps) = steps[1][2]
      \/ ~steps[2][1] /\ FirstErr(steps) = steps[2][2]
      \/ ~steps[3][1] /\ FirstErr(steps) = steps[3][2]
      \/ ~steps[4][1] /\ FirstErr(steps) = steps[4][2]
      \/ ~steps[5][1] /\ FirstErr(steps) = steps[5][2]
      \/ ~steps[6][1] /\ FirstErr(steps) = steps[6][2]
  <2> HIDE DEF steps
  <2> QED  BY <1>6
<1>8. \/ /\ FiltersValid(d.manifest) /\ fail = {} /\ RoutesValid(d.manifest) /\ tls /\ ups
         /\ Digestible(d) /\ FirstErr(steps) = "none"
      \/ ~FiltersValid(d.manifest) /\ FirstErr(steps) = "filter"
      \/ fail # {} /\ FirstErr(steps) = label
      \/ ~RoutesValid(d.manifest) /\ FirstErr(steps) = "route"
      \/ ~tls /\ FirstErr(steps) = "tls"
      \/ ~Digestible(d) /\ FirstErr(steps) = "digest"
      \/ ~ups /\ FirstErr(steps) = "upstream"
  <2> HIDE DEF fail, label, tls, ups
  <2> QED  BY <1>7, Zenon
<1> HIDE DEF steps, fail, label
<1> QED  BY <1>1, <1>2, <1>3, <1>4, <1>8

(* What was validated names only files that are there.                     *)
LEMMA ValidatedDigests ==
  ASSUME NEW d, ValidateErr(d) = "none"
  PROVE  Digestible(d)
<1> DEFINE m == d.manifest
           fs == d.files
           auth == m.listen.client_auth
           tls == {u.tls : u \in Each(m.upstreams)} \ {Absent}
           steps == << <<auth = Absent \/ fs[auth] # Absent, "client_auth">>,
              <<m.resumption = Absent \/ auth = Absent, "stek">>,
              <<m.tls # << >> \/ m.resumption = Absent, "stek">>,
              <<m.tls # << >> \/ auth = Absent, "client_auth">>,
              <<\A t \in Each(m.tls) : CertLoads(fs, t.cert, t.key), "tls_cert">>,
              <<Distinct(m.tls, LAMBDA t : t.host), "tls_cert">>,
              <<m.resumption = Absent \/ ResumptionValid(m.resumption), "stek">>,
              <<m.resumption = Absent \/ (Kind(fs, m.resumption.file) = "stek"
                                          /\ fs[m.resumption.file].owner), "stek">>,
              <<auth = Absent \/ ClientVerifierLoads(fs, auth), "client_auth">> >>
           loads == \A u \in Each(m.upstreams) :
              u.tls = Absent \/ ((u.name \in DOMAIN << >> /\ << >>[u.name].tls = u.tls)
                                   /\ u.tls.sni # "bad")
                             \/ UpstreamTlsLoads(u.tls, fs)
           checks == << <<UpstreamsValid(m), "upstream">>, <<loads, "upstream_tls">> >>
<1>1. /\ ServerTlsErr(m, fs) = "none" /\ ReconcileErr(m, fs, << >>) = "none"
      /\ \A f \in Each(m.filters) : ResolvedConfig(f, Texts(fs)) # Absent
  BY ValidatedMeans
<1>2. checks[2][1]
  <2>1. FirstErr(checks) = "none"  BY <1>1, Zenon DEF ReconcileErr
  <2>2. DOMAIN checks = 1..2 /\ \A i \in 1..2 : checks[i][2] # "none"  OBVIOUS
  <2> HIDE DEF checks
  <2>3. \A i \in 1..2 : checks[i][1]  BY <2>1, <2>2, FirstErrIsAStep
  <2> QED  BY <2>3
<1>3. steps[1][1] /\ steps[5][1] /\ steps[8][1]
  <2>1. FirstErr(steps) = "none"  BY <1>1, Zenon DEF ServerTlsErr
  <2>2. DOMAIN steps = 1..9 /\ \A i \in 1..9 : steps[i][2] # "none"  OBVIOUS
  <2> HIDE DEF steps
  <2>3. \A i \in 1..9 : steps[i][1]  BY <2>1, <2>2, FirstErrIsAStep
  <2> QED  BY <2>3
<1>4. steps[1][1] /\ steps[5][1] /\ steps[8][1] /\ checks[2][1]
  BY <1>2, <1>3, Zenon
<1>5. /\ auth = Absent \/ fs[auth] # Absent
      /\ \A t \in Each(m.tls) : CertLoads(fs, t.cert, t.key)
      /\ m.resumption = Absent \/ Kind(fs, m.resumption.file) = "stek"
      /\ loads
  <2> HIDE DEF loads
  <2> QED  BY <1>4, Zenon
<1>6. \A n : Kind(fs, n) \in {"cert", "key", "ca", "stek"} => fs[n] # Absent
  BY DEF Kind
<1>7. \A c, k : CertLoads(fs, c, k) => fs[c] # Absent /\ fs[k] # Absent
  <2> HIDE DEF fs
  <2>1. \A c, k : CertLoads(fs, c, k) => Kind(fs, c) = "cert" /\ Kind(fs, k) = "key"
    BY Zenon DEF CertLoads
  <2> QED  BY <1>6, <2>1
<1>8. \A t \in tls : UpstreamTlsLoads(t, fs)
  <2>1. DOMAIN << >> = {}  OBVIOUS
  <2> QED  BY <1>5, <2>1
<1>9. \A t \in tls : \A n \in {t.ca, t.cert, t.key} \ {Absent} : fs[n] # Absent
  <2> HIDE DEF tls, fs
  <2> SUFFICES ASSUME NEW t \in tls
               PROVE  \A n \in {t.ca, t.cert, t.key} \ {Absent} : fs[n] # Absent
    OBVIOUS
  <2>1. /\ t.ca = Absent \/ Kind(fs, t.ca) = "ca"
        /\ (t.cert = Absent) = (t.key = Absent)
        /\ t.cert # Absent => CertLoads(fs, t.cert, t.key)
    BY <1>8, Zenon DEF UpstreamTlsLoads
  <2>2. t.ca = Absent \/ fs[t.ca] # Absent  BY <1>6, <2>1
  <2>3. t.cert # Absent => fs[t.cert] # Absent /\ fs[t.key] # Absent  BY <1>7, <2>1
  <2>4. t.key # Absent => t.cert # Absent  BY <2>1
  <2> QED  BY <2>2, <2>3, <2>4
<1>10. \A n \in Named(m) : fs[n] # Absent
  <2> HIDE DEF tls
  <2> SUFFICES ASSUME NEW n \in Named(m) PROVE fs[n] # Absent
    OBVIOUS
  <2>1. /\ n # Absent
        /\ \/ \E t \in Each(m.tls) : n \in {t.cert, t.key}
           \/ \E t \in tls : n \in {t.ca, t.cert, t.key}
           \/ n = auth
           \/ m.resumption # Absent /\ n = m.resumption.file
    BY DEF Named, tls
  <2> QED  BY <1>5, <1>6, <1>7, <1>9, <2>1
<1> QED  BY <1>1, <1>10 DEF Digestible

(* Both checks passed: a build fails only for what they cannot see.        *)
LEMMA BuildIsLate ==
  ASSUME NEW d, NEW backend, NEW groups, DOMAIN d.manifest.filters \subseteq Nat,
         ValidateErr(d) = "none", ResolveErr(d) = "none"
  PROVE  BuildErr(d, TrustedKeys(d.manifest, d.files), backend, groups) \in LoadTime
<1> DEFINE keys == TrustedKeys(d.manifest, d.files)
<1>1. \A f \in Each(d.manifest.filters) : LoadErr(d, keys, backend, f) \in LoadTime
  <2> SUFFICES ASSUME NEW f \in Each(d.manifest.filters)
               PROVE  LoadErr(d, keys, backend, f) \in LoadTime
    OBVIOUS
  <2>1. ResolvedConfig(f, Texts(d.files)) # Absent
    BY ValidatedMeans
  <2>2. /\ ResolvedFilter(d, f).err = "none"
        /\ VerifyArtifact(keys, ResolvedFilter(d, f).artifact) = "none"
    BY ResolvedMeans
  <2> HIDE DEF keys
  <2> QED  BY <2>1, <2>2, LoadIsLate
<1>2. /\ FiltersValid(d.manifest) /\ RoutesValid(d.manifest)
      /\ ServerTlsErr(d.manifest, d.files) = "none"
      /\ ReconcileErr(d.manifest, d.files, groups) = "none"
      /\ Digestible(d)
  BY ValidatedMeans, ValidatedDigests, ReconcileWithGroups
<1> HIDE DEF keys
<1>3. "none" \in LoadTime
  BY DEF LoadTime
<1>4. BuildErr(d, keys, backend, groups) \in LoadTime
  BY <1>1, <1>2, <1>3, BuildErrMeans
<1> QED  BY <1>4 DEF keys

LEMMA BuildActiveErr ==
  ASSUME NEW d, NEW p
  PROVE  BuildActive(d, p).err = BuildErr(d, p.keys, p.state.backend, p.groups)
  BY DEF BuildActive

LEMMA StartIsLate ==
  ASSUME NEW d, NEW opens \in BOOLEAN, DOMAIN d.manifest.filters \subseteq Nat,
         ValidateErr(d) = "none", ResolveErr(d) = "none"
  PROVE  StartErr(d, opens) \in LoadTime \cup {"state_open"}
<1> DEFINE host == FirstErr(<< <<KeysReadable(d.manifest, d.files), "trust">>,
                          <<StateValid(d.manifest.state), "state">>,
                          <<d.manifest.state.backend = "memory" \/ opens, "state_open">>,
                          <<ObservabilityValid(d.manifest.observability), "observability">> >>)
           steps == << <<KeysReadable(d.manifest, d.files), "trust">>,
                          <<StateValid(d.manifest.state), "state">>,
                          <<d.manifest.state.backend = "memory" \/ opens, "state_open">>,
                          <<ObservabilityValid(d.manifest.observability), "observability">> >>
<1>1. /\ KeysReadable(d.manifest, d.files) /\ StateValid(d.manifest.state)
      /\ ObservabilityValid(d.manifest.observability) /\ ListenValid(d.manifest.listen)
  BY ValidatedMeans
<1>2. DOMAIN steps = 1..4
  OBVIOUS
<1>3. \/ FirstErr(steps) = "none"
      \/ \E i \in 1..4 : ~steps[i][1] /\ FirstErr(steps) = steps[i][2]
  <2> HIDE DEF steps
  <2> QED  BY <1>2, FirstErrIsAStep
<1>4. \/ FirstErr(steps) = "none"
      \/ ~steps[1][1] \/ ~steps[2][1] \/ FirstErr(steps) = steps[3][2] \/ ~steps[4][1]
  <2> HIDE DEF steps
  <2> QED  BY <1>3
<1>5. host \in {"none", "state_open"}
  BY <1>1, <1>4, Zenon
<1>6. BuildActive(d, Host(d)).err \in LoadTime
  <2>1. Host(d).keys = TrustedKeys(d.manifest, d.files)
    BY DEF Host
  <2> QED  BY <2>1, BuildActiveErr, BuildIsLate
<1>7. StartErr(d, opens) \in {"none", "state_open", BuildActive(d, Host(d)).err}
  <2>1. StartErr(d, opens) =
          IF host # "none" THEN host
          ELSE IF BuildActive(d, Host(d)).err # "none" THEN BuildActive(d, Host(d)).err
          ELSE IF ~ListenValid(d.manifest.listen) THEN "listen" ELSE "none"
    BY Zenon DEF StartErr
  <2> HIDE DEF host
  <2> QED  BY <1>1, <1>5, <2>1
<1> QED  BY <1>6, <1>7 DEF LoadTime

(* The disk holds a manifest the operator wrote; the process is a record.  *)
DiskOK ==
  /\ disk = [manifest |-> disk.manifest, files |-> disk.files, layouts |-> disk.layouts]
  /\ disk.manifest \in Manifests \cup {InitialDisk.manifest}
ProcShape(p) ==
  DOMAIN p = {"trust", "state", "keys", "groups", "active"}

(* What was checked is what the disk still holds, and the last command     *)
(* ended the way it ends on this disk.                                     *)
CheckInv ==
  /\ DiskOK
  /\ proc # Absent => ProcShape(proc)
  /\ "resolve" \in passed => ValidateErr(disk) = "none" /\ ResolveErr(disk) = "none"
  /\ last.op = "start" => \E opens \in BOOLEAN : last.err = StartErr(disk, opens)
  /\ last.op = "reload" =>
       \/ last.err \in {"none", "trust_changed", "state_changed"}
       \/ \E backend, groups : last.err = BuildErr(disk, proc.keys, backend, groups)

LEMMA BuiltProc ==
  ASSUME NEW d, NEW p, ProcShape(p)
  PROVE  /\ ProcShape(BuildActive(d, p).proc)
         /\ BuildActive(d, p).proc.keys = p.keys
         /\ BuildActive(d, p).proc.trust = p.trust /\ BuildActive(d, p).proc.state = p.state
         /\ BuildActive(d, p).err # "none" => BuildActive(d, p).proc = p
         /\ BuildActive(d, p).err = "none" =>
              /\ BuildActive(d, p).proc.groups = NamedGroups(d.manifest)
              /\ BuildActive(d, p).proc.active = Active(d, p.keys, p.state.backend)
<1> DEFINE err == BuildErr(d, p.keys, p.state.backend, p.groups)
           gs == NamedGroups(d.manifest)
           act == Active(d, p.keys, p.state.backend)
           q == [p EXCEPT !.groups = gs, !.active = act]
<1>1. BuildActive(d, p) = [err |-> err, proc |-> IF err # "none" THEN p ELSE q]
  BY DEF BuildActive
<1> HIDE DEF err, gs, act
<1>2. ProcShape(q) /\ q.keys = p.keys /\ q.trust = p.trust /\ q.state = p.state
      /\ q.groups = gs /\ q.active = act
  BY DEF ProcShape
<1> HIDE DEF q
<1> QED  BY <1>1, <1>2 DEF gs, act

LEMMA HostShape == \A d : ProcShape(Host(d))
  BY DEF ProcShape, Host

LEMMA EditKeepsDisk ==
  ASSUME DiskOK,
         \/ \E m \in Manifests : EditManifest(m)
         \/ \E n \in DOMAIN Files : \E body \in Files[n] : EditFile(n, body)
         \/ \E s \in DOMAIN Layouts : \E layout \in Layouts[s] : EditLayout(s, layout)
  PROVE  DiskOK' /\ proc' = proc /\ last' = Nothing /\ passed' = {}
<1>1. ASSUME NEW m \in Manifests, EditManifest(m)
      PROVE  DiskOK' /\ proc' = proc /\ last' = Nothing /\ passed' = {}
  <2>1. disk' = [disk EXCEPT !.manifest = m] /\ proc' = proc /\ last' = Nothing /\ passed' = {}
    BY <1>1 DEF EditManifest, Edited
  <2>2. disk' = [manifest |-> m, files |-> disk.files, layouts |-> disk.layouts]
    BY <2>1 DEF DiskOK
  <2> QED  BY <1>1, <2>1, <2>2 DEF DiskOK
<1>2. ASSUME NEW n, NEW body, EditFile(n, body)
      PROVE  DiskOK' /\ proc' = proc /\ last' = Nothing /\ passed' = {}
  <2> DEFINE fs == [disk.files EXCEPT ![n] = body]
  <2>1. disk' = [disk EXCEPT !.files = fs] /\ proc' = proc /\ last' = Nothing /\ passed' = {}
    BY <1>2 DEF EditFile, Edited
  <2> HIDE DEF fs
  <2> QED  BY <2>1 DEF DiskOK
<1>3. ASSUME NEW n, NEW layout, EditLayout(n, layout)
      PROVE  DiskOK' /\ proc' = proc /\ last' = Nothing /\ passed' = {}
  <2> DEFINE ls == [disk.layouts EXCEPT ![n] = layout]
  <2>1. disk' = [disk EXCEPT !.layouts = ls] /\ proc' = proc /\ last' = Nothing /\ passed' = {}
    BY <1>3 DEF EditLayout, Edited
  <2> HIDE DEF ls
  <2> QED  BY <2>1 DEF DiskOK
<1> QED  BY <1>1, <1>2, <1>3

LEMMA CheckStart == Init => CheckInv
<1> SUFFICES ASSUME Init PROVE CheckInv
  OBVIOUS
<1>1. DiskOK
  BY DiskAssumption DEF Init, DiskOK
<1>2. last.op = "none"
  BY DEF Init, Nothing
<1> QED  BY <1>1, <1>2 DEF Init, CheckInv

LEMMA CheckStep == CheckInv /\ [Next]_vars => CheckInv'
<1> SUFFICES ASSUME CheckInv, [Next]_vars PROVE CheckInv'
  OBVIOUS
<1>1. CASE \/ \E m \in Manifests : EditManifest(m)
           \/ \E n \in DOMAIN Files : \E body \in Files[n] : EditFile(n, body)
           \/ \E s \in DOMAIN Layouts : \E layout \in Layouts[s] : EditLayout(s, layout)
  <2>1. DiskOK' /\ proc' = proc /\ last' = Nothing /\ passed' = {}
    BY <1>1, EditKeepsDisk DEF CheckInv
  <2>2. last'.op = "none"
    BY <2>1 DEF Nothing
  <2> QED  BY <2>1, <2>2 DEF CheckInv, ProcShape
<1>2. ASSUME NEW op \in {"validate", "resolve"}, NEW err, Check(op, err),
             op = "resolve" /\ err = "none" => ValidateErr(disk) = "none" /\ ResolveErr(disk) = "none"
      PROVE  CheckInv'
  <2>1. last'.op = op /\ disk' = disk /\ proc' = proc
    BY <1>2 DEF Check, Ends
  <2>2. "resolve" \in passed' => ValidateErr(disk) = "none" /\ ResolveErr(disk) = "none"
    BY <1>2 DEF Check, CheckInv
  <2>3. DiskOK' /\ (proc' # Absent => ProcShape(proc'))
    BY <2>1 DEF CheckInv, DiskOK
  <2> QED  BY <1>2, <2>1, <2>2, <2>3 DEF CheckInv
<1>3. CASE Validate
  BY <1>2, <1>3 DEF Validate
<1>4. CASE ValidateResolve
  <2> DEFINE err == IF ValidateErr(disk) # "none" THEN ValidateErr(disk) ELSE ResolveErr(disk)
  <2>1. err = "none" => ValidateErr(disk) = "none" /\ ResolveErr(disk) = "none"
    OBVIOUS
  <2>2. Check("resolve", err)
    BY <1>4 DEF ValidateResolve
  <2> HIDE DEF err
  <2> QED  BY <1>2, <2>1, <2>2
<1>5. ASSUME NEW opens \in BOOLEAN, Start(opens) PROVE CheckInv'
  <2>1. /\ last' = [op |-> "start", err |-> StartErr(disk, opens)]
        /\ disk' = disk /\ passed' = passed
        /\ proc' = IF StartErr(disk, opens) # "none" THEN Absent
                   ELSE BuildActive(disk, Host(disk)).proc
    BY <1>5 DEF Start, Ends
  <2>2. proc' # Absent => ProcShape(proc')
    BY <2>1, HostShape, BuiltProc
  <2>3. DiskOK'
    BY <2>1 DEF CheckInv, DiskOK
  <2> QED  BY <2>1, <2>2, <2>3 DEF CheckInv
<1>6. CASE Sighup
  <2>1. proc # Absent /\ ProcShape(proc) /\ disk' = disk /\ passed' = passed
    BY <1>6 DEF Sighup, CheckInv
  <2>2. \/ /\ last' \in {[op |-> "reload", err |-> "trust_changed"],
                         [op |-> "reload", err |-> "state_changed"],
                         [op |-> "reload", err |-> "none"]}
           /\ proc' = proc
        \/ /\ last' = [op |-> "reload", err |-> BuildActive(disk, proc).err]
           /\ proc' = BuildActive(disk, proc).proc
    BY <1>6 DEF Sighup, Ends
  <2>3. ProcShape(proc') /\ proc'.keys = proc.keys
    BY <2>1, <2>2, BuiltProc
  <2>4. DiskOK'
    BY <2>1 DEF CheckInv, DiskOK
  <2>5. last'.op = "reload"
    BY <2>2
  <2>6. \/ last'.err \in {"none", "trust_changed", "state_changed"}
        \/ \E backend, groups : last'.err = BuildErr(disk, proc.keys, backend, groups)
    BY <2>2, BuildActiveErr
  <2> QED  BY <2>1, <2>3, <2>4, <2>5, <2>6 DEF CheckInv
<1>7. CASE Stop
  <2>1. last'.op = "none" /\ proc' = Absent /\ disk' = disk /\ passed' = passed
    BY <1>7 DEF Stop, Nothing
  <2> QED  BY <2>1 DEF CheckInv, DiskOK
<1>8. CASE UNCHANGED vars
  BY <1>8 DEF vars, CheckInv, DiskOK
<1> QED  BY <1>1, <1>3, <1>4, <1>5, <1>6, <1>7, <1>8 DEF Next

(* What `plecto validate --resolve` let through starts and reloads, or     *)
(* fails only for what the check cannot see.                               *)
THEOREM CheckedLoads == Spec => []PassedCheckLoads
<1>1. CheckInv => PassedCheckLoads
  <2> SUFFICES ASSUME CheckInv, "resolve" \in passed
               PROVE  /\ last.op = "start" => last.err \in LoadTime \cup {"state_open"}
                      /\ last.op = "reload" =>
                           \/ last.err \in LoadTime \cup {"trust_changed", "state_changed"}
                           \/ proc.keys # TrustedKeys(disk.manifest, disk.files)
    BY DEF PassedCheckLoads
  <2>1. DOMAIN disk.manifest.filters \subseteq Nat
    BY DiskAssumption DEF CheckInv, DiskOK
  <2>2. ValidateErr(disk) = "none" /\ ResolveErr(disk) = "none"
    BY DEF CheckInv
  <2>3. ASSUME last.op = "start" PROVE last.err \in LoadTime \cup {"state_open"}
    BY <2>1, <2>2, <2>3, StartIsLate DEF CheckInv
  <2>4. ASSUME last.op = "reload", proc.keys = TrustedKeys(disk.manifest, disk.files)
        PROVE  last.err \in LoadTime \cup {"trust_changed", "state_changed"}
    BY <2>1, <2>2, <2>4, BuildIsLate DEF CheckInv, LoadTime
  <2> QED  BY <2>3, <2>4
<1> QED  BY <1>1, CheckStart, CheckStep, PTL DEF Spec

(* What is stored on the disk, whoever edits it, is genuine.               *)
LayoutsOK ==
  /\ DOMAIN disk.layouts = DOMAIN InitialDisk.layouts
  /\ \A s \in DOMAIN disk.layouts : Genuine(disk.layouts[s])

(* A layout that resolves gives the content its pin names.                 *)
LEMMA ResolvedContent ==
  ASSUME NEW layout, NEW pin, Resolve(layout, pin).err = "none", Genuine(layout)
  PROVE  LET a == Resolve(layout, pin).artifact
         IN  /\ pin = Digest([t \in DOMAIN pin[2] |->
                                IF t = "wasm" THEN Digest(a["wasm"]) ELSE pin[2][t]])
             /\ a["sig"] \in Signatures \cup {Absent}
             /\ a["sbom-sig"] \in Signatures \cup {Absent}
             /\ a["sbom"] \in Sboms \cup {Absent}
<1> DEFINE image == layout.blobs[layout.first].content
           faults == {BlobErr(layout, image[t]) : t \in DOMAIN image} \ {"none"}
           art == [t \in MediaTypes |-> layout.blobs[image[t]].content]
<1>1. /\ layout.first = pin /\ BlobErr(layout, layout.first) = "none"
      /\ MediaTypes \subseteq DOMAIN image /\ faults = {}
      /\ Resolve(layout, pin) = [err |-> "none", artifact |-> art]
  <2> HIDE DEF faults, art
  <2>1. \A e : Refused(e).err = e
    BY DEF Refused
  <2>2. Resolve(layout, pin) =
          IF layout = Absent \/ ~layout.inside THEN Refused("source")
          ELSE IF layout.first = Absent THEN Refused("index")
          ELSE IF layout.first # pin THEN Refused("pin")
          ELSE IF BlobErr(layout, layout.first) # "none" THEN Refused("manifest")
          ELSE IF MediaTypes \ DOMAIN image # {} THEN Refused("layer")
          ELSE IF faults # {} THEN Refused("layer")
          ELSE [err |-> "none", artifact |-> art]
    BY Zenon DEF Resolve, faults, art
  <2> HIDE DEF image
  <2> QED  BY <2>1, <2>2
<1>2. /\ image = [t \in DOMAIN image |-> image[t]]
      /\ art["sig"] \in Signatures \cup {Absent}
      /\ art["sbom-sig"] \in Signatures \cup {Absent}
      /\ art["sbom"] \in Sboms \cup {Absent}
  <2> DEFINE r == Resolve(layout, layout.first)
  <2>1. r.err = "none" /\ r.artifact = art
    BY <1>1
  <2>2. /\ image = [t \in DOMAIN image |-> image[t]]
        /\ {r.artifact["sig"], r.artifact["sbom-sig"]} \subseteq Signatures \cup {Absent}
        /\ r.artifact["sbom"] \in Sboms \cup {Absent}
    BY <2>1 DEF Genuine
  <2> HIDE DEF r, art, image
  <2> QED  BY <2>1, <2>2
<1>3. pin = <<"sha256", image>>
  BY <1>1 DEF BlobErr, Digest
<1>4. "wasm" \in DOMAIN image /\ BlobErr(layout, image["wasm"]) = "none"
  <2>1. "wasm" \in DOMAIN image
    BY <1>1 DEF MediaTypes
  <2>2. BlobErr(layout, image["wasm"]) \notin faults
    BY <1>1
  <2> HIDE DEF image
  <2> QED  BY <2>1, <2>2
<1>5. Digest(layout.blobs[image["wasm"]].content) = image["wasm"]
  BY <1>4 DEF BlobErr
<1>6. art["wasm"] = layout.blobs[image["wasm"]].content
  BY DEF MediaTypes
<1>7. image["wasm"] = Digest(art["wasm"])
  BY <1>5, <1>6
<1>8. Resolve(layout, pin).artifact = art
  BY <1>1
<1> HIDE DEF image, art
<1>9. image = [t \in DOMAIN image |-> IF t = "wasm" THEN Digest(art["wasm"]) ELSE image[t]]
  BY <1>2, <1>7
<1>10. pin[2] = image /\ pin = Digest(image)
  BY <1>3 DEF Digest
<1> QED  BY <1>2, <1>8, <1>9, <1>10

(* What the load of a filter that passed has made.                         *)
LEMMA LoadMakes ==
  ASSUME NEW id, NEW opts, NEW a, NEW keys, NEW backend,
         Load(id, opts, a, keys, backend).err = "none"
  PROVE  /\ VerifyArtifact(keys, a) = "none"
         /\ Load(id, opts, a, keys, backend).filter =
              [component |-> a["wasm"], options |-> opts, cap |-> PoolCap(opts),
               hooks |-> BodyHooks(a["wasm"]), inline |-> RunsInline(opts, a["wasm"], backend)]
<1> DEFINE c == a["wasm"]
           made == [component |-> c, options |-> opts, cap |-> PoolCap(opts),
                    hooks |-> BodyHooks(c), inline |-> RunsInline(opts, c, backend)]
           verdict == VerifyArtifact(keys, a)
           late == IF ~Compiles(c) THEN Refused("compile")
                   ELSE IF c.version = Absent THEN Refused("version")
                   ELSE IF \E i \in c.imports : ~Covers(opts, i) THEN Refused("capability")
                   ELSE IF ~Links(opts, c) THEN Refused("link")
                   ELSE IF ~Initialises(opts, c) THEN Refused("init")
                   ELSE [err |-> "none", filter |-> made]
<1>1. \A e : Refused(e).err = e
  BY DEF Refused
<1>2. Load(id, opts, a, keys, backend) =
        IF id = "" \/ id \in DelimitedIds THEN Refused("id")
        ELSE IF verdict # "none" THEN Refused(verdict) ELSE late
  BY Zenon DEF Load
<1>3. late = [err |-> "none", filter |-> made]
      \/ \E e \in {"compile", "version", "capability", "link", "init"} : late = Refused(e)
  <2> HIDE DEF made, c
  <2> QED  BY Zenon
<1> HIDE DEF made, verdict, late
<1>4. verdict = "none" /\ Load(id, opts, a, keys, backend) = late
  <2> DEFINE res == Load(id, opts, a, keys, backend)
  <2>1. res \in {Refused("id"), Refused(verdict), late} /\ res.err = "none"
    BY <1>2
  <2>2. res # Refused("id")
    BY <1>1, <2>1
  <2>3. CASE verdict = "none"
    BY <1>2, <2>2, <2>3
  <2>4. CASE verdict # "none"
    <3>1. res = Refused(verdict)
      BY <1>2, <2>2, <2>4
    <3>2. Refused(verdict).err = verdict
      BY <1>1
    <3> QED  BY <2>1, <2>4, <3>1, <3>2
  <2> QED  BY <2>3, <2>4
<1>5. Load(id, opts, a, keys, backend).filter = made
  BY <1>1, <1>3, <1>4
<1> QED  BY <1>4, <1>5 DEF verdict, made

(* An artifact that passes the gate is signed, and bound to its SBOM.      *)
LEMMA VerifiedMeans ==
  ASSUME NEW keys, NEW a, VerifyArtifact(keys, a) = "none"
  PROVE  /\ a["sbom"] # Absent
         /\ a["sig"] # Absent /\ a["sig"].over = a["wasm"] /\ a["sig"].by \in keys
         /\ a["sbom-sig"] # Absent /\ a["sbom-sig"].over = a["sbom"] /\ a["sbom-sig"].by \in keys
         /\ Digest(a["wasm"]) \in a["sbom"].subjects
  BY DEF VerifyArtifact, Verifies, SbomBinds

(* A build that passed loaded every filter of the manifest under its id.   *)
LEMMA BuiltFilters ==
  ASSUME NEW d, NEW keys, NEW backend, NEW groups, DOMAIN d.manifest.filters \subseteq Nat,
         BuildErr(d, keys, backend, groups) = "none",
         NEW f \in Each(d.manifest.filters)
  PROVE  LET a == ResolvedFilter(d, f).artifact
             opts == LoadOptions(f, ResolvedConfig(f, Texts(d.files)))
         IN  /\ FilterValid(f) /\ ResolvedFilter(d, f).err = "none"
             /\ VerifyArtifact(keys, a) = "none"
             /\ LoadedFilters(d, keys, backend)[f.id] =
                  [component |-> a["wasm"], options |-> opts, cap |-> PoolCap(opts),
                   hooks |-> BodyHooks(a["wasm"]),
                   inline |-> RunsInline(opts, a["wasm"], backend)]
<1> DEFINE a == ResolvedFilter(d, f).artifact
           config == ResolvedConfig(f, Texts(d.files))
           opts == LoadOptions(f, config)
           res == Load(f.id, opts, a, keys, backend)
<1>1. FiltersValid(d.manifest) /\ LoadErr(d, keys, backend, f) = "none"
  <2>1. "none" \notin {"filter", "route", "tls", "digest", "upstream"}
    OBVIOUS
  <2> QED  BY <2>1, BuildErrMeans
<1>2. FilterValid(f)
  BY <1>1 DEF FiltersValid
<1>3. ResolvedFilter(d, f).err = "none" /\ res.err = "none"
  <2>1. LoadErr(d, keys, backend, f) =
          IF ResolvedFilter(d, f).err # "none" THEN ResolvedFilter(d, f).err
          ELSE IF config = Absent THEN "config" ELSE res.err
    BY Zenon DEF LoadErr
  <2> HIDE DEF res, config
  <2> QED  BY <1>1, <2>1
<1>4. \A g \in Each(d.manifest.filters) : g.id = f.id => g = f
  <2>1. \A i, j \in DOMAIN d.manifest.filters :
          d.manifest.filters[i].id = d.manifest.filters[j].id => i = j
    BY <1>1 DEF FiltersValid, Distinct
  <2> QED  BY <2>1 DEF Each
<1>5. LoadedFilters(d, keys, backend)[f.id] = res.filter
  <2> DEFINE g == CHOOSE g \in Each(d.manifest.filters) : g.id = f.id
  <2>1. g = f
    BY <1>4
  <2>2. f.id \in {h.id : h \in Each(d.manifest.filters)}
    OBVIOUS
  <2>3. LoadedFilters(d, keys, backend)[f.id] =
          Load(g.id, LoadOptions(g, ResolvedConfig(g, Texts(d.files))),
               ResolvedFilter(d, g).artifact, keys, backend).filter
    BY <2>2 DEF LoadedFilters
  <2> HIDE DEF g
  <2> QED  BY <2>1, <2>3
<1>6. /\ VerifyArtifact(keys, a) = "none"
      /\ res.filter = [component |-> a["wasm"], options |-> opts, cap |-> PoolCap(opts),
                       hooks |-> BodyHooks(a["wasm"]),
                       inline |-> RunsInline(opts, a["wasm"], backend)]
  <2> HIDE DEF a, opts
  <2> QED  BY <1>3, LoadMakes
<1> QED  BY <1>2, <1>3, <1>5, <1>6

(* Every knob has a value, and none is zero that must not be.              *)
LEMMA OptionsBounded ==
  ASSUME NEW f, NEW config, FilterValid(f), CountsAreNat(f.limits),
         f.outbound_http = Absent \/ CountsAreNat(f.outbound_http.limits),
         f.outbound_tcp = Absent \/ CountsAreNat(f.outbound_tcp.limits)
  PROVE  LET o == LoadOptions(f, config)
         IN  /\ \A k \in NonZeroKnobs : o.limits[k] > 0
             /\ PoolCap(o) \in 1..PoolMax
             /\ \A ob \in {o.http, o.tcp} \ {Absent} : \A k \in DOMAIN ob.limits :
                  ob.limits[k] \in 1..Ceiling
<1> DEFINE o == LoadOptions(f, config)
<1>1. PoolMax \in Nat \ {0} /\ Ceiling \in Nat \ {0}
  BY DiskAssumption
<1>2. \A v \in Nat, max \in Nat \ {0} : Clamp(v, max) \in 1..max
  BY DEF Clamp
<1>3. ASSUME NEW k \in NonZeroKnobs PROVE o.limits[k] \in Nat /\ o.limits[k] > 0
  <2>1. k \in Knobs /\ DOMAIN Defaults(f.isolation) = Knobs /\ Defaults(f.isolation)[k] \in {1, 2}
    BY DEF Knobs, Defaults
  <2>2. o.limits[k] = IF k \in DOMAIN f.limits THEN f.limits[k] ELSE Defaults(f.isolation)[k]
    BY <2>1 DEF LoadOptions, With
  <2>3. k \in DOMAIN f.limits => f.limits[k] \in Nat /\ f.limits[k] # 0
    BY DEF CountsAreNat, FilterValid
  <2> HIDE DEF o
  <2> QED  BY <2>1, <2>2, <2>3
<1>4. PoolCap(o) \in 1..PoolMax
  <2>1. o.limits["pool_size"] \in Nat
    BY <1>3 DEF NonZeroKnobs
  <2> HIDE DEF o
  <2> QED  BY <1>1, <1>2, <2>1 DEF PoolCap
<1>5. ASSUME NEW ob, NEW knobs, CountsAreNat(ob.limits)
      PROVE  \A k \in DOMAIN Policy(ob, knobs).limits : Policy(ob, knobs).limits[k] \in 1..Ceiling
  <2> DEFINE limits == With(ob.limits, [k \in knobs |-> 1])
  <2>1. \A k \in knobs : limits[k] \in Nat
    BY <1>5 DEF With, CountsAreNat
  <2>2. Policy(ob, knobs).limits = [k \in knobs |-> Clamp(limits[k], Ceiling)]
    BY DEF Policy
  <2> HIDE DEF limits
  <2> QED  BY <1>1, <1>2, <2>1, <2>2
<1>6. /\ o.http = IF f.outbound_http = Absent THEN Absent ELSE Policy(f.outbound_http, HttpKnobs)
      /\ o.tcp = IF f.outbound_tcp = Absent THEN Absent ELSE Policy(f.outbound_tcp, TcpKnobs)
  BY DEF LoadOptions
<1> HIDE DEF o
<1>7. \A ob \in {o.http, o.tcp} \ {Absent} : \A k \in DOMAIN ob.limits : ob.limits[k] \in 1..Ceiling
  BY <1>5, <1>6
<1> QED  BY <1>3, <1>4, <1>7 DEF o

(* A process with what a build of the disk that passed has made.           *)
Fresh(p, keys, backend, groups) ==
  /\ BuildErr(disk, keys, backend, groups) = "none"
  /\ p.keys = keys /\ p.groups = NamedGroups(disk.manifest)
  /\ p.active = Active(disk, keys, backend)

LEMMA FreshIsVerified ==
  ASSUME DiskOK, LayoutsOK, NEW keys, NEW backend, NEW groups,
         proc' # Absent, Fresh(proc', keys, backend, groups)
  PROVE  ActiveVerified'
<1> DEFINE m == disk.manifest
           act == proc'.active
<1>1. /\ BuildErr(disk, keys, backend, groups) = "none"
      /\ proc'.keys = keys /\ proc'.groups = NamedGroups(m)
      /\ act.manifest = m /\ act.filters = LoadedFilters(disk, keys, backend)
  BY DEF Fresh, Active
<1>2. /\ DOMAIN m.filters \subseteq Nat
      /\ \A f \in Each(m.filters) :
            /\ f.source \in DOMAIN InitialDisk.layouts /\ CountsAreNat(f.limits)
            /\ f.outbound_http = Absent \/ CountsAreNat(f.outbound_http.limits)
            /\ f.outbound_tcp = Absent \/ CountsAreNat(f.outbound_tcp.limits)
  BY DiskAssumption DEF DiskOK
<1>3. RegistryMatchesActive'
  BY <1>1 DEF RegistryMatchesActive
<1>4. LoadedIsVerified'
  <2> DEFINE signed == {s.over : s \in {s \in Signatures : s.by \in keys}}
             C(f) == act.filters[f.id].component
  <2>1. ASSUME NEW f \in Each(m.filters)
        PROVE  /\ f.digest = Digest([t \in DOMAIN f.digest[2] |->
                                  IF t = "wasm" THEN Digest(C(f)) ELSE f.digest[2][t]])
               /\ C(f) \in signed
               /\ \E s \in Sboms \cap signed : Digest(C(f)) \in s.subjects
    <3> DEFINE layout == disk.layouts[f.source]
               a == ResolvedFilter(disk, f).artifact
               opts == LoadOptions(f, ResolvedConfig(f, Texts(disk.files)))
    <3>1. /\ ResolvedFilter(disk, f).err = "none" /\ VerifyArtifact(keys, a) = "none"
          /\ act.filters[f.id] = [component |-> a["wasm"], options |-> opts, cap |-> PoolCap(opts),
                                  hooks |-> BodyHooks(a["wasm"]),
                                  inline |-> RunsInline(opts, a["wasm"], backend)]
      BY <1>1, <1>2, BuiltFilters
    <3>2. C(f) = a["wasm"]
      BY <3>1
    <3>3. Genuine(layout) /\ Resolve(layout, f.digest).err = "none"
          /\ a = Resolve(layout, f.digest).artifact
      BY <1>2, <3>1 DEF LayoutsOK, ResolvedFilter
    <3>4. /\ a["sbom"] # Absent
          /\ a["sig"] # Absent /\ a["sig"].over = a["wasm"] /\ a["sig"].by \in keys
          /\ a["sbom-sig"] # Absent /\ a["sbom-sig"].over = a["sbom"] /\ a["sbom-sig"].by \in keys
          /\ Digest(a["wasm"]) \in a["sbom"].subjects
      BY <3>1, VerifiedMeans
    <3> HIDE DEF a, layout
    <3>5. /\ f.digest = Digest([t \in DOMAIN f.digest[2] |->
                                  IF t = "wasm" THEN Digest(a["wasm"]) ELSE f.digest[2][t]])
          /\ a["sig"] \in Signatures \cup {Absent}
          /\ a["sbom-sig"] \in Signatures \cup {Absent}
          /\ a["sbom"] \in Sboms \cup {Absent}
      BY <3>3, ResolvedContent
    <3>6. a["wasm"] \in signed /\ a["sbom"] \in signed
      BY <3>4, <3>5
    <3> HIDE DEF C, signed
    <3> QED  BY <3>2, <3>4, <3>5, <3>6
  <2> QED  BY <1>1, <2>1 DEF LoadedIsVerified
<1>5. DOMAIN act.filters = {f.id : f \in Each(m.filters)}
  BY <1>1 DEF LoadedFilters
<1>6. LoadedIsBounded'
  <2>1. ASSUME NEW id \in DOMAIN act.filters
        PROVE  LET f == act.filters[id]
                   lent == {f.options.http, f.options.tcp} \ {Absent}
               IN  /\ \A k \in NonZeroKnobs : f.options.limits[k] > 0
                   /\ f.cap \in 1..PoolMax
                   /\ \A ob \in lent : \A k \in DOMAIN ob.limits : ob.limits[k] \in 1..Ceiling
                   /\ f.inline => lent = {} /\ f.options.isolation = "trusted"
    <3>1. PICK f \in Each(m.filters) : f.id = id
      BY <1>5
    <3> DEFINE a == ResolvedFilter(disk, f).artifact
               config == ResolvedConfig(f, Texts(disk.files))
               opts == LoadOptions(f, config)
    <3>2. FilterValid(f) /\
          act.filters[id] = [component |-> a["wasm"], options |-> opts, cap |-> PoolCap(opts),
                             hooks |-> BodyHooks(a["wasm"]),
                             inline |-> RunsInline(opts, a["wasm"], backend)]
      <4>1. FilterValid(f) /\
            act.filters[f.id] = [component |-> a["wasm"], options |-> opts, cap |-> PoolCap(opts),
                                 hooks |-> BodyHooks(a["wasm"]),
                                 inline |-> RunsInline(opts, a["wasm"], backend)]
        BY <1>1, <1>2, BuiltFilters
      <4> QED  BY <3>1, <4>1
    <3>3. /\ \A k \in NonZeroKnobs : opts.limits[k] > 0
          /\ PoolCap(opts) \in 1..PoolMax
          /\ \A ob \in {opts.http, opts.tcp} \ {Absent} : \A k \in DOMAIN ob.limits :
               ob.limits[k] \in 1..Ceiling
      <4> HIDE DEF config
      <4> QED  BY <1>2, <3>2, OptionsBounded
    <3> HIDE DEF opts, a
    <3>4. RunsInline(opts, a["wasm"], backend) =>
            opts.http = Absent /\ opts.tcp = Absent /\ opts.isolation = "trusted"
      BY DEF RunsInline, Lent
    <3>5. /\ act.filters[id].options = opts /\ act.filters[id].cap = PoolCap(opts)
          /\ act.filters[id].inline = RunsInline(opts, a["wasm"], backend)
      BY <3>2
    <3> QED  BY <3>3, <3>4, <3>5
  <2> QED  BY <2>1 DEF LoadedIsBounded
<1>7. RoutesServed'
  <2>1. RoutesValid(m)
    <3>1. "none" \notin {"filter", "route", "tls", "digest", "upstream"}
      OBVIOUS
    <3> QED  BY <1>1, <1>2, <3>1, BuildErrMeans
  <2>2. DOMAIN proc'.groups = {u.name : u \in Each(m.upstreams)}
    BY <1>1 DEF NamedGroups
  <2>3. \A r \in Each(m.routes) :
          /\ Each(r.filters) \subseteq DOMAIN act.filters
          /\ \A t \in Each(Targets(r)) : t[1] \in DOMAIN proc'.groups
    BY <1>5, <2>1, <2>2 DEF RoutesValid, RouteValid
  <2> QED  BY <1>1, <2>3 DEF RoutesServed
<1> QED  BY <1>3, <1>4, <1>6, <1>7 DEF ActiveVerified

LEMMA StartBuilds ==
  ASSUME NEW d, NEW opens, StartErr(d, opens) = "none"
  PROVE  BuildActive(d, Host(d)).err = "none"
<1> DEFINE h == Host(d)
           host == FirstErr(<< <<KeysReadable(d.manifest, d.files), "trust">>,
                               <<StateValid(d.manifest.state), "state">>,
                               <<d.manifest.state.backend = "memory" \/ opens, "state_open">>,
                               <<ObservabilityValid(d.manifest.observability), "observability">> >>)
<1>1. StartErr(d, opens) =
        IF host # "none" THEN host
        ELSE IF BuildActive(d, h).err # "none" THEN BuildActive(d, h).err
        ELSE IF ~ListenValid(d.manifest.listen) THEN "listen" ELSE "none"
  BY Zenon DEF StartErr
<1> HIDE DEF host, h
<1>2. BuildActive(d, h).err = "none"
  BY <1>1
<1> QED  BY <1>2 DEF h

ActiveInv == CheckInv /\ LayoutsOK /\ ActiveVerified

LEMMA ActiveStart == Init => ActiveInv
<1> SUFFICES ASSUME Init PROVE ActiveInv
  OBVIOUS
<1>1. LayoutsOK
  BY GenuineAssumption DEF Init, LayoutsOK
<1>2. ActiveVerified
  BY DEF Init, ActiveVerified, RegistryMatchesActive, LoadedIsVerified, LoadedIsBounded, RoutesServed
<1> QED  BY <1>1, <1>2, CheckStart DEF ActiveInv

LEMMA ActiveStep == ActiveInv /\ [Next]_vars => ActiveInv'
<1> SUFFICES ASSUME ActiveInv, [Next]_vars PROVE LayoutsOK' /\ ActiveVerified'
  BY CheckStep DEF ActiveInv
<1>0. DiskOK /\ LayoutsOK /\ ActiveVerified /\ (proc # Absent => ProcShape(proc))
  BY DEF ActiveInv, CheckInv
<1>1. proc' = proc => ActiveVerified'
  BY <1>0 DEF ActiveVerified, RegistryMatchesActive, LoadedIsVerified, LoadedIsBounded, RoutesServed
<1>2. proc' = Absent => ActiveVerified'
  BY DEF ActiveVerified, RegistryMatchesActive, LoadedIsVerified, LoadedIsBounded, RoutesServed
<1>3. disk' = disk => LayoutsOK'
  BY <1>0 DEF LayoutsOK
<1>4. ASSUME NEW m, EditManifest(m) PROVE LayoutsOK' /\ ActiveVerified'
  <2>1. disk' = [disk EXCEPT !.manifest = m] /\ proc' = proc
    BY <1>4 DEF EditManifest, Edited
  <2>2. disk'.layouts = disk.layouts
    BY <1>0, <2>1 DEF DiskOK
  <2> QED  BY <1>0, <1>1, <2>1, <2>2 DEF LayoutsOK
<1>5. ASSUME NEW n, NEW body, EditFile(n, body) PROVE LayoutsOK' /\ ActiveVerified'
  <2> DEFINE fs == [disk.files EXCEPT ![n] = body]
  <2>1. disk' = [disk EXCEPT !.files = fs] /\ proc' = proc
    BY <1>5 DEF EditFile, Edited
  <2> HIDE DEF fs
  <2>2. disk'.layouts = disk.layouts
    BY <1>0, <2>1 DEF DiskOK
  <2> QED  BY <1>0, <1>1, <2>1, <2>2 DEF LayoutsOK
<1>6. ASSUME NEW n \in DOMAIN Layouts, NEW layout \in Layouts[n], EditLayout(n, layout)
      PROVE  LayoutsOK' /\ ActiveVerified'
  <2> DEFINE ls == [disk.layouts EXCEPT ![n] = layout]
  <2>1. disk' = [disk EXCEPT !.layouts = ls] /\ proc' = proc
    BY <1>6 DEF EditLayout, Edited
  <2>2. DOMAIN ls = DOMAIN disk.layouts
        /\ \A s \in DOMAIN ls : ls[s] = IF s = n THEN layout ELSE disk.layouts[s]
    OBVIOUS
  <2>3. Genuine(layout)
    BY GenuineAssumption
  <2> HIDE DEF ls
  <2>4. disk'.layouts = ls
    BY <1>0, <2>1 DEF DiskOK
  <2>5. LayoutsOK'
    BY <1>0, <2>2, <2>3, <2>4 DEF LayoutsOK
  <2> QED  BY <1>1, <2>1, <2>5
<1>7. CASE Validate \/ ValidateResolve
  BY <1>1, <1>3, <1>7 DEF Validate, ValidateResolve, Check
<1>8. ASSUME NEW opens \in BOOLEAN, Start(opens) PROVE LayoutsOK' /\ ActiveVerified'
  <2> DEFINE h == Host(disk)
  <2>1. disk' = disk /\ proc' = IF StartErr(disk, opens) # "none" THEN Absent
                                ELSE BuildActive(disk, h).proc
    BY <1>8 DEF Start
  <2>2. CASE StartErr(disk, opens) # "none"
    BY <1>2, <1>3, <2>1, <2>2
  <2>3. CASE StartErr(disk, opens) = "none"
    <3>1. BuildActive(disk, h).err = "none"
      BY <2>3, StartBuilds
    <3>2. ProcShape(h)
      BY HostShape
    <3> HIDE DEF h
    <3>3. Fresh(BuildActive(disk, h).proc, h.keys, h.state.backend, h.groups)
      BY <3>1, <3>2, BuiltProc, BuildActiveErr DEF Fresh
    <3>4. proc' = BuildActive(disk, h).proc
      BY <2>1, <2>3
    <3> QED  BY <1>0, <1>2, <1>3, <2>1, <3>3, <3>4, FreshIsVerified
  <2> QED  BY <2>2, <2>3
<1>9. CASE Sighup
  <2>1. proc # Absent /\ ProcShape(proc) /\ disk' = disk
    BY <1>0, <1>9 DEF Sighup
  <2>2. proc' = proc \/ proc' = BuildActive(disk, proc).proc
    BY <1>9 DEF Sighup
  <2>3. CASE proc' = BuildActive(disk, proc).proc /\ BuildActive(disk, proc).err = "none"
    <3>1. Fresh(BuildActive(disk, proc).proc, proc.keys, proc.state.backend, proc.groups)
      BY <2>1, <2>3, BuiltProc, BuildActiveErr DEF Fresh
    <3>2. Fresh(proc', proc.keys, proc.state.backend, proc.groups)
      BY <2>3, <3>1
    <3> QED  BY <1>0, <1>2, <1>3, <2>1, <3>2, FreshIsVerified
  <2>4. CASE proc' = BuildActive(disk, proc).proc /\ BuildActive(disk, proc).err # "none"
    BY <1>1, <1>3, <2>1, <2>4, BuiltProc
  <2> QED  BY <1>1, <1>3, <2>1, <2>2, <2>3, <2>4
<1>10. CASE Stop
  BY <1>2, <1>3, <1>10 DEF Stop
<1>11. CASE UNCHANGED vars
  BY <1>1, <1>3, <1>11 DEF vars
<1> QED  BY <1>4, <1>5, <1>6, <1>7, <1>8, <1>9, <1>10, <1>11 DEF Next

-----------------------------------------------------------------------------
(* Maglev tables.  The slots an instance may take are a walk of constant   *)
(* step; the size is a prime, so that the walk meets them all.             *)

(* Quotient and remainder.                                                 *)
LEMMA Divided ==
  ASSUME NEW a \in Nat, NEW m \in Nat \ {0}
  PROVE  /\ a \div m \in Nat /\ a % m \in 0..(m - 1)
         /\ a = (a \div m) * m + (a % m)
OBVIOUS

(* A prime divides no product of two numbers below it.                     *)
Multiple(x, m) == \E c \in Int : x = c * m

LEMMA MultipleOfRest ==
  ASSUME NEW m \in Nat, NEW d \in Nat, NEW e \in Nat, NEW q \in Nat, NEW r \in Nat,
         m = q * e + r, Multiple(e * d, m)
  PROVE  Multiple(r * d, m)
<1>1. PICK c \in Int : e * d = c * m
  BY DEF Multiple
<1>2. r * d = m * d - q * (e * d)
  <2>1. r = m - q * e
    OBVIOUS
  <2>2. (m - q * e) * d = m * d - (q * e) * d
    OBVIOUS
  <2>3. (q * e) * d = q * (e * d)
    OBVIOUS
  <2> QED  BY <2>1, <2>2, <2>3
<1>3. r * d = (d - q * c) * m
  <2>1. q * (c * m) = (q * c) * m
    OBVIOUS
  <2>2. (d - q * c) * m = d * m - (q * c) * m /\ d * m = m * d
    OBVIOUS
  <2> QED  BY <1>1, <1>2, <2>1, <2>2
<1>4. d - q * c \in Int
  OBVIOUS
<1> QED  BY <1>3, <1>4 DEF Multiple

LEMMA SmallIsNoMultiple ==
  ASSUME NEW m \in Nat, NEW d \in Nat \ {0}, d < m
  PROVE  ~Multiple(d, m)
<1> SUFFICES ASSUME NEW c \in Int, d = c * m PROVE FALSE
  BY DEF Multiple
<1>1. CASE c <= 0
  BY <1>1
<1>2. CASE c >= 1
  <2>1. c * m >= 1 * m
    BY <1>2
  <2> QED  BY <2>1
<1> QED  BY <1>1, <1>2

LEMMA PrimeDividesNone ==
  ASSUME NEW m \in Nat, IsPrime(m), NEW d \in 1..(m - 1), NEW e0 \in 1..(m - 1)
  PROVE  ~Multiple(e0 * d, m)
<1> SUFFICES ASSUME Multiple(e0 * d, m) PROVE FALSE
  OBVIOUS
<1> DEFINE E == {e \in Nat : e # 0 /\ Multiple(e * d, m)}
           e == Min(E)
<1>1. E \subseteq Nat /\ e0 \in E
  OBVIOUS
<1>2. e \in E /\ \A x \in E : e <= x
  <2> HIDE DEF E
  <2> QED  BY <1>1, MinIsIn
<1>3. e \in 1..(m - 1)
  <2> HIDE DEF e
  <2>1. e \in Nat /\ e # 0 /\ e <= e0
    BY <1>1, <1>2
  <2> QED  BY <2>1
<1> HIDE DEF e
<1> DEFINE q == m \div e
           r == m % e
<1>4. q \in Nat /\ r \in 0..(e - 1) /\ m = q * e + r
  <2>1. e \in Nat \ {0}
    BY <1>3
  <2> QED  BY <2>1, Divided, Zenon
<1> HIDE DEF q, r
<1>5. Multiple(r * d, m)
  <2>1. Multiple(e * d, m) /\ e \in Nat /\ r \in Nat /\ d \in Nat
    BY <1>2, <1>3, <1>4
  <2> HIDE DEF E
  <2> QED  BY <1>4, <2>1, MultipleOfRest
<1>6. r = 0
  <2>1. r \notin E
    BY <1>2, <1>4
  <2> QED  BY <1>4, <1>5, <2>1
<1>7. m % e = 0
  BY <1>6 DEF r
<1>8. e = 1
  BY <1>3, <1>7 DEF IsPrime
<1>9. Multiple(d, m)
  <2>1. 1 * d = d
    OBVIOUS
  <2> QED  BY <1>2, <1>8, <2>1
<1> QED  BY <1>9, SmallIsNoMultiple

(* So that a walk by a constant step meets no slot twice in `size` steps,  *)
(* and therefore meets them all.                                           *)
LEMMA SameRest ==
  ASSUME NEW a \in Nat, NEW b \in Nat, NEW m \in Nat \ {0}, a % m = b % m
  PROVE  Multiple(b - a, m)
<1> DEFINE qa == a \div m
           qb == b \div m
           r == a % m
<1>1. qa \in Nat /\ qb \in Nat /\ r \in 0..(m - 1) /\ a = qa * m + r /\ b = qb * m + r
  BY Divided, Zenon
<1> HIDE DEF qa, qb, r
<1>2. b - a = (qb - qa) * m /\ qb - qa \in Int
  BY <1>1
<1> QED  BY <1>2 DEF Multiple

Meets(m, h, d, from, s) == \E k \in from..(from + m) : (h + k * d) % m = s

LEMMA WalkMeetsAll ==
  ASSUME NEW m \in Nat, IsPrime(m), NEW h \in Nat, NEW d \in 1..(m - 1), NEW from \in Nat,
         NEW s \in 0..(m - 1)
  PROVE  Meets(m, h, d, from, s)
<1> DEFINE A == from..(from + m - 1)
           B == 0..(m - 1)
           f == [k \in A |-> (h + k * d) % m]
<1>0. m \in Nat \ {0} /\ m >= 2
  BY DEF IsPrime
<1>1. \A k \in A : h + k * d \in Nat
  <2>1. \A k \in A : k \in Nat /\ k * d \in Nat
    OBVIOUS
  <2> QED  BY <2>1
<1>2. f \in [A -> B]
  BY <1>0, <1>1, Divided
<1>3. ASSUME NEW k \in A, NEW l \in A, k < l, f[k] = f[l] PROVE FALSE
  <2>1. Multiple((h + l * d) - (h + k * d), m)
    BY <1>0, <1>1, <1>3, SameRest
  <2>2. (h + l * d) - (h + k * d) = (l - k) * d
    <3>1. (l - k) * d = l * d - k * d /\ l * d \in Int /\ k * d \in Int
      OBVIOUS
    <3> QED  BY <3>1
  <2>3. l - k \in 1..(m - 1)
    BY <1>0, <1>3
  <2> QED  BY <2>1, <2>2, <2>3, PrimeDividesNone
<1>4. \A k, l \in A : f[k] = f[l] => k = l
  BY <1>3
<1> SUFFICES ASSUME \A k \in A : f[k] # s PROVE FALSE
  BY <1>0 DEF Meets
<1>5. f \in [A -> B \ {s}]
  BY <1>2
<1>6. IsFiniteSet(A) /\ Cardinality(A) = m
  BY <1>0, FS_Interval
<1>7. IsFiniteSet(B \ {s}) /\ Cardinality(B \ {s}) = m - 1
  <2>1. IsFiniteSet(B) /\ Cardinality(B) = m
    BY <1>0, FS_Interval
  <2> QED  BY <2>1, FS_RemoveElement
<1> HIDE DEF A, B, f
<1>8. \E k, l \in A : k # l /\ f[k] = f[l]
  BY <1>0, <1>5, <1>6, <1>7, FS_PigeonHole
<1> QED  BY <1>4, <1>8

(* Turns are counted on: the place after the last is the first of the next *)
(* round.                                                                  *)
LEMMA DividedOnly ==
  ASSUME NEW n \in Nat \ {0}, NEW q \in Nat, NEW p \in 0..(n - 1)
  PROVE  (q * n + p) \div n = q /\ (q * n + p) % n = p
OBVIOUS

LEMMA NextPlace ==
  ASSUME NEW n \in Nat \ {0}, NEW k \in Nat
  PROVE  /\ (k % n) + 1 < n => (k + 1) \div n = k \div n /\ (k + 1) % n = (k % n) + 1
         /\ (k % n) + 1 = n => (k + 1) \div n = (k \div n) + 1 /\ (k + 1) % n = 0
<1> DEFINE q == k \div n
           p == k % n
<1>1. q \in Nat /\ p \in 0..(n - 1) /\ k = q * n + p
  BY Divided, Zenon
<1> HIDE DEF q, p
<1>2. ASSUME p + 1 < n PROVE (k + 1) \div n = q /\ (k + 1) % n = p + 1
  <2>1. p + 1 \in 0..(n - 1) /\ k + 1 = q * n + (p + 1)
    BY <1>1, <1>2
  <2> QED  BY <1>1, <2>1, DividedOnly
<1>3. ASSUME p + 1 = n PROVE (k + 1) \div n = q + 1 /\ (k + 1) % n = 0
  <2> DEFINE next == q + 1
             first == 0
  <2>1. first \in 0..(n - 1) /\ next \in Nat /\ k + 1 = next * n + first
    BY <1>1, <1>3
  <2> HIDE DEF next, first
  <2>2. (k + 1) \div n = next /\ (k + 1) % n = first
    BY <2>1, DividedOnly, Zenon
  <2> QED  BY <2>2 DEF next, first
<1> QED  BY <1>2, <1>3 DEF p, q

(* The turns instance h was offered in the first k.                        *)
Offered(h, n, k) == (k \div n) + (IF k % n >= h THEN 1 ELSE 0)

LEMMA OfferedNext ==
  ASSUME NEW n \in Nat \ {0}, NEW k \in Nat, NEW h \in 1..n
  PROVE  /\ Offered(h, n, k) \in Nat
         /\ (k % n) + 1 = h => /\ Offered(h, n, k) = k \div n
                               /\ Offered(h, n, k + 1) = (k \div n) + 1
         /\ (k % n) + 1 # h => Offered(h, n, k + 1) = Offered(h, n, k)
<1> DEFINE q == k \div n
           p == k % n
           q1 == (k + 1) \div n
           p1 == (k + 1) % n
<1>1. q \in Nat /\ p \in 0..(n - 1)
  BY Divided, Zenon
<1>2. (p + 1 < n => q1 = q /\ p1 = p + 1) /\ (p + 1 = n => q1 = q + 1 /\ p1 = 0)
  BY NextPlace
<1>3. Offered(h, n, k) = q + (IF p >= h THEN 1 ELSE 0)
      /\ Offered(h, n, k + 1) = q1 + (IF p1 >= h THEN 1 ELSE 0)
  BY DEF Offered
<1> HIDE DEF q, p, q1, p1
<1>4. p + 1 < n \/ p + 1 = n
  BY <1>1
<1>5. /\ Offered(h, n, k) \in Nat
      /\ p + 1 = h => Offered(h, n, k) = q /\ Offered(h, n, k + 1) = q + 1
      /\ p + 1 # h => Offered(h, n, k + 1) = Offered(h, n, k)
  <2>1. CASE p + 1 < n
    BY <1>1, <1>2, <1>3, <2>1
  <2>2. CASE p + 1 = n
    BY <1>1, <1>2, <1>3, <2>2
  <2> QED  BY <1>4, <2>1, <2>2
<1> QED  BY <1>5 DEF p, q

(* What a table is built from: a prime size that is no less than the       *)
(* number of instances, each with a weight and two hashes.                 *)
Tabled(hashes, weights, size, n) ==
  /\ n \in Nat \ {0} /\ size \in Nat /\ IsPrime(size) /\ n <= size
  /\ weights \in [1..n -> Nat \ {0}] /\ hashes \in [1..n -> Nat \X Nat]

PartTables(n, size) ==
  [table : [0..(size - 1) -> {Empty} \cup (1..n)], filled : Nat, stuck : BOOLEAN,
   next : [1..n -> Nat], target : [1..n -> Nat]]

Taken(acc) == {s \in DOMAIN acc.table : acc.table[s] # Empty}
Owns(acc, i) == \E s \in DOMAIN acc.table : acc.table[s] = i

LEMMA WalkStep ==
  ASSUME NEW hashes, NEW weights, NEW size, NEW n, Tabled(hashes, weights, size, n),
         NEW i \in 1..n
  PROVE  (hashes[i][2] % (size - 1)) + 1 \in 1..(size - 1)
<1> DEFINE r == hashes[i][2] % (size - 1)
<1>1. size \in Nat /\ size - 1 \in Nat \ {0} /\ hashes[i][2] \in Nat
  BY DEF Tabled, IsPrime
<1>2. r \in 0..((size - 1) - 1)
  BY <1>1, Divided, Zenon
<1> HIDE DEF r
<1>3. r + 1 \in 1..(size - 1)
  BY <1>1, <1>2
<1> QED  BY <1>3 DEF r

LEMMA SlotIsOne ==
  ASSUME NEW hashes, NEW weights, NEW size, NEW n, Tabled(hashes, weights, size, n),
         NEW i \in 1..n, NEW k \in Nat
  PROVE  SlotAt(hashes[i], size, k) \in 0..(size - 1)
<1> DEFINE d == (hashes[i][2] % (size - 1)) + 1
           a == hashes[i][1] + k * d
<1>1. size \in Nat \ {0} /\ hashes[i][1] \in Nat
  BY DEF Tabled, IsPrime
<1>2. d \in 1..(size - 1)
  BY WalkStep
<1> HIDE DEF d
<1>3. a \in Nat
  BY <1>1, <1>2
<1> HIDE DEF a
<1>4. a % size \in 0..(size - 1)
  BY <1>1, <1>3, Divided, Zenon
<1> QED  BY <1>4 DEF SlotAt, a, d

LEMMA SlotsAreMet ==
  ASSUME NEW hashes, NEW weights, NEW size, NEW n, Tabled(hashes, weights, size, n),
         NEW i \in 1..n, NEW from \in Nat, NEW s \in 0..(size - 1)
  PROVE  \E k \in from..(from + size) : SlotAt(hashes[i], size, k) = s
<1> DEFINE h == hashes[i][1]
           d == (hashes[i][2] % (size - 1)) + 1
<1>1. size \in Nat /\ IsPrime(size) /\ h \in Nat
  BY DEF Tabled
<1>2. d \in 1..(size - 1)
  BY WalkStep
<1> HIDE DEF h, d
<1>3. Meets(size, h, d, from, s)
  BY <1>1, <1>2, WalkMeetsAll
<1> QED  BY <1>3, Zenon DEF Meets, SlotAt, h, d

(* While a slot is free, an instance finds one.                            *)
FirstIsFree(table, hash, size, from) ==
  LET k == FirstFree(table, hash, size, from)
  IN  /\ k = Empty \/ (k \in Nat /\ table[SlotAt(hash, size, k)] = Empty)
      /\ (\E s \in 0..(size - 1) : table[s] = Empty) => k # Empty

LEMMA FreeIsFound ==
  ASSUME NEW hashes, NEW weights, NEW size, NEW n, Tabled(hashes, weights, size, n),
         NEW i \in 1..n, NEW from \in Nat, NEW table
  PROVE  FirstIsFree(table, hashes[i], size, from)
<1> DEFINE free == {k \in from..(from + size) : table[SlotAt(hashes[i], size, k)] = Empty}
           k == FirstFree(table, hashes[i], size, from)
<1>1. k = IF free = {} THEN Empty ELSE Min(free)
  BY DEF FirstFree
<1>2. size \in Nat
  BY DEF Tabled
<1>3. free \subseteq Nat
  BY <1>2
<1>4. ASSUME NEW s \in 0..(size - 1), table[s] = Empty PROVE free # {}
  <2>1. PICK j \in from..(from + size) : SlotAt(hashes[i], size, j) = s
    BY SlotsAreMet
  <2> QED  BY <1>4, <2>1
<1>5. free # {} => Min(free) \in free
  <2> HIDE DEF free
  <2> QED  BY <1>3, MinIsIn
<1>6. Empty \notin Nat
  BY DEF Empty
<1>7. k = Empty \/ (k \in Nat /\ table[SlotAt(hashes[i], size, k)] = Empty)
  <2>1. CASE free = {}
    BY <1>1, <2>1
  <2>2. CASE free # {}
    <3>1. k = Min(free)
      BY <1>1, <2>2
    <3> HIDE DEF k
    <3> QED  BY <1>3, <1>5, <2>2, <3>1
  <2> QED  BY <2>1, <2>2
<1>8. (\E s \in 0..(size - 1) : table[s] = Empty) => k # Empty
  BY <1>1, <1>3, <1>4, <1>5, <1>6
<1> HIDE DEF free
<1> QED  BY <1>7, <1>8, Zenon DEF FirstIsFree
(* A turn: passed, or a slot taken.                                        *)
Heaviest(weights, h) == \A j \in DOMAIN weights : weights[j] <= weights[h]

LEMMA SomeHeaviest ==
  ASSUME NEW n \in Nat \ {0}, NEW weights \in [1..n -> Nat \ {0}]
  PROVE  \E h \in 1..n : Heaviest(weights, h)
<1> DEFINE S == 1..n
<1>1. IsFiniteSet(S)
  BY FS_Interval
<1>2. S # {} /\ S \subseteq Int /\ \A x \in S : weights[x] \in Int
  <2>1. 1 \in S /\ S \subseteq Int
    OBVIOUS
  <2>2. \A x \in S : weights[x] \in Int
    OBVIOUS
  <2> QED  BY <2>1, <2>2
<1> HIDE DEF S
<1>3. PICK h \in S : \A j \in S : weights[h] > weights[j] \/ (weights[h] = weights[j] /\ h <= j)
  BY <1>1, <1>2, GreatestExists
<1>4. \A j \in S : weights[j] <= weights[h]
  BY <1>2, <1>3
<1>5. DOMAIN weights = S
  BY DEF S
<1> QED  BY <1>4, <1>5 DEF Heaviest, S

LEMMA HeaviestIsMax ==
  ASSUME NEW n, NEW weights \in [1..n -> Nat \ {0}], NEW h \in 1..n, Heaviest(weights, h)
  PROVE  Max({weights[j] : j \in DOMAIN weights}) = weights[h]
<1> DEFINE W == {weights[j] : j \in DOMAIN weights}
<1>1. weights[h] \in W /\ \A y \in W : weights[h] >= y
  BY DEF Heaviest
<1>2. W \subseteq Nat
  OBVIOUS
<1>3. \A x \in W : (\A y \in W : x >= y) => x = weights[h]
  <2> HIDE DEF W
  <2> QED  BY <1>1, <1>2
<1>4. Max(W) = CHOOSE x \in W : \A y \in W : x >= y
  BY DEF Max
<1> HIDE DEF W
<1>5. Max(W) = weights[h]
  BY <1>1, <1>3, <1>4
<1> QED  BY <1>5 DEF W

Placed(acc, s, i, k, w) ==
  [acc EXCEPT !.table = [acc.table EXCEPT ![s] = i], !.next = [acc.next EXCEPT ![i] = k + 1],
              !.filled = acc.filled + 1, !.target = [acc.target EXCEPT ![i] = @ + w]]

TurnOutcome(hashes, weights, size, acc, round, i, h) ==
  LET k == FirstFree(acc.table, hashes[i], size, acc.next[i])
      turn == Turn(hashes, weights, size, acc, round, i)
  IN  \/ /\ acc.filled = size \/ acc.stuck \/ round * weights[i] < acc.target[i]
         /\ turn = acc
      \/ k = Empty /\ turn = [acc EXCEPT !.stuck = TRUE] /\ acc.filled # size
      \/ /\ acc.filled # size /\ ~acc.stuck /\ k # Empty
         /\ turn = Placed(acc, SlotAt(hashes[i], size, k), i, k, weights[h])

LEMMA TurnCases ==
  ASSUME NEW hashes, NEW weights, NEW size, NEW n, Tabled(hashes, weights, size, n),
         NEW acc \in PartTables(n, size), NEW round \in Nat, NEW i \in 1..n,
         NEW h \in 1..n, Heaviest(weights, h)
  PROVE  TurnOutcome(hashes, weights, size, acc, round, i, h)
<1> DEFINE k == FirstFree(acc.table, hashes[i], size, acc.next[i])
           s == SlotAt(hashes[i], size, k)
           most == Max({weights[j] : j \in DOMAIN weights})
           turn == Turn(hashes, weights, size, acc, round, i)
           skipped == acc.filled = size \/ acc.stuck \/ weights[i] = 0
                     \/ round * weights[i] < acc.target[i]
           placed == [acc EXCEPT !.table[s] = i, !.next[i] = k + 1, !.filled = @ + 1,
                                 !.target[i] = @ + most]
<1>1. turn = IF skipped THEN acc ELSE IF k = Empty THEN [acc EXCEPT !.stuck = TRUE] ELSE placed
  BY Zenon DEF Turn
<1>2. weights[i] # 0 /\ weights \in [1..n -> Nat \ {0}]
  BY DEF Tabled
<1>3. most = weights[h]
  BY <1>2, HeaviestIsMax
<1> HIDE DEF k, s, most
<1>4. placed = Placed(acc, s, i, k, weights[h])
  <2> DEFINE tb == [acc.table EXCEPT ![s] = i]
             nx == [acc.next EXCEPT ![i] = k + 1]
             fl == acc.filled + 1
             tg == [acc.target EXCEPT ![i] = @ + most]
  <2>1. placed = [acc EXCEPT !.table = tb, !.next = nx, !.filled = fl, !.target = tg]
    OBVIOUS
  <2> QED  BY <1>3, <2>1, Zenon DEF Placed
<1> HIDE DEF turn, placed
<1>5. \/ skipped /\ turn = acc
      \/ ~skipped /\ k = Empty /\ turn = [acc EXCEPT !.stuck = TRUE]
      \/ ~skipped /\ k # Empty /\ turn = Placed(acc, s, i, k, weights[h])
  <2> HIDE DEF skipped
  <2> QED  BY <1>1, <1>4
<1>6. /\ skipped => acc.filled = size \/ acc.stuck \/ round * weights[i] < acc.target[i]
      /\ ~skipped => acc.filled # size /\ ~acc.stuck
  BY <1>2
<1> HIDE DEF skipped
<1> QED  BY <1>5, <1>6, Zenon DEF TurnOutcome, k, s, turn

Follows(n, size, acc, s, i, w, p) ==
  /\ p \in PartTables(n, size)
  /\ p.table = [acc.table EXCEPT ![s] = i] /\ p.filled = acc.filled + 1
  /\ p.stuck = acc.stuck /\ p.target = [acc.target EXCEPT ![i] = @ + w]

LEMMA PlacedFacts ==
  ASSUME NEW n, NEW size, NEW acc \in PartTables(n, size), NEW i \in 1..n,
         NEW s \in 0..(size - 1), NEW k \in Nat, NEW w \in Nat
  PROVE  Follows(n, size, acc, s, i, w, Placed(acc, s, i, k, w))
<1> DEFINE tb == [acc.table EXCEPT ![s] = i]
           nx == [acc.next EXCEPT ![i] = k + 1]
           fl == acc.filled + 1
           tg == [acc.target EXCEPT ![i] = @ + w]
           p == Placed(acc, s, i, k, w)
<1>1. p = [acc EXCEPT !.table = tb, !.next = nx, !.filled = fl, !.target = tg]
  BY Zenon DEF Placed
<1>2. /\ acc.table \in [0..(size - 1) -> {Empty} \cup (1..n)] /\ acc.filled \in Nat
      /\ acc.stuck \in BOOLEAN /\ acc.next \in [1..n -> Nat] /\ acc.target \in [1..n -> Nat]
  BY DEF PartTables
<1>3. tb \in [0..(size - 1) -> {Empty} \cup (1..n)] /\ nx \in [1..n -> Nat] /\ fl \in Nat
  BY <1>2
<1>4. tg \in [1..n -> Nat]
  <2> DEFINE t == acc.target[i] + w
  <2>1. t \in Nat
    <3>1. acc.target[i] \in Nat
      BY <1>2
    <3> QED  BY <3>1
  <2> HIDE DEF t
  <2>2. [acc.target EXCEPT ![i] = t] \in [1..n -> Nat]
    BY <1>2, <2>1
  <2> QED  BY <2>2 DEF t
<1> HIDE DEF tb, nx, fl, tg, p
<1>5. p.table = tb /\ p.filled = fl /\ p.stuck = acc.stuck /\ p.target = tg
  BY <1>1 DEF PartTables
<1>6. p \in PartTables(n, size)
  BY <1>1, <1>2, <1>3, <1>4 DEF PartTables
<1> QED  BY <1>5, <1>6, Zenon DEF Follows, p, tb, fl, tg

LEMMA TurnType ==
  ASSUME NEW hashes, NEW weights, NEW size, NEW n, Tabled(hashes, weights, size, n),
         NEW acc \in PartTables(n, size), NEW round \in Nat, NEW i \in 1..n,
         NEW h \in 1..n, Heaviest(weights, h)
  PROVE  Turn(hashes, weights, size, acc, round, i) \in PartTables(n, size)
<1> DEFINE k == FirstFree(acc.table, hashes[i], size, acc.next[i])
           s == SlotAt(hashes[i], size, k)
           turn == Turn(hashes, weights, size, acc, round, i)
<1>0. TurnOutcome(hashes, weights, size, acc, round, i, h)
  BY TurnCases
<1>1. \/ turn = acc \/ turn = [acc EXCEPT !.stuck = TRUE]
      \/ k # Empty /\ turn = Placed(acc, s, i, k, weights[h])
  BY <1>0, Zenon DEF TurnOutcome
<1>2. acc.next[i] \in Nat /\ weights[h] \in Nat
  BY DEF PartTables, Tabled
<1>3. k # Empty => k \in Nat /\ s \in 0..(size - 1)
  <2>1. k # Empty => k \in Nat
    <3>1. FirstIsFree(acc.table, hashes[i], size, acc.next[i])
      BY <1>2, FreeIsFound
    <3> QED  BY <3>1, Zenon DEF FirstIsFree
  <2> HIDE DEF k
  <2> QED  BY <2>1, SlotIsOne, Zenon
<1> HIDE DEF turn, k, s
<1>4. [acc EXCEPT !.stuck = TRUE] \in PartTables(n, size)
  BY DEF PartTables
<1>5. turn \in PartTables(n, size)
  <2>1. CASE k # Empty /\ turn = Placed(acc, s, i, k, weights[h])
    <3>1. Placed(acc, s, i, k, weights[h]) \in PartTables(n, size)
      BY <1>2, <1>3, <2>1, PlacedFacts DEF Follows
    <3> QED  BY <2>1, <3>1
  <2> QED  BY <1>1, <1>4, <2>1
<1> QED  BY <1>5 DEF turn
(* After k turns nothing is stuck, the count is that of the taken slots,   *)
(* whoever had a turn owns a slot, and unless the table is full the        *)
(* heaviest took one each time it was offered.                             *)
FillInv(weights, size, n, h, k, acc) ==
  /\ acc \in PartTables(n, size) /\ ~acc.stuck
  /\ Cardinality(Taken(acc)) = acc.filled /\ acc.filled <= k
  /\ \A i \in 1..n : i <= k => Owns(acc, i)
  /\ \A i \in 1..n : i > k => acc.target[i] = weights[i]
  /\ \/ acc.filled = size
     \/ /\ acc.filled >= Offered(h, n, k)
        /\ acc.target[h] = (Offered(h, n, k) + 1) * weights[h]

LEMMA TakenIsFinite ==
  ASSUME NEW n, NEW size \in Nat, NEW acc \in PartTables(n, size)
  PROVE  /\ DOMAIN acc.table = 0..(size - 1) /\ Taken(acc) \subseteq 0..(size - 1)
         /\ IsFiniteSet(Taken(acc)) /\ Cardinality(Taken(acc)) \in Nat
         /\ Cardinality(Taken(acc)) <= size
         /\ Cardinality(Taken(acc)) = size <=> Taken(acc) = 0..(size - 1)
<1> DEFINE S == 0..(size - 1)
<1>1. IsFiniteSet(S) /\ Cardinality(S) = size
  BY FS_Interval
<1>2. DOMAIN acc.table = S
  BY DEF PartTables
<1>3. Taken(acc) \in SUBSET S
  BY <1>2 DEF Taken
<1> HIDE DEF S
<1>4. /\ IsFiniteSet(Taken(acc)) /\ Cardinality(Taken(acc)) <= Cardinality(S)
      /\ Cardinality(Taken(acc)) = Cardinality(S) <=> Taken(acc) = S
  BY <1>1, <1>3, FS_Subset
<1>5. Cardinality(Taken(acc)) \in Nat
  BY <1>4, FS_CardinalityType
<1> QED  BY <1>1, <1>2, <1>3, <1>4, <1>5 DEF S

LEMMA TurnKeeps ==
  ASSUME NEW hashes, NEW weights, NEW size, NEW n, Tabled(hashes, weights, size, n),
         NEW h \in 1..n, Heaviest(weights, h), NEW k \in Nat,
         NEW acc, FillInv(weights, size, n, h, k, acc)
  PROVE  FillInv(weights, size, n, h, k + 1,
                 Turn(hashes, weights, size, acc, (k \div n) + 1, (k % n) + 1))
<1> DEFINE q == k \div n
           i == (k % n) + 1
           j == FirstFree(acc.table, hashes[i], size, acc.next[i])
           s == SlotAt(hashes[i], size, j)
           turn == Turn(hashes, weights, size, acc, q + 1, i)
           off == Offered(h, n, k)
           off1 == Offered(h, n, k + 1)
<1>1. n \in Nat \ {0} /\ size \in Nat /\ n <= size
      /\ weights \in [1..n -> Nat \ {0}] /\ hashes \in [1..n -> Nat \X Nat]
  BY DEF Tabled
<1>2. q \in Nat /\ i \in 1..n /\ k = q * n + (i - 1)
  <2> DEFINE p == k % n
  <2>1. q \in Nat /\ p \in 0..(n - 1) /\ k = q * n + p
    BY <1>1, Divided, Zenon
  <2> HIDE DEF p, q
  <2>2. p + 1 \in 1..n /\ (p + 1) - 1 = p
    BY <1>1, <2>1
  <2> QED  BY <2>1, <2>2 DEF p
<1>3. off \in Nat /\ (i = h => off = q /\ off1 = q + 1) /\ (i # h => off1 = off)
  BY <1>1, OfferedNext
<1>4. k < n => q = 0 /\ i = k + 1
  <2> HIDE DEF q, i
  <2>1. CASE q = 0
    <3>1. q * n = 0
      BY <1>1, <2>1
    <3> QED  BY <1>2, <2>1, <3>1
  <2>2. CASE q >= 1
    <3> DEFINE z == q * n
    <3>1. z >= n /\ z \in Nat /\ k = z + (i - 1)
      BY <1>1, <1>2, <2>2
    <3> HIDE DEF z
    <3>2. k >= n
      BY <1>1, <1>2, <3>1
    <3> QED  BY <1>1, <3>2
  <2> QED  BY <1>2, <2>1, <2>2
<1>5. acc \in PartTables(n, size) /\ ~acc.stuck
  BY DEF FillInv
<1>6. /\ acc.table \in [0..(size - 1) -> {Empty} \cup (1..n)] /\ acc.filled \in Nat
      /\ acc.next \in [1..n -> Nat] /\ acc.target \in [1..n -> Nat]
  BY <1>5 DEF PartTables
<1> HIDE DEF q, i, j, s, off, off1
<1>7. TurnOutcome(hashes, weights, size, acc, q + 1, i, h)
  <2> DEFINE r == q + 1
  <2>1. r \in Nat
    BY <1>2
  <2> HIDE DEF r
  <2>2. TurnOutcome(hashes, weights, size, acc, r, i, h)
    BY <1>2, <1>5, <2>1, TurnCases
  <2> QED  BY <2>2 DEF r
<1>8. /\ DOMAIN acc.table = 0..(size - 1) /\ Taken(acc) \subseteq 0..(size - 1)
      /\ IsFiniteSet(Taken(acc)) /\ Cardinality(Taken(acc)) = acc.filled
      /\ acc.filled <= size
      /\ acc.filled = size <=> Taken(acc) = 0..(size - 1)
  <2>1. Cardinality(Taken(acc)) = acc.filled
    BY DEF FillInv
  <2> QED  BY <1>1, <1>5, <2>1, TakenIsFinite
<1>9. /\ j = Empty \/ (j \in Nat /\ acc.table[s] = Empty)
      /\ acc.filled # size => j # Empty
  <2>1. acc.filled # size => \E t \in 0..(size - 1) : acc.table[t] = Empty
    BY <1>8 DEF Taken
  <2> DEFINE from == acc.next[i]
             table == acc.table
  <2>2. from \in Nat
    BY <1>2, <1>6
  <2> HIDE DEF from, table
  <2>3. FirstIsFree(table, hashes[i], size, from)
    BY <1>2, <2>2, FreeIsFound
  <2>4. FirstIsFree(acc.table, hashes[i], size, acc.next[i])
    BY <2>3 DEF from, table
  <2> QED  BY <2>1, <2>4, Zenon DEF FirstIsFree, j, s
<1>10. \/ /\ acc.filled = size \/ (q + 1) * weights[i] < acc.target[i]
          /\ turn = acc
       \/ /\ acc.filled # size /\ j # Empty
          /\ turn = Placed(acc, s, i, j, weights[h])
  BY <1>5, <1>7, <1>9, Zenon DEF TurnOutcome, j, s
<1>11. /\ acc.filled <= k
       /\ \A x \in 1..n : x <= k => Owns(acc, x)
       /\ \A x \in 1..n : x > k => acc.target[x] = weights[x]
       /\ acc.filled # size => acc.filled >= off /\ acc.target[h] = (off + 1) * weights[h]
  BY DEF FillInv, off
<1>12. weights[h] \in Nat \ {0} /\ weights[i] \in Nat \ {0}
  BY <1>1, <1>2
<1>13. CASE turn = acc /\ (acc.filled = size \/ (q + 1) * weights[i] < acc.target[i])
  <2>1. k >= n
    <3> SUFFICES ASSUME k < n PROVE FALSE
      BY <1>1
    <3>1. acc.filled # size
      BY <1>1, <1>6, <1>11
    <3>2. acc.target[i] = weights[i] /\ q = 0
      BY <1>1, <1>2, <1>4, <1>11
    <3>3. (q + 1) * weights[i] = weights[i]
      BY <1>12, <3>2
    <3> QED  BY <1>12, <1>13, <3>1, <3>2, <3>3
  <2>2. acc.filled = size \/ i # h
    <3> SUFFICES ASSUME acc.filled # size, i = h PROVE FALSE
      OBVIOUS
    <3>1. acc.target[i] = (q + 1) * weights[i]
      BY <1>3, <1>11
    <3>2. (q + 1) * weights[i] \in Nat
      BY <1>2, <1>12
    <3> QED  BY <1>13, <3>1, <3>2
  <2>3. /\ acc.filled <= k + 1
        /\ \A x \in 1..n : x <= k + 1 => Owns(acc, x)
        /\ \A x \in 1..n : x > k + 1 => acc.target[x] = weights[x]
    <3>1. acc.filled <= k + 1
      BY <1>6, <1>11
    <3>2. \A x \in 1..n : x <= k /\ ~(x > k + 1)
      BY <1>1, <2>1
    <3> QED  BY <1>11, <3>1, <3>2
  <2>4. \/ acc.filled = size
        \/ acc.filled >= off1 /\ acc.target[h] = (off1 + 1) * weights[h]
    BY <1>3, <1>11, <2>2
  <2>5. FillInv(weights, size, n, h, k + 1, acc)
    BY <1>5, <1>8, <2>3, <2>4, Zenon DEF FillInv, off1
  <2> QED  BY <1>13, <2>5, Zenon DEF q, i
<1>14. CASE acc.filled # size /\ j # Empty /\ turn = Placed(acc, s, i, j, weights[h])
  <2> DEFINE p == Placed(acc, s, i, j, weights[h])
  <2>1. j \in Nat /\ acc.table[s] = Empty
    BY <1>9, <1>14
  <2>2. s \in 0..(size - 1)
    BY <1>2, <2>1, SlotIsOne, Zenon DEF s
  <2>3. /\ p \in PartTables(n, size)
        /\ p.table = [acc.table EXCEPT ![s] = i] /\ p.filled = acc.filled + 1
        /\ p.stuck = acc.stuck /\ p.target = [acc.target EXCEPT ![i] = @ + weights[h]]
    <3> DEFINE w == weights[h]
    <3>1. w \in Nat
      BY <1>12
    <3> HIDE DEF w
    <3>2. Follows(n, size, acc, s, i, w, Placed(acc, s, i, j, w))
      BY <1>2, <1>5, <2>1, <2>2, <3>1, PlacedFacts
    <3> QED  BY <3>2, Zenon DEF w, Follows
  <2> HIDE DEF p
  <2>4. DOMAIN p.table = 0..(size - 1) /\ p.table[s] = i
        /\ \A t \in 0..(size - 1) : t # s => p.table[t] = acc.table[t]
    BY <1>6, <2>2, <2>3
  <2>5. Empty \notin 1..n
    BY DEF Empty
  <2>6. Cardinality(Taken(p)) = p.filled
    <3>1. Taken(p) = Taken(acc) \cup {s} /\ s \notin Taken(acc)
      BY <1>2, <1>8, <2>1, <2>2, <2>4, <2>5 DEF Taken
    <3>2. Cardinality(Taken(acc) \cup {s}) = Cardinality(Taken(acc)) + 1
      BY <1>8, <3>1, FS_AddElement
    <3> QED  BY <1>8, <2>3, <3>1, <3>2
  <2>7. Owns(p, i)
    BY <2>2, <2>4 DEF Owns
  <2>8. ASSUME NEW x \in 1..n, x <= k PROVE Owns(p, x)
    <3>1. PICK t \in 0..(size - 1) : acc.table[t] = x
      BY <1>8, <1>11, <2>8 DEF Owns
    <3>2. t # s
      BY <2>1, <2>5, <3>1
    <3> QED  BY <2>4, <3>1, <3>2 DEF Owns
  <2>9. \A x \in 1..n : x <= k + 1 => Owns(p, x)
    <3> SUFFICES ASSUME NEW x \in 1..n, x <= k + 1, ~(x <= k) PROVE Owns(p, x)
      BY <2>8
    <3>1. x = k + 1 /\ k < n
      BY <1>1
    <3> QED  BY <1>4, <2>7, <3>1
  <2>10. \A x \in 1..n : p.target[x] = IF x = i THEN acc.target[i] + weights[h] ELSE acc.target[x]
    BY <1>2, <1>6, <2>3
  <2>11. \A x \in 1..n : x > k + 1 => p.target[x] = weights[x]
    <3> SUFFICES ASSUME NEW x \in 1..n, x > k + 1 PROVE p.target[x] = weights[x]
      OBVIOUS
    <3>1. i = k + 1 /\ x # i /\ x > k
      BY <1>1, <1>4
    <3> QED  BY <1>11, <2>10, <3>1
  <2>12. p.filled >= off1 /\ p.target[h] = (off1 + 1) * weights[h]
    <3>1. acc.filled >= off /\ acc.target[h] = (off + 1) * weights[h]
      BY <1>11, <1>14
    <3>2. CASE i = h
      <4>1. off1 = off + 1 /\ off \in Nat
        BY <1>3, <3>2
      <4>2. p.target[h] = (off + 1) * weights[h] + weights[h]
        BY <1>2, <2>10, <3>1, <3>2
      <4>3. (off + 1) * weights[h] + weights[h] = ((off + 1) + 1) * weights[h]
        BY <1>12, <4>1
      <4>4. p.filled >= off1
        BY <1>6, <2>3, <3>1, <4>1
      <4> QED  BY <4>1, <4>2, <4>3, <4>4
    <3>3. CASE i # h
      <4>1. off1 = off
        BY <1>3, <3>3
      <4>2. p.target[h] = acc.target[h]
        BY <2>10, <3>3
      <4>3. p.filled >= off1
        BY <1>3, <1>6, <2>3, <3>1, <4>1
      <4> QED  BY <3>1, <4>1, <4>2, <4>3
    <3> QED  BY <3>2, <3>3
  <2>13. p.filled <= k + 1
    BY <1>6, <1>11, <2>3
  <2>14. FillInv(weights, size, n, h, k + 1, p)
    BY <1>5, <2>3, <2>6, <2>9, <2>11, <2>12, <2>13, Zenon DEF FillInv, off1
  <2>15. turn = p
    BY <1>14 DEF p
  <2> QED  BY <2>14, <2>15, Zenon DEF q, i
<1> QED  BY <1>10, <1>13, <1>14
(* A function may be defined by a recursion that counts its steps.         *)
CountedRecurs(n, base, o, g) == g = [k \in 0..n |-> IF k = 0 THEN base ELSE o[<<k, g[k - 1]>>]]

LEMMA CountedRecursion ==
  ASSUME NEW D, NEW base \in D, NEW n \in Nat, NEW o \in [(1..n) \X D -> D]
  PROVE  \E g \in [0..n -> D] : CountedRecurs(n, base, o, g)
<1> DEFINE N == {m \in Nat : m <= n => \E g \in [0..m -> D] : CountedRecurs(m, base, o, g)}
<1>1. 0 \in N
  <2> DEFINE g == [k \in 0..0 |-> base]
  <2>1. g \in [0..0 -> D] /\ CountedRecurs(0, base, o, g)
    BY DEF CountedRecurs
  <2> QED  BY <2>1
<1>2. ASSUME NEW m \in Nat, m \in N PROVE m + 1 \in N
  <2> SUFFICES ASSUME m + 1 <= n
               PROVE  \E g \in [0..(m + 1) -> D] : CountedRecurs(m + 1, base, o, g)
    OBVIOUS
  <2>1. PICK g \in [0..m -> D] : CountedRecurs(m, base, o, g)
    BY <1>2
  <2> DEFINE newest == o[<<m + 1, g[m]>>]
             h == [k \in 0..(m + 1) |-> IF k = m + 1 THEN newest ELSE g[k]]
  <2>2. newest \in D
    <3>1. m + 1 \in 1..n /\ g[m] \in D
      BY <2>1
    <3>2. <<m + 1, g[m]>> \in (1..n) \X D
      BY <3>1
    <3> QED  BY <3>2
  <2>3. newest = o[<<m + 1, g[m]>>]
    OBVIOUS
  <2> HIDE DEF newest
  <2>4. h \in [0..(m + 1) -> D]
    BY <2>2
  <2>5. \A k \in 0..m : g[k] = IF k = 0 THEN base ELSE o[<<k, g[k - 1]>>]
    BY <2>1 DEF CountedRecurs
  <2>6. ASSUME NEW k \in 0..(m + 1)
        PROVE  h[k] = IF k = 0 THEN base ELSE o[<<k, h[k - 1]>>]
    <3>1. CASE k = 0
      <4>1. h[k] = g[0]
        BY <3>1
      <4>2. g[0] = base
        <5>1. 0 \in 0..m
          OBVIOUS
        <5> HIDE DEF h
        <5> QED  BY <2>5, <5>1, Zenon
      <4> HIDE DEF h
      <4> QED  BY <3>1, <4>1, <4>2
    <3>2. CASE k = m + 1
      <4>1. h[k] = newest /\ h[k - 1] = g[m] /\ k # 0
        BY <3>2
      <4> HIDE DEF h
      <4> QED  BY <2>3, <3>2, <4>1, Zenon
    <3>3. CASE k \in 1..m
      <4>1. h[k] = g[k] /\ h[k - 1] = g[k - 1] /\ k # 0
        BY <3>3
      <4>2. g[k] = o[<<k, g[k - 1]>>]
        BY <2>5, <3>3
      <4> HIDE DEF h
      <4> QED  BY <4>1, <4>2, Zenon
    <3> QED  BY <3>1, <3>2, <3>3
  <2> HIDE DEF h
  <2>7. CountedRecurs(m + 1, base, o, h)
    BY <2>4, <2>6 DEF CountedRecurs
  <2> QED  BY <2>4, <2>7
<1> HIDE DEF N
<1>3. n \in N
  BY <1>1, <1>2, InductionSet
<1> QED  BY <1>3 DEF N

(* A table built from these has no hole and an entry for every instance.   *)
LEMMA BuildFills ==
  ASSUME NEW hashes, NEW weights, NEW size, Tabled(hashes, weights, size, Len(weights))
  PROVE  LET table == Build(hashes, weights, size)
         IN  {table[s] : s \in DOMAIN table} = 1..Len(weights)
<1> DEFINE n == Len(weights)
           N == size * n
           D == PartTables(n, size)
           start == [table |-> [s \in 0..(size - 1) |-> Empty], filled |-> 0, stuck |-> FALSE,
                     next |-> [i \in DOMAIN weights |-> 0], target |-> Seed(weights)]
           turns == [k \in 0..(N - 1) |-> <<(k \div n) + 1, (k % n) + 1>>]
           Solves(g) ==
             g = [k \in 0..N |->
                    IF k = 0 THEN start
                    ELSE Turn(hashes, weights, size, g[k - 1], turns[k - 1][1], turns[k - 1][2])]
           after == CHOOSE g : Solves(g)
           o == [x \in (1..N) \X D |->
                   Turn(hashes, weights, size, x[2], turns[x[1] - 1][1], turns[x[1] - 1][2])]
<1>0. Build(hashes, weights, size) =
        IF (\A i \in 1..n : weights[i] = 0) \/ size < 2 THEN << >> ELSE after[N].table
  BY Zenon DEF Build
<1>tabled. Tabled(hashes, weights, size, n)
  OBVIOUS
<1> HIDE DEF n
<1>1. /\ n \in Nat \ {0} /\ size \in Nat /\ size >= 2 /\ n <= size
      /\ weights \in [1..n -> Nat \ {0}] /\ hashes \in [1..n -> Nat \X Nat]
  BY <1>tabled DEF Tabled, IsPrime
<1>2. Build(hashes, weights, size) = after[N].table
  <2>2. 1 \in 1..n /\ weights[1] # 0
    BY <1>1
  <2> HIDE DEF after, N
  <2> QED  BY <1>0, <1>1, <2>2
<1>3. N \in Nat /\ n <= N
  BY <1>1
<1>4. PICK h \in 1..n : Heaviest(weights, h)
  BY <1>1, SomeHeaviest
<1>5. start \in D
  BY <1>1 DEF PartTables, Seed
<1>6. ASSUME NEW k \in 1..N
      PROVE  /\ k - 1 \in Nat
             /\ turns[k - 1][1] = ((k - 1) \div n) + 1 /\ turns[k - 1][2] = ((k - 1) % n) + 1
             /\ ((k - 1) \div n) + 1 \in Nat /\ ((k - 1) % n) + 1 \in 1..n
  <2> DEFINE l == k - 1
  <2>1. l \in Nat /\ l \in 0..(N - 1)
    BY <1>3
  <2> HIDE DEF l, N
  <2>2. turns[l] = <<(l \div n) + 1, (l % n) + 1>>
    BY <2>1
  <2>3. l \div n \in Nat /\ l % n \in 0..(n - 1)
    BY <1>1, <2>1, Divided, Zenon
  <2>4. (l \div n) + 1 \in Nat /\ (l % n) + 1 \in 1..n
    <3>1. \A q \in Nat, r \in 0..(n - 1) : q + 1 \in Nat /\ r + 1 \in 1..n
      BY <1>1
    <3> QED  BY <2>3, <3>1, Zenon
  <2>5. turns[l][1] = (l \div n) + 1 /\ turns[l][2] = (l % n) + 1
    BY <2>2
  <2> HIDE DEF turns
  <2> QED  BY <2>1, <2>4, <2>5, Zenon DEF l
<1> HIDE DEF turns
<1>7. o \in [(1..N) \X D -> D]
  <2> SUFFICES ASSUME NEW k \in 1..N, NEW a \in D
               PROVE  Turn(hashes, weights, size, a, turns[k - 1][1], turns[k - 1][2]) \in D
    OBVIOUS
  <2> DEFINE r == turns[k - 1][1]
             i == turns[k - 1][2]
  <2>1. r \in Nat /\ i \in 1..n
    BY <1>6
  <2> HIDE DEF r, i, N
  <2>2. Turn(hashes, weights, size, a, r, i) \in PartTables(n, size)
    BY <1>tabled, <1>4, <2>1, TurnType
  <2> QED  BY <2>2 DEF r, i
<1> HIDE DEF N, D, start
<1>8. PICK g \in [0..N -> D] : CountedRecurs(N, start, o, g)
  <2> HIDE DEF o
  <2> QED  BY <1>3, <1>5, <1>7, CountedRecursion
<1>9. Solves(g)
  <2>1. g = [k \in 0..N |-> IF k = 0 THEN start ELSE o[<<k, g[k - 1]>>]]
    BY <1>8, Zenon DEF CountedRecurs
  <2>2. ASSUME NEW k \in 0..N
        PROVE  g[k] = IF k = 0 THEN start
                      ELSE Turn(hashes, weights, size, g[k - 1], turns[k - 1][1], turns[k - 1][2])
    <3>1. CASE k = 0
      <4> HIDE DEF o
      <4> QED  BY <1>3, <2>1, <3>1
    <3>2. CASE k # 0
      <4>1. k \in 1..N /\ g[k - 1] \in D
        BY <1>3, <1>8, <3>2
      <4>2. g[k] = o[<<k, g[k - 1]>>]
        <5> HIDE DEF o
        <5> QED  BY <2>1, <3>2
      <4>3. o[<<k, g[k - 1]>>] = Turn(hashes, weights, size, g[k - 1], turns[k - 1][1], turns[k - 1][2])
        BY <4>1
      <4> HIDE DEF o
      <4> QED  BY <3>2, <4>2, <4>3
    <3> QED  BY <3>1, <3>2
  <2> HIDE DEF o
  <2> QED  BY <1>8, <2>2
<1> HIDE DEF Solves, o
<1>10. Solves(after)
  BY <1>9
<1> HIDE DEF after
<1>solved. \A k \in 0..N :
        after[k] = IF k = 0 THEN start
                   ELSE Turn(hashes, weights, size, after[k - 1], turns[k - 1][1], turns[k - 1][2])
  BY <1>10, Zenon DEF Solves
<1>11. after[0] = start
  BY <1>3, <1>solved
<1>12. ASSUME NEW k \in 1..N
       PROVE  after[k] = Turn(hashes, weights, size, after[k - 1],
                              ((k - 1) \div n) + 1, ((k - 1) % n) + 1)
  <2>1. after[k] = Turn(hashes, weights, size, after[k - 1], turns[k - 1][1], turns[k - 1][2])
    <3>1. k \in 0..N /\ k # 0
      BY <1>3
    <3> QED  BY <1>solved, <3>1, Zenon
  <2> QED  BY <1>6, <2>1
<1> DEFINE Good(k) == FillInv(weights, size, n, h, k, after[k])
           G == {k \in Nat : k <= N => Good(k)}
<1>13. Good(0)
  <2> DEFINE a == start
  <2>1. /\ a \in PartTables(n, size) /\ ~a.stuck /\ a.filled = 0 /\ a.target = weights
        /\ DOMAIN a.table = 0..(size - 1) /\ \A s \in 0..(size - 1) : a.table[s] = Empty
    BY <1>5 DEF D, start, Seed
  <2> HIDE DEF a
  <2>2. Taken(a) = {}
    BY <2>1 DEF Taken
  <2>3. Cardinality(Taken(a)) = a.filled
    BY <2>1, <2>2, FS_EmptySet
  <2>4. Offered(h, n, 0) = 0
    <3>1. 0 \div n = 0 /\ 0 % n = 0
      BY <1>1
    <3> QED  BY <3>1 DEF Offered
  <2>5. /\ a.filled <= 0
        /\ \A i \in 1..n : i <= 0 => Owns(a, i)
        /\ \A i \in 1..n : i > 0 => a.target[i] = weights[i]
    BY <2>1
  <2>6. a.filled >= Offered(h, n, 0) /\ a.target[h] = (Offered(h, n, 0) + 1) * weights[h]
    BY <1>1, <2>1, <2>4
  <2>7. FillInv(weights, size, n, h, 0, a)
    BY <2>1, <2>3, <2>5, <2>6, Zenon DEF FillInv
  <2> QED  BY <1>11, <2>7 DEF a
<1>14. ASSUME NEW k \in Nat, k \in G PROVE k + 1 \in G
  <2> SUFFICES ASSUME k + 1 <= N PROVE Good(k + 1)
    OBVIOUS
  <2>1. Good(k)
    BY <1>3, <1>14
  <2>2. after[k + 1] = Turn(hashes, weights, size, after[k], (k \div n) + 1, (k % n) + 1)
    <3>1. k + 1 \in 1..N /\ (k + 1) - 1 = k
      BY <1>3
    <3> QED  BY <1>12, <3>1
  <2> DEFINE a == after[k]
  <2> HIDE DEF a
  <2>3. FillInv(weights, size, n, h, k, a)
    BY <2>1 DEF a
  <2>4. FillInv(weights, size, n, h, k + 1,
                Turn(hashes, weights, size, a, (k \div n) + 1, (k % n) + 1))
    BY <1>tabled, <1>4, <2>3, TurnKeeps
  <2> QED  BY <2>2, <2>4 DEF a
<1>15. Good(N)
  <2>1. 0 \in G
    BY <1>13
  <2> HIDE DEF G, Good
  <2>2. N \in G
    BY <1>3, <1>14, <2>1, InductionSet
  <2> QED  BY <1>3, <2>2 DEF G
<1> DEFINE full == after[N]
<1>16. FillInv(weights, size, n, h, N, full)
  BY <1>15
<1> HIDE DEF full
<1>17. Offered(h, n, N) = size
  <2> DEFINE z == 0
  <2>1. z \in 0..(n - 1) /\ N = size * n + z
    BY <1>1 DEF N
  <2> HIDE DEF z
  <2>2. N \div n = size /\ N % n = z
    BY <1>1, <2>1, DividedOnly, Zenon
  <2> QED  BY <1>1, <2>2 DEF Offered, z
<1>18. full \in PartTables(n, size) /\ full.filled = Cardinality(Taken(full))
       /\ \A i \in 1..n : Owns(full, i)
  BY <1>1, <1>3, <1>16 DEF FillInv
<1>19. full.filled = size
  <2>1. full.filled \in Nat /\ full.filled <= size
    BY <1>1, <1>18, TakenIsFinite
  <2>2. full.filled = size \/ full.filled >= size
    BY <1>16, <1>17 DEF FillInv
  <2> QED  BY <1>1, <2>1, <2>2
<1>20. DOMAIN full.table = 0..(size - 1) /\ Taken(full) = 0..(size - 1)
       /\ full.table \in [0..(size - 1) -> {Empty} \cup (1..n)]
  <2>1. DOMAIN full.table = 0..(size - 1) /\ Taken(full) = 0..(size - 1)
    BY <1>1, <1>18, <1>19, TakenIsFinite
  <2> QED  BY <1>18, <2>1 DEF PartTables
<1>21. {full.table[s] : s \in DOMAIN full.table} = 1..n
  BY <1>18, <1>20 DEF Taken, Owns
<1> QED  BY <1>2, <1>21 DEF full, n

(* An upstream that passed the checks has a table without a hole.          *)
LEMMA GroupIsFull ==
  ASSUME NEW m \in Manifests \cup {InitialDisk.manifest}, NEW u \in Each(m.upstreams),
         LbValid(u), u.addresses # << >>, u.lb = "maglev"
  PROVE  {Group(u).table[s] : s \in DOMAIN Group(u).table} = DOMAIN u.addresses
<1> DEFINE hashes == [i \in DOMAIN u.addresses |-> HashOf[u.addresses[i].addr]]
           weights == [i \in DOMAIN u.addresses |-> u.addresses[i].weight]
           size == u.hash.table_size
           n == Len(u.addresses)
<1>1. /\ u.addresses \in Seq(Each(u.addresses))
      /\ \A a \in Each(u.addresses) : HashOf[a.addr] \in Nat \X Nat
      /\ u.hash = Absent \/ size \in Nat
  BY DiskAssumption
<1>2. n \in Nat \ {0} /\ DOMAIN u.addresses = 1..n
  <2>1. n \in Nat /\ DOMAIN u.addresses = 1..n /\ (n = 0 => u.addresses = << >>)
    BY <1>1, LenProperties, EmptySeq
  <2> QED  BY <2>1
<1>3. size \in Nat /\ IsPrime(size) /\ n <= size
  <2>1. HashValid(u)  BY DEF LbValid
  <2>2. u.hash # Absent /\ IsPrime(size) /\ n <= size  BY <2>1 DEF HashValid
  <2> QED  BY <1>1, <2>2
<1>4. \A i \in 1..n : u.addresses[i] \in Each(u.addresses)
  BY <1>2 DEF Each
<1>5. \A i \in 1..n : u.addresses[i].weight \in Nat \ {0} /\ HashOf[u.addresses[i].addr] \in Nat \X Nat
  <2>1. \A a \in Each(u.addresses) : a.weight \in 1..MaxInstanceWeight
    BY DEF LbValid
  <2>2. \A w \in 1..MaxInstanceWeight : w \in Nat \ {0}
    OBVIOUS
  <2> QED  BY <1>1, <1>4, <2>1, <2>2, Zenon
<1>6. weights \in [1..n -> Nat \ {0}] /\ hashes \in [1..n -> Nat \X Nat]
  BY <1>2, <1>5, Zenon
<1>7. Len(weights) = n
  <2>1. weights \in Seq(Nat \ {0}) /\ DOMAIN weights = 1..n
    BY <1>2, <1>6
  <2> HIDE DEF weights, n
  <2>2. Len(weights) = n
    BY <1>2, <2>1, LenProperties
  <2> QED  BY <2>2
<1>8. Group(u).table = Build(hashes, weights, size)
  <2>1. Group(u).table = IF u.lb # "maglev" THEN << >> ELSE Build(hashes, weights, size)
    BY Zenon DEF Group
  <2> HIDE DEF hashes, weights, size
  <2> QED  BY <2>1
<1> HIDE DEF hashes, weights, size, n
<1>9. Tabled(hashes, weights, size, Len(weights))
  BY <1>2, <1>3, <1>6, <1>7 DEF Tabled
<1>10. {Build(hashes, weights, size)[s] : s \in DOMAIN Build(hashes, weights, size)} = 1..Len(weights)
  BY <1>9, BuildFills
<1> QED  BY <1>2, <1>7, <1>8, <1>10, Zenon

(* What runs is a manifest that was written and passed.                    *)
ServedOK ==
  proc # Absent =>
    /\ proc.active.manifest \in Manifests \cup {InitialDisk.manifest}
    /\ UpstreamsValid(proc.active.manifest)

LEMMA ReconciledMeans ==
  ASSUME NEW m, NEW fs, NEW groups, ReconcileErr(m, fs, groups) = "none"
  PROVE  UpstreamsValid(m)
<1> DEFINE reused(u) == u.name \in DOMAIN groups /\ groups[u.name].tls = u.tls
           loads == \A u \in Each(m.upstreams) :
             u.tls = Absent \/ (reused(u) /\ u.tls.sni # "bad") \/ UpstreamTlsLoads(u.tls, fs)
           steps == << <<UpstreamsValid(m), "upstream">>, <<loads, "upstream_tls">> >>
<1>1. ReconcileErr(m, fs, groups) = FirstErr(steps)
  BY Zenon DEF ReconcileErr
<1>2. DOMAIN steps = 1..2 /\ (\A i \in 1..2 : steps[i][2] # "none")
  OBVIOUS
<1>3. \A i \in 1..2 : steps[i][1]
  <2> HIDE DEF steps
  <2> QED  BY <1>1, <1>2, FirstErrIsAStep
<1> HIDE DEF loads
<1> QED  BY <1>3

LEMMA ServedFresh ==
  ASSUME DiskOK, NEW p, ProcShape(p), BuildActive(disk, p).err = "none",
         proc' = BuildActive(disk, p).proc
  PROVE  ServedOK'
<1> DEFINE m == disk.manifest
<1>1. m \in Manifests \cup {InitialDisk.manifest} /\ DOMAIN m.filters \subseteq Nat
  BY DiskAssumption DEF DiskOK
<1>2. BuildErr(disk, p.keys, p.state.backend, p.groups) = "none"
  BY BuildActiveErr
<1>3. ReconcileErr(m, disk.files, p.groups) = "none"
  <2>1. "none" \notin {"filter", "route", "tls", "digest", "upstream"}
    OBVIOUS
  <2> QED  BY <1>1, <1>2, <2>1, BuildErrMeans
<1>4. UpstreamsValid(m)
  BY <1>3, ReconciledMeans
<1>5. proc'.active.manifest = m
  <2>1. proc'.active = Active(disk, p.keys, p.state.backend)
    BY BuiltProc
  <2>2. Active(disk, p.keys, p.state.backend).manifest = m
    BY DEF Active
  <2> QED  BY <2>1, <2>2, Zenon
<1> QED  BY <1>1, <1>4, <1>5 DEF ServedOK

LEMMA ServedStep == CheckInv /\ ServedOK /\ [Next]_vars => ServedOK'
<1> SUFFICES ASSUME CheckInv, ServedOK, [Next]_vars PROVE ServedOK'
  OBVIOUS
<1>0. DiskOK /\ (proc # Absent => ProcShape(proc))
  BY DEF CheckInv
<1>1. proc' = proc => ServedOK'
  BY DEF ServedOK
<1>2. proc' = Absent => ServedOK'
  BY DEF ServedOK
<1>3. CASE \/ \E m \in Manifests : EditManifest(m)
           \/ \E n \in DOMAIN Files : \E body \in Files[n] : EditFile(n, body)
           \/ \E s \in DOMAIN Layouts : \E layout \in Layouts[s] : EditLayout(s, layout)
           \/ Validate \/ ValidateResolve
  <2>1. proc' = proc
    BY <1>3, Zenon DEF EditManifest, EditFile, EditLayout, Edited, Validate, ValidateResolve, Check
  <2> QED  BY <1>1, <2>1
<1>4. ASSUME NEW opens \in BOOLEAN, Start(opens) PROVE ServedOK'
  <2> DEFINE h == Host(disk)
  <2>1. proc' = IF StartErr(disk, opens) # "none" THEN Absent ELSE BuildActive(disk, h).proc
    BY <1>4 DEF Start
  <2>2. CASE StartErr(disk, opens) = "none"
    <3>1. BuildActive(disk, h).err = "none" /\ ProcShape(h)
      BY <2>2, StartBuilds, HostShape
    <3> HIDE DEF h
    <3> QED  BY <1>0, <2>1, <2>2, <3>1, ServedFresh
  <2> QED  BY <1>2, <2>1, <2>2
<1>5. CASE Sighup
  <2>1. proc # Absent /\ ProcShape(proc)
    BY <1>0, <1>5 DEF Sighup
  <2>2. proc' = proc \/ proc' = BuildActive(disk, proc).proc
    BY <1>5 DEF Sighup
  <2>3. CASE proc' = BuildActive(disk, proc).proc /\ BuildActive(disk, proc).err = "none"
    BY <1>0, <2>1, <2>3, ServedFresh
  <2>4. CASE proc' = BuildActive(disk, proc).proc /\ BuildActive(disk, proc).err # "none"
    BY <1>1, <2>1, <2>4, BuiltProc
  <2> QED  BY <1>1, <2>2, <2>3, <2>4
<1>6. CASE Stop
  BY <1>2, <1>6 DEF Stop
<1>7. CASE UNCHANGED vars
  BY <1>1, <1>7 DEF vars
<1> QED  BY <1>3, <1>4, <1>5, <1>6, <1>7 DEF Next

LEMMA TablesAreFull == ActiveVerified /\ ServedOK => TablesFull
<1> SUFFICES ASSUME ActiveVerified, ServedOK, proc # Absent, NEW n \in DOMAIN proc.groups,
                    proc.groups[n].lb = "maglev"
             PROVE  {proc.groups[n].table[s] : s \in DOMAIN proc.groups[n].table}
                      = DOMAIN proc.groups[n].addresses
  BY Zenon DEF TablesFull
<1> DEFINE m == proc.active.manifest
           u == CHOOSE v \in Each(m.upstreams) : v.name = n
<1>1. /\ m \in Manifests \cup {InitialDisk.manifest} /\ UpstreamsValid(m)
      /\ proc.groups = NamedGroups(m)
  BY DEF ServedOK, ActiveVerified, RegistryMatchesActive
<1>2. n \in {v.name : v \in Each(m.upstreams)} /\ proc.groups[n] = Group(u)
  BY <1>1 DEF NamedGroups
<1>3. u \in Each(m.upstreams)
  BY <1>2
<1> HIDE DEF u, m
<1>4. LbValid(u) /\ u.addresses # << >>
  BY <1>1, <1>3 DEF UpstreamsValid
<1>5. Group(u).lb = u.lb /\ Group(u).addresses = u.addresses
  BY DEF Group
<1>6. u.lb = "maglev"
  BY <1>2, <1>5
<1>7. {Group(u).table[s] : s \in DOMAIN Group(u).table} = DOMAIN u.addresses
  BY <1>1, <1>3, <1>4, <1>6, GroupIsFull
<1> QED  BY <1>2, <1>5, <1>7, Zenon

(* What runs was built whole, from verified artifacts and within its       *)
(* bounds, and every Maglev table of it has no hole and an entry for every *)
(* instance, whatever the addresses hash to.                               *)
THEOREM ActiveIsSound == Spec => []ActiveSound
<1>1. Init => ActiveInv /\ ServedOK
  BY ActiveStart DEF Init, ServedOK
<1>2. ActiveInv /\ ServedOK /\ [Next]_vars => (ActiveInv /\ ServedOK)'
  BY ActiveStep, ServedStep DEF ActiveInv
<1>3. ActiveInv /\ ServedOK => ActiveSound
  BY TablesAreFull DEF ActiveInv, ActiveSound
<1> QED  BY <1>1, <1>2, <1>3, PTL DEF Spec

-----------------------------------------------------------------------------
(* The session tickets.                                                    *)

KeyRec == [body : Keys, age : Ages]
KeyOpt == KeyRec \cup {NoKey}
BuildRec == [ctx : Contexts, current : KeyOpt, previous : KeyOpt, due : BOOLEAN]

(* What a handshake may be, with n builds and the tickets in T about.      *)
Hands(n, T) ==
  [pc : {"idle"}]
  \cup [pc : {"claim", "stat", "use"}, build : 1..n]
  \cup [pc : {"read"}, build : 1..n, age : Ages]
  \cup [pc : {"install"}, build : 1..n, read : KeyOpt]
  \cup [pc : {"resumed"}, build : 1..n, ticket : T, with : KeyOpt]

TicketTypes ==
  /\ file \in [body : Keys \cup {Broken}, age : Ages]
  /\ builds \in Seq(BuildRec) /\ Len(builds) > 0
  /\ hand \in [Threads -> Hands(Len(builds), held)]
  /\ since \in [Keys -> Ages]

(* A ticket is under a key of the context it was sealed in.                *)
SealedInContext ==
  \A ticket \in held :
    ticket.ctx \in Contexts /\ \E k : ticket.key = Ticketer(ticket.ctx, k)

(* A resumed session is under a key of the context it goes on in.          *)
OpenedInContext ==
  \A t \in Threads : hand[t].pc = "resumed" =>
    \E k : hand[t].ticket.key = Ticketer(Mine(t).ctx, k)

ContextInv == TicketTypes /\ SealedInContext /\ OpenedInContext

LEMMA AgeFacts ==
  /\ MaxAge \in Nat
  /\ \A a \in Ages : Older(a) \in Ages
  /\ \A a, b \in Ages : a <= b => Older(a) <= Older(b)
  BY TicketsAssumption DEF Ages, Older

LEMMA KeyFacts ==
  /\ NoKey \in KeyOpt /\ NoKey \notin KeyRec /\ Broken \notin Keys
  /\ \A k \in KeyOpt : k # NoKey => k \in KeyRec
  BY TicketsAssumption DEF KeyOpt, KeyRec

LEMMA AgedKey == \A k \in KeyOpt : Aged(k) \in KeyOpt
  BY AgeFacts, KeyFacts DEF Aged, KeyOpt, KeyRec

LEMMA DerivedKey ==
  ASSUME NEW body \in Keys, NEW age \in Ages
  PROVE  Derived(body, age) \in KeyRec
  BY DEF Derived, KeyRec

LEMMA InstalledBuild ==
  ASSUME NEW b \in BuildRec, NEW read \in KeyOpt
  PROVE  Installed(b, read) \in BuildRec /\ Installed(b, read).ctx = b.ctx
<1>1. CASE read = NoKey
  BY <1>1, KeyFacts DEF Installed, BuildRec
<1>2. CASE read # NoKey /\ b.current = NoKey
  BY <1>2 DEF Installed, BuildRec
<1>3. CASE read # NoKey /\ b.current # NoKey /\ b.current.body = read.body
  <2>1. b.current \in KeyRec /\ read \in KeyRec
    BY <1>3, KeyFacts DEF BuildRec
  <2> DEFINE k == [b.current EXCEPT !.age = read.age]
  <2>2. k \in KeyOpt
    BY <2>1 DEF KeyRec, KeyOpt
  <2>3. Installed(b, read) = [b EXCEPT !.current = k]
    BY <1>3 DEF Installed
  <2> HIDE DEF k
  <2> QED  BY <2>2, <2>3 DEF BuildRec
<1>4. CASE read # NoKey /\ b.current # NoKey /\ b.current.body # read.body
  BY <1>4 DEF Installed, BuildRec
<1> QED  BY <1>1, <1>2, <1>3, <1>4

LEMMA BuiltBuild ==
  ASSUME TicketTypes, NEW ctx \in Contexts, Buildable(ctx)
  PROVE  Built(ctx) \in BuildRec /\ Built(ctx).ctx = ctx
<1>1. ctx.stek => Derived(file.body, file.age) \in KeyRec
  BY DerivedKey DEF TicketTypes, Buildable
<1> QED  BY <1>1, KeyFacts DEF Built, BuildRec, KeyOpt

LEMMA HandsGrow ==
  ASSUME NEW n \in Nat, NEW m \in Nat, n <= m, NEW T, NEW U, T \subseteq U,
         NEW h \in Hands(n, T)
  PROVE  h \in Hands(m, U)
  BY DEF Hands

(* Every build has its context, and no build changes it.                   *)
LEMMA BuildKnown ==
  ASSUME TicketTypes, NEW t \in Threads, hand[t].pc # "idle"
  PROVE  /\ hand[t].build \in 1..Len(builds) /\ Len(builds) \in Nat
         /\ Mine(t) \in BuildRec /\ Mine(t).ctx \in Contexts
<1>1. hand[t].build \in 1..Len(builds) /\ Len(builds) \in Nat
  BY DEF TicketTypes, Hands
<1>2. builds[hand[t].build] \in BuildRec
  BY <1>1 DEF TicketTypes
<1> QED  BY <1>1, <1>2 DEF Mine, BuildRec

(* One handshake goes on to h; the builds stay, the tickets may grow.      *)
LEMMA HandStep ==
  ASSUME ContextInv, NEW t \in Threads, NEW h \in Hands(Len(builds), held'),
         hand' = [hand EXCEPT ![t] = h], builds' = builds, file' = file,
         since' = since, held \subseteq held', SealedInContext',
         h.pc = "resumed" => \E k : h.ticket.key = Ticketer(builds[h.build].ctx, k)
  PROVE  ContextInv'
<1>1. TicketTypes /\ Len(builds) \in Nat
  BY DEF ContextInv, TicketTypes
<1>2. \A u \in Threads : hand[u] \in Hands(Len(builds), held')
  BY <1>1, HandsGrow DEF TicketTypes
<1>3. TicketTypes'
  BY <1>1, <1>2 DEF TicketTypes
<1>4. OpenedInContext'
  BY <1>1 DEF ContextInv, OpenedInContext, Mine, TicketTypes
<1> QED  BY <1>3, <1>4 DEF ContextInv

LEMMA LocalSteps ==
  ASSUME ContextInv, NEW t \in Threads,
         \/ Connect(t) \/ Stat(t) \/ Read(t) \/ Encrypt(t) \/ Finish(t)
         \/ \E ticket \in held : Resume(t, ticket)
  PROVE  ContextInv'
<1>1. TicketTypes /\ SealedInContext /\ Len(builds) \in Nat /\ Len(builds) \in 1..Len(builds)
  BY DEF ContextInv, TicketTypes
<1>2. CASE Connect(t)
  <2> DEFINE h == [pc |-> IF builds[Len(builds)].due THEN "claim" ELSE "use",
                   build |-> Len(builds)]
  <2>1. h \in Hands(Len(builds), held) /\ h.pc # "resumed"
    BY <1>1 DEF Hands
  <2>2. /\ hand' = [hand EXCEPT ![t] = h] /\ held' = held
        /\ UNCHANGED <<file, builds, since>>
    BY <1>2 DEF Connect, Step
  <2>3. SealedInContext'
    BY <1>1, <2>2 DEF SealedInContext
  <2> HIDE DEF h
  <2> QED  BY <2>1, <2>2, <2>3, HandStep
<1>3. CASE Stat(t)
  <2> DEFINE b == hand[t].build
  <2>1. b \in 1..Len(builds)
    BY <1>1, <1>3, BuildKnown DEF Stat
  <2> HIDE DEF b
  <2> DEFINE h == IF file.body = Broken
                  THEN [pc |-> "install", build |-> b, read |-> NoKey]
                  ELSE [pc |-> "read", build |-> b, age |-> file.age]
  <2>2. h \in Hands(Len(builds), held) /\ h.pc # "resumed"
    BY <1>1, <2>1, KeyFacts DEF Hands, TicketTypes
  <2>3. /\ hand' = [hand EXCEPT ![t] = h] /\ held' = held
        /\ UNCHANGED <<file, builds, since>>
    BY <1>3 DEF Stat, Step, b
  <2>4. SealedInContext'
    BY <1>1, <2>3 DEF SealedInContext
  <2> HIDE DEF h
  <2> QED  BY <2>2, <2>3, <2>4, HandStep
<1>4. CASE Read(t)
  <2> DEFINE b == hand[t].build
             k == IF file.body = Broken THEN NoKey ELSE Derived(file.body, hand[t].age)
  <2>1. b \in 1..Len(builds)
    BY <1>1, <1>4, BuildKnown DEF Read
  <2>2. hand[t].age \in Ages
    BY <1>1, <1>4 DEF Read, TicketTypes, Hands
  <2>3. k \in KeyOpt
    BY <1>1, <2>2, KeyFacts, DerivedKey DEF TicketTypes, KeyOpt
  <2> HIDE DEF b, k
  <2> DEFINE h == [pc |-> "install", build |-> b, read |-> k]
  <2>4. h \in Hands(Len(builds), held) /\ h.pc # "resumed"
    BY <2>1, <2>3 DEF Hands
  <2>5. /\ hand' = [hand EXCEPT ![t] = h] /\ held' = held
        /\ UNCHANGED <<file, builds, since>>
    BY <1>4 DEF Read, Step, b, k
  <2>6. SealedInContext'
    BY <1>1, <2>5 DEF SealedInContext
  <2> HIDE DEF h
  <2> QED  BY <2>4, <2>5, <2>6, HandStep
<1>5. CASE Encrypt(t)
  <2>1. Mine(t).ctx \in Contexts
    BY <1>1, <1>5, BuildKnown DEF Encrypt
  <2>2. /\ hand' = [hand EXCEPT ![t] = Idle]
        /\ held' = held \cup {[key |-> Ticketer(Mine(t).ctx, k), ctx |-> Mine(t).ctx] :
                                k \in Seals(Mine(t))}
        /\ UNCHANGED <<file, builds, since>>
    BY <1>5 DEF Encrypt, Step
  <2>3. SealedInContext'
    BY <1>1, <2>1, <2>2 DEF SealedInContext
  <2>4. Idle \in Hands(Len(builds), held') /\ Idle.pc # "resumed"
    BY DEF Idle, Hands
  <2>5. held \subseteq held'
    BY <2>2
  <2> QED  BY <2>2, <2>3, <2>4, <2>5, HandStep
<1>6. CASE Finish(t)
  <2>1. /\ hand' = [hand EXCEPT ![t] = Idle] /\ held' = held
        /\ UNCHANGED <<file, builds, since>>
    BY <1>6 DEF Finish, Step
  <2>2. Idle \in Hands(Len(builds), held') /\ Idle.pc # "resumed"
    BY DEF Idle, Hands
  <2>3. SealedInContext'
    BY <1>1, <2>1 DEF SealedInContext
  <2> QED  BY <2>1, <2>2, <2>3, HandStep
<1>7. CASE \E ticket \in held : Resume(t, ticket)
  <2>1. PICK ticket \in held : Resume(t, ticket)
    BY <1>7
  <2> DEFINE b == hand[t].build
  <2>2. PICK k \in Opens(Mine(t)) :
          /\ ticket.key = Ticketer(Mine(t).ctx, k)
          /\ hand' = [hand EXCEPT ![t] = [pc |-> "resumed", build |-> b,
                                          ticket |-> ticket, with |-> k]]
    BY <2>1 DEF Resume, Step
  <2>3. b \in 1..Len(builds) /\ Mine(t) \in BuildRec
    BY <1>1, <2>1, BuildKnown DEF Resume
  <2>4. k \in KeyOpt
    BY <2>2, <2>3, KeyFacts DEF Opens, BuildRec
  <2> DEFINE h == [pc |-> "resumed", build |-> b, ticket |-> ticket, with |-> k]
  <2>5. held' = held /\ UNCHANGED <<file, builds, since>>
    BY <2>1 DEF Resume
  <2>6. h \in Hands(Len(builds), held')
    BY <2>3, <2>4, <2>5 DEF Hands
  <2>7. h.ticket.key = Ticketer(builds[h.build].ctx, k)
    BY <2>2 DEF Mine
  <2>8. SealedInContext'
    BY <1>1, <2>5 DEF SealedInContext
  <2>9. hand' = [hand EXCEPT ![t] = h]
    BY <2>2
  <2> HIDE DEF h
  <2> QED  BY <2>5, <2>6, <2>7, <2>8, <2>9, HandStep
<1> QED  BY <1>2, <1>3, <1>4, <1>5, <1>6, <1>7

(* A step that may change builds and hands, but no build's context and no  *)
(* session that has resumed.                                               *)
LEMMA BuildsStep ==
  ASSUME ContextInv, held' = held,
         file' \in [body : Keys \cup {Broken}, age : Ages], since' \in [Keys -> Ages],
         builds' \in Seq(BuildRec), Len(builds) <= Len(builds'),
         \A i \in 1..Len(builds) : builds'[i].ctx = builds[i].ctx,
         hand' \in [Threads -> Hands(Len(builds), held)],
         \A u \in Threads : hand'[u].pc = "resumed" => hand'[u] = hand[u]
  PROVE  ContextInv'
<1>1. TicketTypes /\ Len(builds) \in Nat /\ Len(builds') \in Nat /\ Len(builds') > 0
  BY DEF ContextInv, TicketTypes
<1>2. \A u \in Threads : hand'[u] \in Hands(Len(builds'), held')
  BY <1>1, HandsGrow
<1>3. TicketTypes'
  BY <1>1, <1>2 DEF TicketTypes
<1>4. SealedInContext'
  BY DEF ContextInv, SealedInContext
<1>5. ASSUME NEW u \in Threads, hand'[u].pc = "resumed"
      PROVE  \E k : hand'[u].ticket.key = Ticketer(builds'[hand'[u].build].ctx, k)
  <2>1. hand'[u] = hand[u] /\ hand[u].pc = "resumed"
    BY <1>5
  <2>2. hand[u].build \in 1..Len(builds)
    BY <1>1, <2>1, BuildKnown
  <2>3. PICK k : hand[u].ticket.key = Ticketer(Mine(u).ctx, k)
    BY <2>1 DEF ContextInv, OpenedInContext
  <2>4. builds'[hand'[u].build].ctx = Mine(u).ctx
    BY <2>1, <2>2 DEF Mine
  <2> QED  BY <2>1, <2>3, <2>4
<1>6. OpenedInContext'
  BY <1>5 DEF OpenedInContext, Mine
<1> QED  BY <1>3, <1>4, <1>6 DEF ContextInv

(* A build in the sequence is replaced by another of the same context.     *)
LEMMA ReplacedBuild ==
  ASSUME NEW s \in Seq(BuildRec), NEW i \in 1..Len(s), NEW b \in BuildRec,
         b.ctx = s[i].ctx
  PROVE  LET r == [s EXCEPT ![i] = b]
         IN  /\ r \in Seq(BuildRec) /\ Len(r) = Len(s)
             /\ \A j \in 1..Len(s) : r[j].ctx = s[j].ctx /\ r[j] = IF j = i THEN b ELSE s[j]
  OBVIOUS

LEMMA ContextStart == TicketsInit => ContextInv
<1> SUFFICES ASSUME TicketsInit PROVE ContextInv
  OBVIOUS
<1>1. PICK ctx \in Contexts : builds = <<Built(ctx)>>
  BY DEF TicketsInit
<1>2. file.body \in Keys /\ file.age \in Ages /\ 0 \in Ages /\ MaxAge + 1 \in Ages
      /\ file \in [body : Keys \cup {Broken}, age : Ages]
  BY AgeFacts DEF TicketsInit, Ages
<1>3. Built(ctx) \in BuildRec
  <2>1. Derived(file.body, file.age) \in KeyRec
    BY <1>2, DerivedKey
  <2> QED  BY <2>1, KeyFacts, ContextsAssumption DEF Built, BuildRec, KeyOpt
<1>4. builds \in Seq(BuildRec) /\ Len(builds) > 0
  BY <1>1, <1>3
<1>5. Idle \in Hands(Len(builds), held) /\ Idle.pc = "idle"
  BY DEF Idle, Hands
<1>6. TicketTypes
  BY <1>2, <1>4, <1>5 DEF TicketTypes, TicketsInit
<1>7. SealedInContext /\ OpenedInContext
  BY <1>5 DEF TicketsInit, SealedInContext, OpenedInContext
<1> QED  BY <1>6, <1>7 DEF ContextInv

LEMMA ClaimKeepsContext ==
  ASSUME ContextInv, NEW t \in Threads, Claim(t)
  PROVE  ContextInv'
<1>1. TicketTypes /\ hand[t].pc = "claim"
  BY DEF ContextInv, Claim
<1>2. hand[t].build \in 1..Len(builds) /\ Mine(t) \in BuildRec
  BY <1>1, BuildKnown
<1> DEFINE b == [builds[hand[t].build] EXCEPT !.due = FALSE]
<1>3. b \in BuildRec /\ b.ctx = builds[hand[t].build].ctx
  BY <1>2 DEF BuildRec, Mine
<1>4. builds' = [builds EXCEPT ![hand[t].build] = b]
  BY DEF Claim
<1>5. ASSUME NEW u \in Threads, hand[u].pc = "claim", NEW p \in {"stat", "use"}
      PROVE  [hand[u] EXCEPT !.pc = p] \in Hands(Len(builds), held)
  <2>1. hand[u] \in [pc : {"claim", "stat", "use"}, build : 1..Len(builds)]
    BY <1>1, <1>5 DEF TicketTypes, Hands
  <2>2. [hand[u] EXCEPT !.pc = p] \in [pc : {"claim", "stat", "use"}, build : 1..Len(builds)]
    BY <2>1
  <2> QED  BY <2>2 DEF Hands
<1>6. ASSUME NEW u \in Threads, hand[u].pc = "claim", NEW p \in {"stat", "use"}
      PROVE  [hand[u] EXCEPT !.pc = p].pc # "resumed"
  <2>1. hand[u] \in [pc : {"claim", "stat", "use"}, build : 1..Len(builds)]
    BY <1>1, <1>6 DEF TicketTypes, Hands
  <2> QED  BY <2>1
<1>7. hand' \in [Threads -> Hands(Len(builds), held)]
  BY <1>1, <1>5 DEF Claim, TicketTypes
<1>8. \A u \in Threads : hand'[u].pc = "resumed" => hand'[u] = hand[u]
  BY <1>1, <1>6 DEF Claim
<1>9. builds \in Seq(BuildRec) /\ Len(builds) \in Nat
  BY <1>1 DEF TicketTypes
<1> HIDE DEF b
<1>10. /\ builds' \in Seq(BuildRec) /\ Len(builds') = Len(builds)
       /\ \A i \in 1..Len(builds) : builds'[i].ctx = builds[i].ctx
  BY <1>2, <1>3, <1>4, <1>9, ReplacedBuild
<1>11. held' = held /\ file' = file /\ since' = since
  BY DEF Claim
<1> QED  BY <1>1, <1>7, <1>8, <1>9, <1>10, <1>11, BuildsStep DEF TicketTypes

LEMMA InstallKeepsContext ==
  ASSUME ContextInv, NEW t \in Threads, Install(t)
  PROVE  ContextInv'
<1>1. TicketTypes /\ hand[t].pc = "install"
  BY DEF ContextInv, Install
<1>2. hand[t].build \in 1..Len(builds) /\ Mine(t) \in BuildRec
  BY <1>1, BuildKnown
<1>3. hand[t].read \in KeyOpt
  BY <1>1 DEF TicketTypes, Hands
<1> DEFINE b == Installed(builds[hand[t].build], hand[t].read)
           h == [pc |-> "use", build |-> hand[t].build]
<1>4. b \in BuildRec /\ b.ctx = builds[hand[t].build].ctx
  BY <1>2, <1>3, InstalledBuild DEF Mine
<1>5. builds' = [builds EXCEPT ![hand[t].build] = b] /\ hand' = [hand EXCEPT ![t] = h]
  BY DEF Install, Step
<1>6. h \in Hands(Len(builds), held) /\ h.pc # "resumed"
  BY <1>2 DEF Hands
<1>7. held' = held /\ file' = file /\ since' = since
  BY DEF Install
<1>8. builds \in Seq(BuildRec) /\ Len(builds) \in Nat
  BY <1>1 DEF TicketTypes
<1> HIDE DEF b, h
<1>9. hand' \in [Threads -> Hands(Len(builds), held)]
      /\ \A u \in Threads : hand'[u].pc = "resumed" => hand'[u] = hand[u]
  BY <1>1, <1>5, <1>6 DEF TicketTypes
<1>10. /\ builds' \in Seq(BuildRec) /\ Len(builds') = Len(builds)
       /\ \A i \in 1..Len(builds) : builds'[i].ctx = builds[i].ctx
  BY <1>2, <1>4, <1>5, <1>8, ReplacedBuild
<1> QED  BY <1>1, <1>7, <1>8, <1>9, <1>10, BuildsStep DEF TicketTypes

LEMMA OutsideKeepsContext ==
  ASSUME ContextInv,
         \/ \E body \in Keys \cup {Broken} : Write(body)
         \/ \E ctx \in Contexts : Rebuild(ctx)
  PROVE  ContextInv'
<1>1. TicketTypes /\ builds \in Seq(BuildRec) /\ Len(builds) \in Nat
  BY DEF ContextInv, TicketTypes
<1>2. ASSUME NEW body \in Keys \cup {Broken}, Write(body)
      PROVE  ContextInv'
  <2>1. 0 \in Ages
    BY AgeFacts DEF Ages
  <2>2. file' \in [body : Keys \cup {Broken}, age : Ages]
    BY <1>2, <2>1 DEF Write
  <2>3. since' \in [Keys -> Ages]
    BY <1>1, <1>2, <2>1 DEF Write, TicketTypes
  <2>4. held' = held /\ builds' = builds /\ hand' = hand
    BY <1>2 DEF Write
  <2> QED  BY <1>1, <2>2, <2>3, <2>4, BuildsStep DEF TicketTypes
<1>3. ASSUME NEW ctx \in Contexts, Rebuild(ctx)
      PROVE  ContextInv'
  <2> DEFINE b == Built(ctx)
  <2>1. b \in BuildRec
    BY <1>1, <1>3, BuiltBuild DEF Rebuild
  <2>2. builds' = Append(builds, b) /\ UNCHANGED <<file, hand, held, since>>
    BY <1>3 DEF Rebuild
  <2> HIDE DEF b
  <2>3. /\ builds' \in Seq(BuildRec) /\ Len(builds) <= Len(builds')
        /\ \A i \in 1..Len(builds) : builds'[i].ctx = builds[i].ctx
    BY <1>1, <2>1, <2>2
  <2> QED  BY <1>1, <2>2, <2>3, BuildsStep DEF TicketTypes
<1> QED  BY <1>2, <1>3

LEMMA TickKeepsContext ==
  ASSUME ContextInv, Tick
  PROVE  ContextInv'
<1>1. TicketTypes /\ builds \in Seq(BuildRec) /\ Len(builds) \in Nat
      /\ DOMAIN builds = 1..Len(builds)
  BY DEF ContextInv, TicketTypes
<1>2. file' \in [body : Keys \cup {Broken}, age : Ages] /\ since' \in [Keys -> Ages]
  BY <1>1, AgeFacts DEF Tick, TicketTypes
<1>3. ASSUME NEW i \in 1..Len(builds)
      PROVE  builds'[i] \in BuildRec /\ builds'[i].ctx = builds[i].ctx
  <2>1. builds[i] \in BuildRec /\ builds[i].ctx.stek \in BOOLEAN
    <3>1. builds[i] \in BuildRec
      BY <1>1
    <3>2. builds[i].ctx \in Contexts
      BY <3>1 DEF BuildRec
    <3> QED  BY <3>1, <3>2, ContextsAssumption
  <2>2. builds'[i] = [builds[i] EXCEPT !.current = Aged(builds[i].current),
                                       !.previous = Aged(builds[i].previous),
                                       !.due = builds[i].ctx.stek]
    BY <1>1 DEF Tick
  <2>3. Aged(builds[i].current) \in KeyOpt /\ Aged(builds[i].previous) \in KeyOpt
    BY <2>1, AgedKey DEF BuildRec
  <2> QED  BY <2>1, <2>2, <2>3 DEF BuildRec
<1>4. builds' \in Seq(BuildRec) /\ Len(builds') = Len(builds)
  <2>1. builds' \in [1..Len(builds) -> BuildRec]
    BY <1>1, <1>3 DEF Tick
  <2> QED  BY <1>1, <2>1
<1>5. ASSUME NEW u \in Threads
      PROVE  /\ hand'[u] \in Hands(Len(builds), held)
             /\ hand'[u].pc = "resumed" => hand'[u] = hand[u]
  <2>1. CASE hand[u].pc = "read"
    <3>1. hand[u] \in [pc : {"read"}, build : 1..Len(builds), age : Ages]
      BY <1>1, <2>1 DEF TicketTypes, Hands
    <3>2. hand'[u] = [hand[u] EXCEPT !.age = Older(hand[u].age)]
      BY <2>1 DEF Tick
    <3>3. hand'[u] \in [pc : {"read"}, build : 1..Len(builds), age : Ages]
      BY <3>1, <3>2, AgeFacts
    <3> QED  BY <3>3 DEF Hands
  <2>2. CASE hand[u].pc = "install"
    <3>1. hand[u] \in [pc : {"install"}, build : 1..Len(builds), read : KeyOpt]
      BY <1>1, <2>2 DEF TicketTypes, Hands
    <3>2. hand'[u] = [hand[u] EXCEPT !.read = Aged(hand[u].read)]
      BY <2>2 DEF Tick
    <3>3. hand'[u] \in [pc : {"install"}, build : 1..Len(builds), read : KeyOpt]
      BY <3>1, <3>2, AgedKey
    <3> QED  BY <3>3 DEF Hands
  <2>3. CASE hand[u].pc # "read" /\ hand[u].pc # "install"
    BY <1>1, <2>3 DEF Tick, TicketTypes
  <2> QED  BY <2>1, <2>2, <2>3
<1>6. hand' \in [Threads -> Hands(Len(builds), held)]
  BY <1>5 DEF Tick
<1>7. held' = held
  BY DEF Tick
<1> QED  BY <1>1, <1>2, <1>3, <1>4, <1>5, <1>6, <1>7, BuildsStep

LEMMA ContextStep == ContextInv /\ [TicketsNext]_ticketVars => ContextInv'
<1> SUFFICES ASSUME ContextInv, [TicketsNext]_ticketVars PROVE ContextInv'
  OBVIOUS
<1>1. ASSUME NEW t \in Threads, Handshake(t) PROVE ContextInv'
  BY <1>1, LocalSteps, ClaimKeepsContext, InstallKeepsContext DEF Handshake
<1>2. CASE Tick
  BY <1>2, TickKeepsContext
<1>3. CASE UNCHANGED ticketVars
  BY <1>3 DEF ticketVars, ContextInv, TicketTypes, SealedInContext, OpenedInContext, Mine
<1> QED  BY <1>1, <1>2, <1>3, OutsideKeepsContext DEF TicketsNext

(* One key, one context: the producers' keys never meet.                   *)
LEMMA OneKeyOneContext ==
  ASSUME NEW c \in Contexts, NEW d \in Contexts, NEW j, NEW k,
         Ticketer(c, j) = Ticketer(d, k)
  PROVE  c.ca = d.ca /\ c.stek = d.stek /\ (d.stek => c.certs = d.certs)
<1>1. /\ c.stek \in BOOLEAN /\ (c.stek => c.ca = NoKey)
      /\ d.stek \in BOOLEAN /\ (d.stek => d.ca = NoKey)
  BY ContextsAssumption
<1>2. CASE c.stek /\ d.stek
  BY <1>1, <1>2 DEF Ticketer, BoundTo
<1>3. CASE c.stek # d.stek
  <2>1. \A x, y, z, w : <<"stek", x, y>> # <<"ca", z>> /\ <<"stek", x, y>> # <<"node">>
    OBVIOUS
  <2> QED  BY <1>1, <1>3, <2>1 DEF Ticketer, BoundTo
<1>4. CASE ~c.stek /\ ~d.stek
  BY <1>1, <1>4 DEF Ticketer
<1> QED  BY <1>1, <1>2, <1>3, <1>4

(* A session resumes only under the client CA it was made under and, with  *)
(* a shared key file, only under the same certificates.                    *)
THEOREM TicketsStayInContext == TicketsSpec => []ResumesInContext
<1>1. ContextInv => ResumesInContext
  <2> SUFFICES ASSUME ContextInv, NEW t \in Threads, hand[t].pc = "resumed"
               PROVE  LET made == hand[t].ticket.ctx
                          here == Mine(t).ctx
                      IN  /\ made.ca = here.ca /\ made.stek = here.stek
                          /\ here.stek => made.certs = here.certs
    BY DEF ResumesInContext
  <2>1. hand[t].ticket \in held
    BY DEF ContextInv, TicketTypes, Hands
  <2>2. PICK j : hand[t].ticket.key = Ticketer(hand[t].ticket.ctx, j)
    BY <2>1 DEF ContextInv, SealedInContext
  <2>3. PICK k : hand[t].ticket.key = Ticketer(Mine(t).ctx, k)
    BY DEF ContextInv, OpenedInContext
  <2>4. hand[t].ticket.ctx \in Contexts /\ Mine(t).ctx \in Contexts
    BY <2>1, BuildKnown DEF ContextInv, SealedInContext
  <2> DEFINE made == hand[t].ticket.ctx
             here == Mine(t).ctx
  <2>5. Ticketer(made, j) = Ticketer(here, k) /\ made \in Contexts /\ here \in Contexts
    BY <2>2, <2>3, <2>4
  <2> HIDE DEF made, here
  <2>6. made.ca = here.ca /\ made.stek = here.stek /\ (here.stek => made.certs = here.certs)
    BY <2>5, OneKeyOneContext
  <2> QED  BY <2>6 DEF made, here
<1> QED  BY <1>1, ContextStart, ContextStep, PTL DEF TicketsSpec

(* Every copy of a key counts its age from the write that last made it, or *)
(* from an earlier one: a copy never looks younger than its file.          *)
Dated(k) == k # NoKey => since[k.body] <= k.age
AgesInv ==
  /\ file.body \in Keys => since[file.body] <= file.age
  /\ \A i \in 1..Len(builds) : Dated(builds[i].current) /\ Dated(builds[i].previous)
  /\ \A t \in Threads : hand[t].pc = "read" /\ file.body \in Keys =>
       since[file.body] <= hand[t].age
  /\ \A t \in Threads : hand[t].pc = "install" => Dated(hand[t].read)

LEMMA BuildKeys ==
  ASSUME TicketTypes, NEW i \in 1..Len(builds)
  PROVE  builds[i].current \in KeyOpt /\ builds[i].previous \in KeyOpt
<1>1. builds[i] \in BuildRec
  BY DEF TicketTypes
<1> QED  BY <1>1 DEF BuildRec

(* The builds and the ages stay, and only t's handshake moves on.          *)
LEMMA HandKeepsAges ==
  ASSUME TicketTypes, AgesInv, NEW t \in Threads, NEW h,
         hand' = [hand EXCEPT ![t] = h], UNCHANGED <<file, builds, since>>,
         h.pc = "read" /\ file.body \in Keys => since[file.body] <= h.age,
         h.pc = "install" => Dated(h.read)
  PROVE  AgesInv'
  BY DEF AgesInv, TicketTypes, Dated

LEMMA LocalAges ==
  ASSUME TicketTypes, AgesInv, NEW t \in Threads,
         \/ Connect(t) \/ Stat(t) \/ Read(t) \/ Encrypt(t) \/ Finish(t)
         \/ \E ticket \in held : Resume(t, ticket)
  PROVE  AgesInv'
<1>1. CASE Connect(t)
  <2> DEFINE h == [pc |-> IF builds[Len(builds)].due THEN "claim" ELSE "use",
                   build |-> Len(builds)]
  <2>1. h.pc # "read" /\ h.pc # "install"
    OBVIOUS
  <2>2. hand' = [hand EXCEPT ![t] = h] /\ UNCHANGED <<file, builds, since>>
    BY <1>1 DEF Connect, Step
  <2> HIDE DEF h
  <2> QED  BY <2>1, <2>2, HandKeepsAges
<1>2. CASE Stat(t)
  <2> DEFINE h == IF file.body = Broken
                  THEN [pc |-> "install", build |-> hand[t].build, read |-> NoKey]
                  ELSE [pc |-> "read", build |-> hand[t].build, age |-> file.age]
  <2>1. /\ h.pc = "read" /\ file.body \in Keys => since[file.body] <= h.age
        /\ h.pc = "install" => Dated(h.read)
    BY DEF AgesInv, Dated
  <2>2. hand' = [hand EXCEPT ![t] = h] /\ UNCHANGED <<file, builds, since>>
    BY <1>2 DEF Stat, Step
  <2> HIDE DEF h
  <2> QED  BY <2>1, <2>2, HandKeepsAges
<1>3. CASE Read(t)
  <2> DEFINE k == IF file.body = Broken THEN NoKey ELSE Derived(file.body, hand[t].age)
             h == [pc |-> "install", build |-> hand[t].build, read |-> k]
  <2>1. Dated(k)
    <3>1. file.body # Broken => file.body \in Keys
      BY DEF TicketTypes
    <3> QED  BY <1>3, <3>1 DEF AgesInv, Dated, Derived, Read
  <2>2. h.pc = "install" /\ h.read = k
    OBVIOUS
  <2>3. hand' = [hand EXCEPT ![t] = h] /\ UNCHANGED <<file, builds, since>>
    BY <1>3 DEF Read, Step
  <2> HIDE DEF h, k
  <2> QED  BY <2>1, <2>2, <2>3, HandKeepsAges
<1>4. CASE Encrypt(t) \/ Finish(t)
  <2>1. hand' = [hand EXCEPT ![t] = Idle] /\ UNCHANGED <<file, builds, since>>
    BY <1>4 DEF Encrypt, Finish, Step
  <2>2. Idle.pc = "idle"
    BY DEF Idle
  <2> QED  BY <2>1, <2>2, HandKeepsAges
<1>5. CASE \E ticket \in held : Resume(t, ticket)
  <2>0. PICK ticket \in held : Resume(t, ticket)
    BY <1>5
  <2>1. PICK k : hand' = [hand EXCEPT ![t] =
          [pc |-> "resumed", build |-> hand[t].build, ticket |-> ticket, with |-> k]]
    BY <2>0 DEF Resume, Step
  <2> DEFINE h == [pc |-> "resumed", build |-> hand[t].build, ticket |-> ticket, with |-> k]
  <2>2. h.pc = "resumed" /\ hand' = [hand EXCEPT ![t] = h] /\ UNCHANGED <<file, builds, since>>
    BY <1>5, <2>1 DEF Resume
  <2> HIDE DEF h
  <2> QED  BY <2>2, HandKeepsAges
<1> QED  BY <1>1, <1>2, <1>3, <1>4, <1>5

LEMMA ClaimAges ==
  ASSUME TicketTypes, AgesInv, NEW t \in Threads, Claim(t)
  PROVE  AgesInv'
<1>1. hand[t].build \in 1..Len(builds) /\ builds \in Seq(BuildRec)
  BY BuildKnown DEF TicketTypes, Claim
<1>2. /\ Len(builds') = Len(builds)
      /\ \A i \in 1..Len(builds) : /\ builds'[i].current = builds[i].current
                                   /\ builds'[i].previous = builds[i].previous
  <2>1. \A i \in 1..Len(builds) : builds[i] \in BuildRec
    BY <1>1
  <2>2. builds' = [builds EXCEPT ![hand[t].build].due = FALSE]
    BY DEF Claim
  <2>3. Len(builds') = Len(builds)
    BY <1>1, <2>2
  <2> QED  BY <1>1, <2>1, <2>2, <2>3 DEF BuildRec
<1>3. ASSUME NEW u \in Threads, hand'[u].pc \in {"read", "install"}
      PROVE  hand'[u] = hand[u]
  <2>1. ASSUME hand[u].pc = "claim", NEW p \in {"stat", "use"},
               hand'[u] = [hand[u] EXCEPT !.pc = p]
        PROVE  FALSE
    <3>1. hand[u] \in [pc : {"claim", "stat", "use"}, build : 1..Len(builds)]
      BY <2>1 DEF TicketTypes, Hands
    <3> QED  BY <1>3, <2>1, <3>1
  <2> QED  BY <2>1 DEF Claim
<1>4. UNCHANGED <<file, since>>
  BY DEF Claim
<1> QED  BY <1>2, <1>3, <1>4 DEF AgesInv, Dated

LEMMA InstallAges ==
  ASSUME TicketTypes, AgesInv, NEW t \in Threads, Install(t)
  PROVE  AgesInv'
<1>1. /\ hand[t].pc = "install" /\ hand[t].build \in 1..Len(builds)
      /\ builds \in Seq(BuildRec) /\ Mine(t) \in BuildRec
  BY BuildKnown DEF TicketTypes, Install
<1> DEFINE old == Mine(t)
           read == hand[t].read
           new == Installed(old, read)
<1>2. Dated(old.current) /\ Dated(old.previous) /\ Dated(read) /\ read \in KeyOpt
  BY <1>1 DEF AgesInv, Mine, TicketTypes, Hands
<1>3. Dated(new.current) /\ Dated(new.previous)
  <2>1. old \in BuildRec
    BY <1>1
  <2> HIDE DEF old, read
  <2>2. CASE read = NoKey \/ old.current = NoKey \/ old.current.body # read.body
    BY <1>2, <2>1, <2>2 DEF Installed, BuildRec, Dated
  <2>3. CASE read # NoKey /\ old.current # NoKey /\ old.current.body = read.body
    <3>1. old.current \in KeyRec /\ read \in KeyRec
      BY <1>2, <2>1, <2>3, KeyFacts DEF BuildRec
    <3> DEFINE k == [old.current EXCEPT !.age = read.age]
    <3>2. k.body = read.body /\ k.age = read.age
      BY <2>3, <3>1 DEF KeyRec
    <3>3. new = [old EXCEPT !.current = k]
      BY <2>3 DEF Installed
    <3> HIDE DEF k, new
    <3>4. new.current = k /\ new.previous = old.previous
      BY <2>1, <3>3 DEF BuildRec
    <3> QED  BY <1>2, <2>3, <3>2, <3>4 DEF Dated
  <2> QED  BY <2>2, <2>3
<1>4. builds' = [builds EXCEPT ![hand[t].build] = new]
      /\ hand' = [hand EXCEPT ![t] = [pc |-> "use", build |-> hand[t].build]]
      /\ UNCHANGED <<file, since>>
  BY DEF Install, Step, Mine
<1> HIDE DEF new
<1>5. Len(builds') = Len(builds)
      /\ \A i \in 1..Len(builds) : builds'[i] = IF i = hand[t].build THEN new ELSE builds[i]
  BY <1>1, <1>4
<1>6. \A i \in 1..Len(builds') : Dated(builds'[i].current) /\ Dated(builds'[i].previous)
  BY <1>3, <1>5 DEF AgesInv
<1>7. \A u \in Threads : hand'[u].pc \in {"read", "install"} => hand'[u] = hand[u]
  BY <1>4 DEF TicketTypes
<1> QED  BY <1>4, <1>6, <1>7 DEF AgesInv, Dated

(* A write makes its key new again: no copy of it can look younger.        *)
LEMMA WriteAges ==
  ASSUME TicketTypes, AgesInv, NEW body \in Keys \cup {Broken}, Write(body)
  PROVE  AgesInv'
<1>1. /\ since \in [Keys -> Ages] /\ since' \in [Keys -> Ages] /\ Ages \subseteq Nat
      /\ \A k \in Keys : since'[k] <= since[k]
  BY KeyFacts, AgeFacts DEF TicketTypes, Write, Ages
<1>2. file'.body = body /\ (body \in Keys => since'[body] = 0) /\ file'.age = 0
  BY KeyFacts DEF Write, TicketTypes
<1>3. ASSUME NEW k \in KeyOpt, Dated(k) PROVE Dated(k)'
  <2>1. CASE k = NoKey
    BY <2>1 DEF Dated
  <2>2. CASE k # NoKey
    <3>1. k.body \in Keys /\ k.age \in Ages
      BY <2>2, KeyFacts DEF KeyRec
    <3>2. since[k.body] <= k.age /\ since'[k.body] <= since[k.body]
      BY <1>1, <1>3, <2>2, <3>1 DEF Dated
    <3>3. since'[k.body] \in Nat /\ since[k.body] \in Nat /\ k.age \in Nat
      BY <1>1, <3>1
    <3>4. since'[k.body] <= k.age
      BY <3>2, <3>3
    <3> QED  BY <3>4 DEF Dated
  <2> QED  BY <2>1, <2>2
<1>4. builds' = builds /\ hand' = hand
  BY DEF Write
<1>5. ASSUME NEW i \in 1..Len(builds)
      PROVE  (Dated(builds[i].current) /\ Dated(builds[i].previous))'
  <2>1. builds[i].current \in KeyOpt /\ builds[i].previous \in KeyOpt
    BY BuildKeys
  <2>2. Dated(builds[i].current) /\ Dated(builds[i].previous)
    BY DEF AgesInv
  <2> QED  BY <1>3, <1>4, <2>1, <2>2
<1>6. ASSUME NEW u \in Threads, hand[u].pc = "read", body \in Keys
      PROVE  since'[body] <= hand[u].age
  <2>1. hand[u].age \in Ages
    BY <1>6 DEF TicketTypes, Hands
  <2>2. hand[u].age \in Nat
    BY <1>1, <2>1
  <2> QED  BY <1>2, <1>6, <2>2
<1>7. ASSUME NEW u \in Threads, hand[u].pc = "install"
      PROVE  Dated(hand[u].read)'
  <2>1. hand[u].read \in KeyOpt /\ Dated(hand[u].read)
    BY <1>7 DEF TicketTypes, Hands, AgesInv
  <2> QED  BY <1>3, <1>4, <2>1
<1> QED  BY <1>2, <1>4, <1>5, <1>6, <1>7 DEF AgesInv

LEMMA RebuildAges ==
  ASSUME TicketTypes, AgesInv, NEW ctx \in Contexts, Rebuild(ctx)
  PROVE  AgesInv'
<1> DEFINE b == Built(ctx)
<1>1. b.previous = NoKey /\ (ctx.stek => file.body \in Keys)
      /\ b.current = IF ctx.stek THEN Derived(file.body, file.age) ELSE NoKey
  BY DEF Built, Rebuild, Buildable, TicketTypes
<1>2. Dated(b.current) /\ Dated(b.previous)
  BY <1>1 DEF Dated, Derived, AgesInv
<1>3. builds' = Append(builds, b) /\ UNCHANGED <<file, hand, since>>
  BY DEF Rebuild
<1> HIDE DEF b
<1>4. builds \in Seq(BuildRec)
  BY DEF TicketTypes
<1>5. Len(builds') = Len(builds) + 1 /\ Len(builds) \in Nat /\ builds'[Len(builds) + 1] = b
      /\ \A i \in 1..Len(builds) : builds'[i] = builds[i]
  BY <1>3, <1>4
<1>6. \A i \in 1..Len(builds') : i \in 1..Len(builds) \/ i = Len(builds) + 1
  BY <1>5
<1>7. \A i \in 1..Len(builds') : Dated(builds'[i].current) /\ Dated(builds'[i].previous)
  BY <1>2, <1>5, <1>6 DEF AgesInv
<1> QED  BY <1>3, <1>7 DEF AgesInv, Dated

(* The clock ages every copy and its write alike.                          *)
LEMMA TickAges ==
  ASSUME TicketTypes, AgesInv, Tick
  PROVE  AgesInv'
<1>1. /\ since \in [Keys -> Ages] /\ since' = [k \in Keys |-> Older(since[k])]
      /\ file' = [file EXCEPT !.age = Older(file.age)]
      /\ file \in [body : Keys \cup {Broken}, age : Ages]
  BY DEF TicketTypes, Tick
<1>2. file'.body \in Keys => since'[file'.body] <= file'.age
  BY <1>1, AgeFacts DEF AgesInv
<1>3. ASSUME NEW k \in KeyOpt, Dated(k)
      PROVE  Aged(k) # NoKey => since'[Aged(k).body] <= Aged(k).age
  <2>1. CASE k = NoKey
    BY <2>1 DEF Aged
  <2>2. CASE k # NoKey
    <3>1. k \in KeyRec /\ Aged(k) = [k EXCEPT !.age = Older(k.age)]
      BY <2>2, KeyFacts DEF Aged
    <3>2. k.body \in Keys /\ k.age \in Ages /\ Aged(k).body = k.body /\ Aged(k).age = Older(k.age)
      BY <3>1 DEF KeyRec
    <3>3. since[k.body] <= k.age /\ since[k.body] \in Ages
      BY <1>1, <1>3, <2>2, <3>2 DEF Dated
    <3>4. Older(since[k.body]) <= Older(k.age)
      BY <3>2, <3>3, AgeFacts
    <3> QED  BY <1>1, <3>2, <3>4
  <2> QED  BY <2>1, <2>2
<1>4. builds \in Seq(BuildRec) /\ Len(builds) \in Nat /\ DOMAIN builds = 1..Len(builds)
  BY DEF TicketTypes
<1>5. DOMAIN builds' = 1..Len(builds)
  BY <1>4 DEF Tick
<1>6. Len(builds') = Len(builds)
  <2>1. builds' \in Seq({builds'[i] : i \in 1..Len(builds)})
    <3>1. builds' \in [1..Len(builds) -> {builds'[i] : i \in 1..Len(builds)}]
      BY <1>4 DEF Tick
    <3> QED  BY <1>4, <3>1
  <2> QED  BY <1>4, <1>5, <2>1
<1>7. ASSUME NEW i \in 1..Len(builds)
      PROVE  /\ builds'[i].current = Aged(builds[i].current)
             /\ builds'[i].previous = Aged(builds[i].previous)
  <2>1. builds[i] \in BuildRec
    BY <1>4
  <2>2. builds'[i] = [builds[i] EXCEPT !.current = Aged(builds[i].current),
                                       !.previous = Aged(builds[i].previous),
                                       !.due = builds[i].ctx.stek]
    BY <1>4 DEF Tick
  <2> QED  BY <2>1, <2>2 DEF BuildRec
<1>8. ASSUME NEW i \in 1..Len(builds)
      PROVE  (Dated(builds[i].current) /\ Dated(builds[i].previous))'
  <2>1. builds[i].current \in KeyOpt /\ builds[i].previous \in KeyOpt
    BY BuildKeys
  <2>2. Dated(builds[i].current) /\ Dated(builds[i].previous)
    BY DEF AgesInv
  <2> QED  BY <1>3, <1>7, <2>1, <2>2 DEF Dated
<1>9. ASSUME NEW u \in Threads, hand'[u].pc = "read", file'.body \in Keys
      PROVE  since'[file'.body] <= hand'[u].age
  <2>1. hand[u].pc = "read" /\ hand[u] \in [pc : {"read"}, build : 1..Len(builds), age : Ages]
        /\ hand'[u] = [hand[u] EXCEPT !.age = Older(hand[u].age)]
    BY <1>9 DEF TicketTypes, Hands, Tick
  <2>2. hand'[u].age = Older(hand[u].age) /\ hand[u].age \in Ages
    BY <2>1
  <2>3. file'.body = file.body /\ since[file.body] \in Ages
    BY <1>1, <1>9
  <2>4. since[file.body] <= hand[u].age
    BY <1>9, <2>1, <2>3 DEF AgesInv
  <2> QED  BY <1>1, <1>9, <2>2, <2>3, <2>4, AgeFacts
<1>10. ASSUME NEW u \in Threads, hand'[u].pc = "install"
       PROVE  hand'[u].read # NoKey => since'[hand'[u].read.body] <= hand'[u].read.age
  <2>1. hand[u].pc = "install" /\ hand[u] \in [pc : {"install"}, build : 1..Len(builds), read : KeyOpt]
        /\ hand'[u] = [hand[u] EXCEPT !.read = Aged(hand[u].read)]
    BY <1>10 DEF TicketTypes, Hands, Tick
  <2>2. hand'[u].read = Aged(hand[u].read) /\ hand[u].read \in KeyOpt /\ Dated(hand[u].read)
    BY <2>1 DEF AgesInv
  <2> QED  BY <1>3, <2>2
<1> QED  BY <1>2, <1>6, <1>8, <1>9, <1>10 DEF AgesInv, Dated

LEMMA AgesStart == TicketsInit => AgesInv
<1> SUFFICES ASSUME TicketsInit PROVE AgesInv
  OBVIOUS
<1>1. file.body \in Keys /\ file.age = 0 /\ since[file.body] = 0
  BY DEF TicketsInit
<1>2. PICK ctx \in Contexts : builds = <<Built(ctx)>>
  BY DEF TicketsInit
<1>3. Dated(Built(ctx).current) /\ Dated(Built(ctx).previous)
  BY <1>1, <1>2 DEF Dated, Built, Derived
<1>4. \A i \in 1..Len(builds) : builds[i] = Built(ctx)
  BY <1>2
<1>5. \A t \in Threads : hand[t].pc = "idle"
  BY DEF TicketsInit, Idle
<1> QED  BY <1>1, <1>3, <1>4, <1>5 DEF AgesInv

LEMMA AgesStep == ContextInv /\ AgesInv /\ [TicketsNext]_ticketVars => AgesInv'
<1> SUFFICES ASSUME TicketTypes, AgesInv, [TicketsNext]_ticketVars PROVE AgesInv'
  BY DEF ContextInv
<1>1. ASSUME NEW t \in Threads, Handshake(t) PROVE AgesInv'
  BY <1>1, LocalAges, ClaimAges, InstallAges DEF Handshake
<1>2. CASE UNCHANGED ticketVars
  BY <1>2 DEF ticketVars, AgesInv, Dated
<1> QED  BY <1>1, <1>2, WriteAges, RebuildAges, TickAges DEF TicketsNext

(* No ticket is opened with a key whose file is older than max_age_hours:  *)
(* not by a thread that read the file before a rotation, nor one whose     *)
(* result lands after another's.                                           *)
THEOREM ExpiredKeysStayDead == TicketsSpec => ExpiredKeysAreDead
<1> DEFINE Opened == \A t \in Threads :
             hand[t].pc = "use" /\ hand'[t].pc = "resumed" /\ hand'[t].with # NoKey =>
               since[hand'[t].with.body] <= MaxAge
<1>1. ContextInv /\ AgesInv /\ [TicketsNext]_ticketVars => [Opened]_ticketVars
  <2> SUFFICES ASSUME TicketTypes, AgesInv, TicketsNext, NEW t \in Threads,
                      hand[t].pc = "use", hand'[t].pc = "resumed", hand'[t].with # NoKey
               PROVE  since[hand'[t].with.body] <= MaxAge
    BY DEF ContextInv
  <2>1. hand'[t] # hand[t]
    OBVIOUS
  <2>2. PICK ticket \in held : Resume(t, ticket)
    <3>1. \A u \in Threads : \A h : Step(u, h) /\ u # t => hand'[t] = hand[t]
      BY DEF Step, TicketTypes
    <3>2. \A h : Step(t, h) => hand'[t] = h
      BY DEF Step, TicketTypes
    <3>3. ASSUME NEW u \in Threads, Handshake(u), u # t PROVE FALSE
      <4>1. ~Claim(u)
        BY <2>1, <3>3 DEF Claim
      <4> QED  BY <2>1, <3>1, <3>3, <4>1
               DEF Handshake, Connect, Stat, Read, Install, Encrypt, Resume, Finish
    <3>4. Handshake(t)
      BY <2>1, <3>3 DEF TicketsNext, Write, Rebuild, Tick
    <3>5. ~Encrypt(t)
      BY <3>2 DEF Encrypt, Idle
    <3> QED  BY <3>4, <3>5 DEF Handshake, Connect, Claim, Stat, Read, Install, Finish
  <2>3. PICK k \in Opens(Mine(t)) : hand'[t] = [pc |-> "resumed", build |-> hand[t].build,
                                                ticket |-> ticket, with |-> k]
    BY <2>2 DEF Resume, Step, TicketTypes
  <2>4. k # NoKey /\ hand'[t].with = k
    BY <2>3
  <2>5. hand[t].build \in 1..Len(builds)
    BY BuildKnown
  <2>6. FreshKeys(k) /\ Dated(k) /\ k \in KeyOpt
    BY <2>3, <2>4, <2>5, BuildKeys DEF Opens, Mine, AgesInv
  <2>7. k.body \in Keys /\ k.age \in Ages
    BY <2>4, <2>6, KeyFacts DEF KeyRec
  <2>8. since[k.body] <= k.age /\ k.age <= MaxAge
    BY <2>4, <2>6 DEF FreshKeys, Dated
  <2>9. since[k.body] \in Ages
    BY <2>7 DEF TicketTypes
  <2> QED  BY <2>4, <2>7, <2>8, <2>9, AgeFacts DEF Ages
<1>2. TicketsSpec => [](ContextInv /\ AgesInv)
  BY ContextStart, ContextStep, AgesStart, AgesStep, PTL DEF TicketsSpec
<1> QED  BY <1>1, <1>2, PTL DEF TicketsSpec, ExpiredKeysAreDead

-----------------------------------------------------------------------------
(* Hot reload.                                                             *)

(* The gate serialises reloads: whoever is under way holds it.             *)
GateHeld == \A c \in Callers : pc[c] # "idle" => gate = c

Matches(cfg) ==
  /\ cfg.gen = registry.gen
  /\ cfg.man = registry.man
  /\ Over(Late, cfg.mat) = registry.mat

(* Between reconcile and store the registry is ahead of the routes, and it *)
(* is the build that it matches.                                           *)
RegistryMatches ==
  /\ (\A c \in Callers : pc[c] # "store") => Matches(active)
  /\ \A c \in Callers : pc[c] = "store" => Matches(build[c])

Described(cfg) ==
  /\ cfg.hash.man = cfg.man
  /\ \A f \in Shared : cfg.hash.pub[f] = cfg.mat[f]

(* What a caller has established at each point of its reload.              *)
Loaded == {"digest", "fingerprint", "reconcile", "store"}

BuildReady == \A c \in Callers :
  /\ pc[c] # "idle" => TrustOf(build[c].man) = trust
  /\ pc[c] \in Loaded => \A f \in Early \cup Shared : build[c].mat[f] \in Versions
  /\ pc[c] = "store" => \A f \in Late : build[c].mat[f] \in Versions
  /\ pc[c] \in {"fingerprint", "reconcile", "store"} => Described(build[c])

(* What it knows of the disk, as long as the disk stands still.            *)
QuietKnows == \A c \in Callers : quiet[c] =>
  /\ pc[c] = "print" => Over(Public, contents) = active.hash.pub
  /\ pc[c] \in Loaded => \A f \in Shared : build[c].mat[f] = contents[f]

ReloadInv ==
  /\ TypeOK /\ GateHeld /\ RegistryMatches /\ BuildReady /\ QuietKnows
  /\ VersionDescribesCa /\ CaCurrent

LEMMA SharedPublic == Shared \subseteq Public /\ Shared \subseteq Referenced /\ Late \subseteq Referenced
  BY FilesAssumption DEF Public, Referenced

LEMMA ReloadInvSound == ReloadInv => ReloadSound
  <1> SUFFICES ASSUME ReloadInv PROVE ReloadSound
    OBVIOUS
  <1>1. RoutesAreProbed
    BY DEF ReloadInv, RegistryMatches, Matches, RoutesAreProbed
  <1> QED  BY <1>1 DEF ReloadInv, ReloadSound

LEMMA ReloadInitInv == ReloadInit => ReloadInv
  <1> SUFFICES ASSUME ReloadInit PROVE ReloadInv
    OBVIOUS
  <1>1. contents \in [Referenced -> Versions] /\ contents \in [Referenced -> Contents]
    BY FilesAssumption DEF ReloadInit, Contents
  <1>2. active \in Configs
    BY <1>1, FilesAssumption DEF ReloadInit, Configs, Over, Public, Referenced
  <1>3. TypeOK
    <2>1. registry \in [man : ManifestTexts, gen : 0..MaxReloads, mat : [Late -> Contents]]
      BY <1>1, SharedPublic, FilesAssumption DEF ReloadInit, Over
    <2>2. trust = TrustOf(active.man)  BY DEF ReloadInit
    <2>3. build \in [Callers -> Configs]  BY <1>2 DEF ReloadInit
    <2>4. active.mat \in [Referenced -> Versions]  BY <1>1 DEF ReloadInit
    <2> QED
      BY <1>1, <1>2, <2>1, <2>2, <2>3, <2>4, FilesAssumption DEF ReloadInit, TypeOK
  <1>4. Over(Public, contents) = active.hash.pub /\ \A f \in Shared : active.hash.pub[f] = contents[f]
    BY SharedPublic DEF ReloadInit, Over
  <1> QED
    BY <1>3, <1>4
    DEF ReloadInit, ReloadInv, GateHeld, RegistryMatches, Matches, BuildReady, QuietKnows, Loaded,
        VersionDescribesCa, CaCurrent, Current

(* Only the caller under way steps: the others are idle.                   *)
LEMMA OthersIdle ==
  ASSUME ReloadInv, NEW c \in Callers, pc[c] # "idle"
  PROVE  gate = c /\ \A d \in Callers \ {c} : pc[d] = "idle"
  BY DEF ReloadInv, GateHeld

LEMMA DiskKeeps ==
  ASSUME ReloadInv,
         \/ \E m \in ManifestTexts : Edit(m)
         \/ \E f \in Referenced, v \in Contents : Rotate(f, v)
  PROVE  ReloadInv'
  <1>1. /\ manifest' \in ManifestTexts /\ contents' \in [Referenced -> Contents]
        /\ Disturb
    BY DEF ReloadInv, TypeOK, Edit, Rotate
  <1>2. /\ UNCHANGED <<active, trust, registry, gate, pc, build, reloads>>
        /\ quiet' = [c \in Callers |-> FALSE] /\ outcome' = "none"
    BY <1>1 DEF Disturb, running
  <1>3. TypeOK'  BY <1>1, <1>2 DEF ReloadInv, TypeOK
  <1>4. GateHeld' /\ RegistryMatches' /\ BuildReady' /\ VersionDescribesCa'
    BY <1>2
    DEF ReloadInv, GateHeld, RegistryMatches, Matches, BuildReady, Described, VersionDescribesCa
  <1>5. QuietKnows' /\ CaCurrent'  BY <1>2 DEF QuietKnows, CaCurrent, Current
  <1> QED  BY <1>3, <1>4, <1>5 DEF ReloadInv

LEMMA TakeKeeps ==
  ASSUME ReloadInv, NEW c \in Callers, NEW m \in ManifestTexts, NEW next \in {"hash", "load"},
         Take(c, m, next)
  PROVE  ReloadInv'
  <1>1. TypeOK  BY DEF ReloadInv
  <1>2. /\ UNCHANGED <<manifest, contents, active, trust, registry>>
        /\ pc' = [pc EXCEPT ![c] = next] /\ gate' = c /\ outcome' = "none"
        /\ quiet' = [quiet EXCEPT ![c] = TRUE] /\ reloads' = reloads + 1
        /\ build' = [build EXCEPT ![c].man = m] /\ TrustOf(m) = trust
        /\ reloads < MaxReloads /\ gate = None
    BY DEF Take, onDisk, running, TrustUnchanged
  <1>3. \A d \in Callers : pc[d] = "idle"
    BY <1>2, NoneAssumption DEF ReloadInv, GateHeld
  <1> DEFINE b == [build[c] EXCEPT !.man = m]
  <1>4. b \in Configs /\ b.man = m  BY <1>1 DEF TypeOK, Configs
  <1>5. build' = [build EXCEPT ![c] = b]  BY <1>2
  <1> HIDE DEF b
  <1>6. TypeOK'
    BY <1>1, <1>2, <1>4, <1>5, FilesAssumption DEF TypeOK
  <1>7. GateHeld'  BY <1>1, <1>2, <1>3 DEF TypeOK, GateHeld
  <1>8. RegistryMatches'
    BY <1>1, <1>2, <1>3 DEF ReloadInv, TypeOK, RegistryMatches, Matches
  <1>9. BuildReady'
    BY <1>1, <1>2, <1>3, <1>4, <1>5 DEF TypeOK, BuildReady, Loaded
  <1>10. QuietKnows'
    BY <1>1, <1>2, <1>3 DEF TypeOK, QuietKnows, Loaded
  <1>11. VersionDescribesCa' /\ CaCurrent'
    BY <1>2 DEF ReloadInv, VersionDescribesCa, CaCurrent, Current
  <1> QED  BY <1>6, <1>7, <1>8, <1>9, <1>10, <1>11 DEF ReloadInv

LEMMA RefuseKeeps == ASSUME ReloadInv, NEW c \in Callers, Refuse(c) PROVE ReloadInv'
  <1>1. /\ UNCHANGED <<manifest, contents, active, trust, registry, gate, pc, build, quiet>>
        /\ reloads < MaxReloads /\ reloads' = reloads + 1 /\ outcome' = "failed"
    BY DEF Refuse, onDisk, running
  <1>2. TypeOK'  BY <1>1, FilesAssumption DEF ReloadInv, TypeOK
  <1>3. GateHeld' /\ RegistryMatches' /\ BuildReady' /\ QuietKnows' /\ VersionDescribesCa'
    BY <1>1
    DEF ReloadInv, GateHeld, RegistryMatches, Matches, BuildReady, Described, QuietKnows,
        VersionDescribesCa
  <1> QED  BY <1>1, <1>2, <1>3 DEF ReloadInv, CaCurrent, Current

(* A step of the gate decides where to go on.                              *)
LEMMA GateKeeps ==
  ASSUME ReloadInv, NEW c \in Callers, GateHash(c) \/ GateRotated(c) PROVE ReloadInv'
  <1>1. TypeOK  BY DEF ReloadInv
  <1>2. PICK l \in {"print", "load"} :
          /\ pc' = [pc EXCEPT ![c] = l] /\ pc[c] \in {"hash", "print"}
          /\ l = "print" => Over(Public, contents) = active.hash.pub
    BY DEF GateHash, GateRotated, Goto
  <1>3. UNCHANGED <<manifest, contents, active, trust, registry, gate, build, quiet, reloads, outcome>>
    BY DEF GateHash, GateRotated, onDisk, running
  <1>4. gate = c /\ \A d \in Callers \ {c} : pc[d] = "idle"
    BY <1>2, OthersIdle
  <1>5. TypeOK'  BY <1>1, <1>2, <1>3 DEF TypeOK
  <1>6. GateHeld' /\ RegistryMatches'
    BY <1>1, <1>2, <1>3, <1>4
    DEF ReloadInv, TypeOK, GateHeld, RegistryMatches, Matches
  <1>7. BuildReady' /\ QuietKnows'
    BY <1>1, <1>2, <1>3, <1>4 DEF ReloadInv, TypeOK, BuildReady, QuietKnows, Loaded
  <1>8. VersionDescribesCa' /\ CaCurrent'
    BY <1>3 DEF ReloadInv, VersionDescribesCa, CaCurrent, Current
  <1> QED  BY <1>5, <1>6, <1>7, <1>8 DEF ReloadInv

(* The ways a reload ends without a new configuration.                     *)
LEMMA EndKeeps ==
  ASSUME ReloadInv, NEW c \in Callers, GateUnchanged(c) \/ Fail(c) PROVE ReloadInv'
  <1>1. TypeOK  BY DEF ReloadInv
  <1>2. /\ pc' = [pc EXCEPT ![c] = "idle"] /\ pc[c] \notin {"idle", "store"} /\ gate' = None
        /\ UNCHANGED <<manifest, contents, active, trust, registry, build, quiet, reloads>>
    BY DEF GateUnchanged, Fail, Goto, onDisk, running
  <1>3. \A d \in Callers \ {c} : pc[d] = "idle"
    BY <1>2, OthersIdle
  <1>4. outcome' \in {"none", "failed", "unchanged"}
    BY DEF GateUnchanged, Fail
  <1>5. outcome' = "unchanged" => \A f \in Shared : active.mat[f] = contents[f]
    <2>1. SUFFICES ASSUME outcome' = "unchanged", NEW f \in Shared PROVE active.mat[f] = contents[f]
      OBVIOUS
    <2>2. pc[c] = "print" /\ quiet[c]  BY <2>1 DEF GateUnchanged, Fail
    <2>3. Over(Public, contents) = active.hash.pub  BY <2>2 DEF ReloadInv, QuietKnows
    <2>4. Over(Public, contents)[f] = contents[f]  BY SharedPublic DEF Over
    <2> QED  BY <2>3, <2>4 DEF ReloadInv, VersionDescribesCa
  <1>6. TypeOK'  BY <1>1, <1>2, <1>4 DEF TypeOK
  <1>7. GateHeld' /\ RegistryMatches'
    BY <1>1, <1>2, <1>3 DEF ReloadInv, TypeOK, GateHeld, RegistryMatches, Matches
  <1>8. BuildReady' /\ QuietKnows'
    BY <1>1, <1>2, <1>3 DEF TypeOK, BuildReady, QuietKnows, Loaded
  <1>9. VersionDescribesCa' /\ CaCurrent'
    BY <1>2, <1>4, <1>5 DEF ReloadInv, VersionDescribesCa, CaCurrent, Current
  <1> QED  BY <1>6, <1>7, <1>8, <1>9 DEF ReloadInv

(* The steps of build_active before reconcile: they change the build of    *)
(* the one caller and move it on.                                          *)
BuildStep(c, b, next) ==
  /\ b \in Configs
  /\ build' = [build EXCEPT ![c] = b]
  /\ pc' = [pc EXCEPT ![c] = next]
  /\ UNCHANGED <<manifest, contents, active, trust, registry, gate, quiet, reloads, outcome>>

LEMMA BuildStepKeeps ==
  ASSUME ReloadInv, NEW c \in Callers, pc[c] \notin {"idle", "store"}, NEW b,
         NEW next \in {"digest", "fingerprint", "reconcile"}, BuildStep(c, b, next),
         b.man = build[c].man,
         \A f \in Early \cup Shared : b.mat[f] \in Versions,
         next # "digest" => Described(b),
         quiet[c] => \A f \in Shared : b.mat[f] = contents[f]
  PROVE  ReloadInv'
  <1>1. TypeOK  BY DEF ReloadInv
  <1>2. gate = c /\ \A d \in Callers \ {c} : pc[d] = "idle"  BY OthersIdle
  <1>3. /\ UNCHANGED <<active, trust, registry, gate, quiet, contents, outcome>>
        /\ pc'[c] = next /\ build'[c] = b
        /\ \A d \in Callers \ {c} : pc'[d] = "idle"
    BY <1>1, <1>2 DEF TypeOK, BuildStep
  <1>4. TypeOK'  BY <1>1 DEF TypeOK, BuildStep
  <1>5. GateHeld'  BY <1>2, <1>3 DEF GateHeld
  <1>6. RegistryMatches'
    <2>1. Matches(active)  BY <1>2 DEF ReloadInv, RegistryMatches
    <2>2. \A d \in Callers : pc'[d] # "store"  BY <1>3
    <2> QED  BY <1>3, <2>1, <2>2 DEF RegistryMatches, Matches
  <1>7. BuildReady'
    <2>1. TrustOf(b.man) = trust  BY DEF ReloadInv, BuildReady
    <2> QED  BY <1>3, <2>1 DEF BuildReady, Loaded, Described
  <1>8. QuietKnows'  BY <1>3 DEF QuietKnows, Loaded
  <1>9. VersionDescribesCa' /\ CaCurrent'
    BY <1>3 DEF ReloadInv, VersionDescribesCa, CaCurrent, Current
  <1> QED  BY <1>4, <1>5, <1>6, <1>7, <1>8, <1>9 DEF ReloadInv

LEMMA LoadKeeps == ASSUME ReloadInv, NEW c \in Callers, LoadMaterial(c) PROVE ReloadInv'
  <1>1. TypeOK /\ pc[c] = "load" /\ build[c] \in Configs
    BY DEF ReloadInv, TypeOK, LoadMaterial
  <1> DEFINE mat == [f \in Referenced |-> IF f \in Late THEN build[c].mat[f] ELSE contents[f]]
             b == [build[c] EXCEPT !.mat = mat]
  <1>2. mat \in [Referenced -> Contents]  BY <1>1 DEF TypeOK, Configs
  <1>3. \A f \in Early \cup Shared : f \in Referenced /\ mat[f] = contents[f] /\ mat[f] \in Versions
    BY <1>1, FilesAssumption DEF TypeOK, Referenced, LoadMaterial, Contents
  <1>4. build' = [build EXCEPT ![c] = b]  BY DEF LoadMaterial
  <1> HIDE DEF mat
  <1>5. b \in Configs /\ b.man = build[c].man /\ b.mat = mat
    BY <1>1, <1>2 DEF Configs
  <1> HIDE DEF b
  <1>6. BuildStep(c, b, "digest")
    BY <1>4, <1>5 DEF BuildStep, LoadMaterial, Goto, onDisk, running
  <1> QED  BY <1>1, <1>3, <1>5, <1>6, BuildStepKeeps

LEMMA DigestKeeps == ASSUME ReloadInv, NEW c \in Callers, DigestPublic(c) PROVE ReloadInv'
  <1>1. TypeOK /\ pc[c] = "digest" /\ build[c] \in Configs
    BY DEF ReloadInv, TypeOK, DigestPublic
  <1> DEFINE pub == [f \in Public |-> IF f \in Shared THEN build[c].mat[f] ELSE contents[f]]
             hash == [man |-> build[c].man, pub |-> pub]
             b == [build[c] EXCEPT !.hash = hash]
  <1>2. pub \in [Public -> Contents]  BY <1>1 DEF TypeOK, Configs, Public
  <1>3. \A f \in Shared : pub[f] = build[c].mat[f]  BY SharedPublic
  <1>4. build' = [build EXCEPT ![c] = b]  BY DEF DigestPublic
  <1> HIDE DEF pub
  <1>5. hash \in [man : ManifestTexts, pub : [Public -> Contents]]
    BY <1>1, <1>2 DEF Configs
  <1>6. hash.man = build[c].man /\ hash.pub = pub  OBVIOUS
  <1> HIDE DEF hash
  <1>7. /\ b \in Configs /\ b.man = build[c].man /\ b.mat = build[c].mat
        /\ b.hash = hash
    BY <1>1, <1>5 DEF Configs
  <1> HIDE DEF b
  <1>8. Described(b)  BY <1>3, <1>6, <1>7 DEF Described
  <1>9. BuildStep(c, b, "fingerprint")
    BY <1>4, <1>7 DEF BuildStep, DigestPublic, Goto, onDisk, running
  <1>10. /\ \A f \in Early \cup Shared : b.mat[f] \in Versions
         /\ quiet[c] => \A f \in Shared : b.mat[f] = contents[f]
    BY <1>1, <1>7 DEF ReloadInv, BuildReady, QuietKnows, Loaded
  <1> QED  BY <1>1, <1>7, <1>8, <1>9, <1>10, BuildStepKeeps

LEMMA FingerprintKeeps == ASSUME ReloadInv, NEW c \in Callers, Fingerprint(c) PROVE ReloadInv'
  <1>1. TypeOK /\ pc[c] = "fingerprint" /\ build[c] \in Configs
    BY DEF ReloadInv, TypeOK, Fingerprint
  <1> DEFINE b == [build[c] EXCEPT !.print = Over(Secret, contents)]
  <1>2. Over(Secret, contents) \in [Secret -> Contents]
    BY <1>1, FilesAssumption DEF TypeOK, Over, Referenced
  <1>3. build' = [build EXCEPT ![c] = b]  BY DEF Fingerprint
  <1>4. /\ b \in Configs /\ b.man = build[c].man /\ b.mat = build[c].mat
        /\ b.hash = build[c].hash
    BY <1>1, <1>2 DEF Configs
  <1> HIDE DEF b
  <1>5. Described(b)
    BY <1>1, <1>4 DEF ReloadInv, BuildReady, Described
  <1>6. BuildStep(c, b, "reconcile")
    BY <1>3, <1>4 DEF BuildStep, Fingerprint, Goto, onDisk, running
  <1>7. /\ \A f \in Early \cup Shared : b.mat[f] \in Versions
        /\ quiet[c] => \A f \in Shared : b.mat[f] = contents[f]
    BY <1>1, <1>4 DEF ReloadInv, BuildReady, QuietKnows, Loaded
  <1> QED  BY <1>1, <1>4, <1>5, <1>6, <1>7, BuildStepKeeps

LEMMA ReconcileKeeps == ASSUME ReloadInv, NEW c \in Callers, Reconcile(c) PROVE ReloadInv'
  <1>1. TypeOK /\ pc[c] = "reconcile" /\ build[c] \in Configs
    BY DEF ReloadInv, TypeOK, Reconcile
  <1>2. gate = c /\ \A d \in Callers \ {c} : pc[d] = "idle"  BY <1>1, OthersIdle
  <1> DEFINE late == LateMaterial(c)
             mat == [f \in Referenced |-> IF f \in Late THEN late[f] ELSE build[c].mat[f]]
             b == [build[c] EXCEPT !.gen = reloads, !.mat = mat]
  <1>3. late \in [Late -> Contents]
    BY <1>1, SharedPublic DEF TypeOK, LateMaterial, Over
  <1>4. \A f \in Late : late[f] \in Versions
    BY <1>3 DEF Reconcile, Contents
  <1>5. /\ registry' = [man |-> build[c].man, gen |-> reloads, mat |-> late]
        /\ build' = [build EXCEPT ![c] = b]
        /\ pc' = [pc EXCEPT ![c] = "store"]
        /\ UNCHANGED <<manifest, contents, active, trust, gate, quiet, reloads, outcome>>
    BY DEF Reconcile, Goto, onDisk
  <1> HIDE DEF late
  <1>6. /\ mat \in [Referenced -> Contents]
        /\ \A f \in Late : mat[f] = late[f]
        /\ \A f \in Early \cup Shared : mat[f] = build[c].mat[f]
    BY <1>1, <1>3, SharedPublic, FilesAssumption DEF Configs, Referenced
  <1>7. Over(Late, mat) = late  BY <1>3, <1>6 DEF Over
  <1> HIDE DEF mat
  <1>8. /\ b \in Configs /\ b.man = build[c].man /\ b.mat = mat /\ b.gen = reloads
        /\ b.hash = build[c].hash
    BY <1>1, <1>6 DEF TypeOK, Configs
  <1> HIDE DEF b
  <1>9. /\ pc'[c] = "store" /\ build'[c] = b /\ \A d \in Callers \ {c} : pc'[d] = "idle"
    BY <1>1, <1>2, <1>5 DEF TypeOK
  <1>10. registry' \in [man : ManifestTexts, gen : 0..MaxReloads, mat : [Late -> Contents]]
    BY <1>1, <1>3, <1>5 DEF TypeOK, Configs
  <1>11. TypeOK'  BY <1>1, <1>5, <1>8, <1>10 DEF TypeOK
  <1>12. GateHeld'  BY <1>2, <1>5, <1>9 DEF GateHeld
  <1>13. RegistryMatches'
    BY <1>5, <1>7, <1>8, <1>9 DEF RegistryMatches, Matches
  <1>14. BuildReady'
    <2>1. TrustOf(b.man) = trust  BY <1>1, <1>8 DEF ReloadInv, BuildReady
    <2>2. \A f \in Early \cup Shared : b.mat[f] \in Versions
      BY <1>1, <1>6, <1>8 DEF ReloadInv, BuildReady, Loaded
    <2>3. \A f \in Late : b.mat[f] \in Versions  BY <1>4, <1>6, <1>8
    <2>4. Described(b)
      BY <1>1, <1>6, <1>8 DEF ReloadInv, BuildReady, Described
    <2> QED  BY <1>5, <1>9, <2>1, <2>2, <2>3, <2>4 DEF BuildReady, Loaded, Described
  <1>15. QuietKnows'
    <2>1. quiet[c] => \A f \in Shared : b.mat[f] = contents[f]
      BY <1>1, <1>6, <1>8 DEF ReloadInv, QuietKnows, Loaded
    <2> QED  BY <1>5, <1>9, <2>1 DEF QuietKnows, Loaded
  <1>16. VersionDescribesCa' /\ CaCurrent'
    BY <1>5 DEF ReloadInv, VersionDescribesCa, CaCurrent, Current
  <1> QED  BY <1>11, <1>12, <1>13, <1>14, <1>15, <1>16 DEF ReloadInv

LEMMA StoreKeeps == ASSUME ReloadInv, NEW c \in Callers, Store(c) PROVE ReloadInv'
  <1>1. TypeOK /\ pc[c] = "store" /\ build[c] \in Configs
    BY DEF ReloadInv, TypeOK, Store
  <1>2. \A d \in Callers \ {c} : pc[d] = "idle"  BY <1>1, OthersIdle
  <1>3. /\ active' = build[c] /\ gate' = None /\ pc' = [pc EXCEPT ![c] = "idle"]
        /\ UNCHANGED <<manifest, contents, trust, registry, build, quiet, reloads>>
        /\ outcome' \in {"reloaded", "none"} /\ (outcome' = "reloaded" => quiet[c])
    BY DEF Store, Goto, onDisk
  <1>4. \A d \in Callers : pc'[d] = "idle"  BY <1>1, <1>2, <1>3 DEF TypeOK
  <1>5. /\ TrustOf(build[c].man) = trust /\ Described(build[c]) /\ Matches(build[c])
        /\ \A f \in Early \cup Shared : build[c].mat[f] \in Versions
        /\ \A f \in Late : build[c].mat[f] \in Versions
        /\ quiet[c] => \A f \in Shared : build[c].mat[f] = contents[f]
    BY <1>1 DEF ReloadInv, BuildReady, RegistryMatches, QuietKnows, Loaded
  <1>6. build[c].mat \in [Referenced -> Versions]
    BY <1>1, <1>5 DEF Configs, Referenced
  <1>7. TypeOK'
    BY <1>1, <1>3, <1>5, <1>6 DEF TypeOK
  <1>8. GateHeld' /\ RegistryMatches'
    BY <1>3, <1>4, <1>5 DEF GateHeld, RegistryMatches, Matches
  <1>9. BuildReady' /\ QuietKnows'
    BY <1>4 DEF BuildReady, QuietKnows, Loaded
  <1>10. VersionDescribesCa' /\ CaCurrent'
    BY <1>3, <1>5 DEF Described, VersionDescribesCa, CaCurrent, Current
  <1> QED  BY <1>7, <1>8, <1>9, <1>10 DEF ReloadInv

LEMMA ReloadStepInv == ReloadInv /\ [ReloadNext]_reloadVars => ReloadInv'
  <1> SUFFICES ASSUME ReloadInv, [ReloadNext]_reloadVars PROVE ReloadInv'
    OBVIOUS
  <1>1. CASE UNCHANGED reloadVars
    BY <1>1
    DEF reloadVars, ReloadInv, TypeOK, GateHeld, RegistryMatches, Matches, BuildReady, Described,
        QuietKnows, VersionDescribesCa, CaCurrent, Current
  <1>2. ASSUME NEW c \in Callers, NEW m \in ManifestTexts, ReloadApi(c, m) PROVE ReloadInv'
    BY <1>2, TakeKeeps DEF ReloadApi
  <1>3. ASSUME NEW c \in Callers, ReloadFromDisk(c) PROVE ReloadInv'
    <2>1. manifest \in ManifestTexts  BY DEF ReloadInv, TypeOK
    <2> QED  BY <1>3, <2>1, TakeKeeps DEF ReloadFromDisk
  <1> QED
    BY <1>1, <1>2, <1>3, DiskKeeps, RefuseKeeps, GateKeeps, EndKeeps, LoadKeeps, DigestKeeps,
       FingerprintKeeps, ReconcileKeeps, StoreKeeps DEF ReloadNext

LEMMA ReloadInvariant == ReloadSpec => []ReloadInv
  BY ReloadInitInv, ReloadStepInv, PTL DEF ReloadSpec

(* The running configuration is always complete: every file it was built   *)
(* from was readable, its groups and digests are those of one build, and   *)
(* its [trust] is the one captured at construction.                        *)
THEOREM ReloadTypes == ReloadSpec => []TypeOK
  BY ReloadInvariant, PTL DEF ReloadInv

(* Whoever reloads and whatever happens to the disk meanwhile, the routes  *)
(* hold the groups the registry probes once no reload is under way, and    *)
(* the recorded version describes the client-auth CA in use, which after a *)
(* quiet reload is the one on disk (control_reload.rs, build_active).      *)
THEOREM ReloadIsSound == ReloadSpec => []ReloadSound
  BY ReloadInvariant, ReloadInvSound, PTL
=============================================================================
