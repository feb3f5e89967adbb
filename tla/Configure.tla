----------------------------- MODULE Configure ------------------------------
(***************************************************************************)
(* A manifest on its way into a running proxy: `plecto validate`, with and *)
(* without --resolve, the start of a process and SIGHUP reloads            *)
(* (crates/control/src/lib.rs, control_reload.rs, tls.rs,                  *)
(* upstream/registry.rs, plecto/src/main.rs), over a disk an operator      *)
(* edits.  A build reads the disk as one step here; Reload has the builds  *)
(* whose files change under them.                                          *)
(***************************************************************************)
EXTENDS Artifact

CONSTANTS Manifests,   \* manifests the operator may write
          Files,       \* file name -> the contents it may have
          Layouts,     \* source -> the layouts it may hold
          Pairs,       \* <<certificate, key>> bodies that belong together
          HashOf,      \* address -> its two hashes
          Signatures,  \* every signature made, [by, over]
          Sboms,       \* every SBOM written, [subjects]
          InitialDisk,
          MaxEdits

(* The manifests are ones the parser returns: entries in order, knobs that *)
(* are counts, and a source for every filter; a hash is a number.          *)
CountsAreNat(limits) == \A k \in DOMAIN limits : limits[k] \in Nat
ASSUME DiskAssumption ==
  /\ InitialDisk = [manifest |-> InitialDisk.manifest, files |-> InitialDisk.files,
                    layouts |-> InitialDisk.layouts]
  /\ \A m \in Manifests \cup {InitialDisk.manifest} :
       /\ DOMAIN m.filters \subseteq Nat
       /\ \A f \in Each(m.filters) :
            /\ f.source \in DOMAIN InitialDisk.layouts /\ CountsAreNat(f.limits)
            /\ f.outbound_http = Absent \/ CountsAreNat(f.outbound_http.limits)
            /\ f.outbound_tcp = Absent \/ CountsAreNat(f.outbound_tcp.limits)
       /\ \A u \in Each(m.upstreams) :
            /\ u.addresses \in Seq(Each(u.addresses))
            /\ \A a \in Each(u.addresses) : HashOf[a.addr] \in Nat \X Nat
            /\ u.hash = Absent \/ u.hash.table_size \in Nat
  /\ PoolMax \in Nat \ {0} /\ Ceiling \in Nat \ {0}

(* Nobody forges: what a layout that can be read holds as a signature was  *)
(* made, and as an SBOM written.                                           *)
Genuine(layout) ==
  LET image == layout.blobs[layout.first].content
      r == Resolve(layout, layout.first)
  IN  r.err = "none" =>
        /\ image = [t \in DOMAIN image |-> image[t]]
        /\ {r.artifact["sig"], r.artifact["sbom-sig"]} \subseteq Signatures \cup {Absent}
        /\ r.artifact["sbom"] \in Sboms \cup {Absent}
ASSUME GenuineAssumption ==
  /\ \A s \in DOMAIN InitialDisk.layouts : Genuine(InitialDisk.layouts[s])
  /\ \A s \in DOMAIN Layouts : \A layout \in Layouts[s] : Genuine(layout)

(* A file's content is [body, kind, owner]; a missing file is Absent.      *)
Kind(fs, name) == IF fs[name] = Absent THEN "missing" ELSE fs[name].kind
Texts(fs) ==
  [name \in {n \in DOMAIN fs : Kind(fs, n) = "text"} |-> fs[name].body]

VARIABLES disk,      \* [manifest, files, layouts]
          proc,      \* the running process, or Absent
          last,      \* the last command and how it ended
          passed,    \* the checks the disk has passed as it stands
          edits

vars == <<disk, proc, last, passed, edits>>

(* Steps of a build in their order; the first that fails names the error.  *)
FirstErr(steps) ==
  LET failed == {i \in DOMAIN steps : ~steps[i][1]}
  IN  IF failed = {} THEN "none" ELSE steps[Min(failed)][2]

KeysReadable(m, fs) == \A k \in m.trust : Kind(fs, k) = "public_key"
TrustedKeys(m, fs) == {fs[k].body : k \in m.trust}

(* build_server_configs: certificates load with their key, one per host    *)
(* and one default; ticket keys and client authentication need TLS, and    *)
(* exclude each other.                                                     *)
CertLoads(fs, cert, key) ==
  /\ Kind(fs, cert) = "cert" /\ Kind(fs, key) = "key"
  /\ <<fs[cert].body, fs[key].body>> \in Pairs

ClientVerifierLoads(fs, auth) == Kind(fs, auth) = "ca"

ServerTlsErr(m, fs) ==
  LET auth == m.listen.client_auth
  IN  FirstErr(<<
        <<auth = Absent \/ fs[auth] # Absent, "client_auth">>,
        <<m.resumption = Absent \/ auth = Absent, "stek">>,
        <<m.tls # << >> \/ m.resumption = Absent, "stek">>,
        <<m.tls # << >> \/ auth = Absent, "client_auth">>,
        <<\A t \in Each(m.tls) : CertLoads(fs, t.cert, t.key), "tls_cert">>,
        <<Distinct(m.tls, LAMBDA t : t.host), "tls_cert">>,
        <<m.resumption = Absent \/ ResumptionValid(m.resumption), "stek">>,
        <<m.resumption = Absent \/ (Kind(fs, m.resumption.file) = "stek"
                                    /\ fs[m.resumption.file].owner), "stek">>,
        <<auth = Absent \/ ClientVerifierLoads(fs, auth), "client_auth">> >>)

(* build_upstream_client_config: a CA with an anchor, and a whole identity *)
(* whose key is the owner's alone.                                         *)
UpstreamTlsLoads(t, fs) ==
  /\ t.ca = Absent \/ Kind(fs, t.ca) = "ca"
  /\ (t.cert = Absent) = (t.key = Absent)
  /\ t.cert # Absent => CertLoads(fs, t.cert, t.key) /\ fs[t.key].owner
  /\ t.sni # "bad"

(* What a group keeps; a TLS client is reused while its section stands.    *)
Group(u) == [addresses |-> u.addresses, lb |-> u.lb, tls |-> u.tls,
             table |-> IF u.lb # "maglev" THEN << >>
                       ELSE Build([i \in DOMAIN u.addresses |-> HashOf[u.addresses[i].addr]],
                                  [i \in DOMAIN u.addresses |-> u.addresses[i].weight],
                                  u.hash.table_size)]
NamedGroups(m) == [n \in {u.name : u \in Each(m.upstreams)} |->
                     Group(CHOOSE u \in Each(m.upstreams) : u.name = n)]

ReconcileErr(m, fs, groups) ==
  LET reused(u) == u.name \in DOMAIN groups /\ groups[u.name].tls = u.tls
  IN  FirstErr(<< <<UpstreamsValid(m), "upstream">>,
                  <<\A u \in Each(m.upstreams) :
                      u.tls = Absent \/ (reused(u) /\ u.tls.sni # "bad")
                                     \/ UpstreamTlsLoads(u.tls, fs), "upstream_tls">> >>)

(* The listener section is left to the start.                              *)
ValidateErrNoListen(d) ==
  FirstErr(<< <<KeysReadable(d.manifest, d.files), "trust">>,
              <<StateValid(d.manifest.state), "state">>,
              <<ObservabilityValid(d.manifest.observability), "observability">>,
              <<FiltersValid(d.manifest), "filter">>,
              <<\A f \in Each(d.manifest.filters) :
                  ResolvedConfig(f, Texts(d.files)) # Absent, "config">>,
              <<RoutesValid(d.manifest), "route">>,
              <<ServerTlsErr(d.manifest, d.files) = "none", "tls">>,
              <<ReconcileErr(d.manifest, d.files, << >>) = "none", "upstream">> >>)

(* validate_manifest.                                                      *)
ValidateErr(d) ==
  FirstErr(<< <<KeysReadable(d.manifest, d.files), "trust">>,
              <<StateValid(d.manifest.state), "state">>,
              <<ListenValid(d.manifest.listen), "listen">>,
              <<ObservabilityValid(d.manifest.observability), "observability">>,
              <<FiltersValid(d.manifest), "filter">>,
              <<\A f \in Each(d.manifest.filters) :
                  ResolvedConfig(f, Texts(d.files)) # Absent, "config">>,
              <<RoutesValid(d.manifest), "route">>,
              <<ServerTlsErr(d.manifest, d.files) = "none", "tls">>,
              <<ReconcileErr(d.manifest, d.files, << >>) = "none", "upstream">> >>)

(* resolve_manifest: provenance and the static contract check per filter.  *)
ResolvedFilter(d, f) == Resolve(d.layouts[f.source], f.digest)
ResolveErr(d) ==
  LET r(f) == ResolvedFilter(d, f)
      gate(f) == VerifyArtifact(TrustedKeys(d.manifest, d.files), r(f).artifact)
      target(f) == ContractTarget(r(f).artifact["wasm"])
  IN  FirstErr(<< <<KeysReadable(d.manifest, d.files), "trust">>,
                  <<\A f \in Each(d.manifest.filters) :
                      /\ r(f).err = "none" /\ gate(f) = "none"
                      /\ target(f) \in {"none", "inconclusive"}, "artifact">> >>)

(* build_active: everything that can fail runs before the registry is      *)
(* touched, and the upstreams are validated before it changes.             *)
LoadErr(d, keys, backend, f) ==
  LET r == ResolvedFilter(d, f)
      config == ResolvedConfig(f, Texts(d.files))
  IN  IF r.err # "none" THEN r.err
      ELSE IF config = Absent THEN "config"
      ELSE Load(f.id, LoadOptions(f, config), r.artifact, keys, backend).err

LoadedFilters(d, keys, backend) ==
  [id \in {f.id : f \in Each(d.manifest.filters)} |->
     LET f == CHOOSE f \in Each(d.manifest.filters) : f.id = id
     IN  Load(f.id, LoadOptions(f, ResolvedConfig(f, Texts(d.files))),
              ResolvedFilter(d, f).artifact, keys, backend).filter]

(* content_hash_at, reload_fingerprint: what a manifest means, the files   *)
(* it names and the configurations of its filters, all of which are read.  *)
Named(m) ==
  LET tls == {u.tls : u \in Each(m.upstreams)} \ {Absent}
  IN  ({t.cert : t \in Each(m.tls)} \cup {t.key : t \in Each(m.tls)}
         \cup {t.ca : t \in tls} \cup {t.cert : t \in tls} \cup {t.key : t \in tls}
         \cup {m.listen.client_auth}
         \cup (IF m.resumption = Absent THEN {} ELSE {m.resumption.file})) \ {Absent}
Digestible(d) ==
  /\ \A n \in Named(d.manifest) : d.files[n] # Absent
  /\ \A f \in Each(d.manifest.filters) : ResolvedConfig(f, Texts(d.files)) # Absent
Identity(d) ==
  [manifest |-> [d.manifest EXCEPT !.listen = @.client_auth, !.observability = Absent],
   files |-> [n \in Named(d.manifest) |-> <<d.files[n].body, d.files[n].kind>>],
   configs |-> {<<f.id, ResolvedConfig(f, Texts(d.files))>> : f \in Each(d.manifest.filters)}]

BuildErr(d, keys, backend, groups) ==
  LET filters == d.manifest.filters
      fail == {i \in DOMAIN filters : LoadErr(d, keys, backend, filters[i]) # "none"}
  IN  FirstErr(<< <<FiltersValid(d.manifest), "filter">>,
                  <<fail = {}, IF fail = {} THEN "none"
                               ELSE LoadErr(d, keys, backend, filters[Min(fail)])>>,
                  <<RoutesValid(d.manifest), "route">>,
                  <<ServerTlsErr(d.manifest, d.files) = "none", "tls">>,
                  <<Digestible(d), "digest">>,
                  <<ReconcileErr(d.manifest, d.files, groups) = "none", "upstream">> >>)

Active(d, keys, backend) ==
  [manifest |-> d.manifest, filters |-> LoadedFilters(d, keys, backend), identity |-> Identity(d)]

(* The registry is reconciled before the routes are checked.               *)
BuildReconcilesFirst(d, p) ==
  LET err == BuildErr(d, p.keys, p.state.backend, p.groups)
      early == ReconcileErr(d.manifest, d.files, p.groups) = "none"
  IN  [err |-> err,
       proc |-> IF err # "none"
                THEN IF early THEN [p EXCEPT !.groups = NamedGroups(d.manifest)] ELSE p
                ELSE [p EXCEPT !.groups = NamedGroups(d.manifest),
                               !.active = Active(d, p.keys, p.state.backend)]]

(* The outcome of a build on a process with these groups.                  *)
BuildActive(d, p) ==
  LET err == BuildErr(d, p.keys, p.state.backend, p.groups)
  IN  [err |-> err,
       proc |-> IF err # "none" THEN p
                ELSE [p EXCEPT !.groups = NamedGroups(d.manifest),
                               !.active = Active(d, p.keys, p.state.backend)]]

(* from_manifest_path; the state file's directory may be missing.          *)
Host(d) == [trust |-> d.manifest.trust, state |-> d.manifest.state,
            keys |-> TrustedKeys(d.manifest, d.files), groups |-> << >>, active |-> Absent]
StartErr(d, opens) ==
  LET host == FirstErr(<< <<KeysReadable(d.manifest, d.files), "trust">>,
                          <<StateValid(d.manifest.state), "state">>,
                          <<d.manifest.state.backend = "memory" \/ opens, "state_open">>,
                          <<ObservabilityValid(d.manifest.observability), "observability">> >>)
  IN  IF host # "none" THEN host
      ELSE IF BuildActive(d, Host(d)).err # "none" THEN BuildActive(d, Host(d)).err
      ELSE IF ~ListenValid(d.manifest.listen) THEN "listen" ELSE "none"

Nothing == [op |-> "none", err |-> "none"]
Ends(op, err) == last' = [op |-> op, err |-> err]

Init ==
  /\ disk = InitialDisk
  /\ proc = Absent /\ last = Nothing /\ passed = {} /\ edits = 0

Edited(d) ==
  /\ edits < MaxEdits /\ edits' = edits + 1 /\ d # disk
  /\ disk' = d /\ last' = Nothing /\ passed' = {}
  /\ UNCHANGED proc
EditManifest(m) == Edited([disk EXCEPT !.manifest = m])
EditFile(name, body) == Edited([disk EXCEPT !.files[name] = body])
EditLayout(s, layout) == Edited([disk EXCEPT !.layouts[s] = layout])

Check(op, err) ==
  /\ Ends(op, err)
  /\ passed' = IF err = "none" THEN passed \cup {op} ELSE passed
  /\ UNCHANGED <<disk, proc, edits>>
Validate == Check("validate", ValidateErr(disk))

(* `validate --resolve` goes on to the artifacts.                          *)
ValidateResolve ==
  Check("resolve", IF ValidateErr(disk) # "none" THEN ValidateErr(disk) ELSE ResolveErr(disk))

Start(opens) ==
  LET err == StartErr(disk, opens)
  IN  /\ proc = Absent
      /\ Ends("start", err)
      /\ proc' = IF err # "none" THEN Absent ELSE BuildActive(disk, Host(disk)).proc
      /\ UNCHANGED <<disk, passed, edits>>

(* reload_from_disk.  A change of [trust] or [state] takes a restart, and  *)
(* what has not changed is not built again.                                *)
Unchanged(d, p) == Digestible(d) /\ Identity(d) = p.active.identity
Sighup ==
  /\ proc # Absent
  /\ IF disk.manifest.trust # proc.trust THEN Ends("reload", "trust_changed") /\ UNCHANGED proc
     ELSE IF disk.manifest.state # proc.state
     THEN Ends("reload", "state_changed") /\ UNCHANGED proc
     ELSE IF Unchanged(disk, proc) THEN Ends("reload", "none") /\ UNCHANGED proc
     ELSE LET built == BuildActive(disk, proc)
          IN  Ends("reload", built.err) /\ proc' = built.proc
  /\ UNCHANGED <<disk, passed, edits>>

Stop == proc # Absent /\ proc' = Absent /\ last' = Nothing /\ UNCHANGED <<disk, passed, edits>>

Next ==
  \/ \E m \in Manifests : EditManifest(m)
  \/ \E n \in DOMAIN Files : \E body \in Files[n] : EditFile(n, body)
  \/ \E s \in DOMAIN Layouts : \E layout \in Layouts[s] : EditLayout(s, layout)
  \/ Validate \/ ValidateResolve
  \/ \E opens \in BOOLEAN : Start(opens)
  \/ Sighup \/ Stop

Spec == Init /\ [][Next]_vars

(* What `plecto validate --resolve` let through starts, and reloads: only  *)
(* what the two cannot look at may still fail: whether the engine compiles *)
(* the component, which the check judges by looser rules, what it is lent, *)
(* how it links and initialises.  A filter id the store refuses is one of  *)
(* them, although no artifact is needed to see it.  A reload also keeps    *)
(* the trust and state the process was started with, and judges signatures *)
(* by the keys it read then.                                               *)
LoadTime == {"none", "id", "compile", "version", "capability", "link", "init"}
PassedCheckLoads ==
  "resolve" \in passed =>
    CASE last.op = "start" -> last.err \in LoadTime \cup {"state_open"}
      [] last.op = "reload" ->
           \/ last.err \in LoadTime \cup {"trust_changed", "state_changed"}
           \/ proc.keys # TrustedKeys(disk.manifest, disk.files)
      [] OTHER -> TRUE

(* The same, as the code documents the check: what needs no artifact to be *)
(* seen is seen by `plecto validate`.                                      *)
ValidateCoversStartup ==
  "validate" \in passed /\ last.op = "start" => last.err # "id"

(* A running process has the groups of the configuration it serves; a      *)
(* reload that is refused at any step leaves both as they were.            *)
RegistryMatchesActive ==
  proc # Absent => proc.groups = NamedGroups(proc.active.manifest)

(* Every loaded filter is the content its pin names, signed by a key the   *)
(* process was started with, and the subject of an SBOM signed by one.     *)
LoadedIsVerified ==
  proc # Absent =>
    \A f \in Each(proc.active.manifest.filters) :
      LET c == proc.active.filters[f.id].component
          signed == {s.over : s \in {s \in Signatures : s.by \in proc.keys}}
      IN  /\ f.digest = Digest([t \in DOMAIN f.digest[2] |->
                                  IF t = "wasm" THEN Digest(c) ELSE f.digest[2][t]])
          /\ c \in signed
          /\ \E s \in Sboms \cap signed : Digest(c) \in s.subjects

(* What a process serves, it can serve: a route has its whole chain and a  *)
(* group for each target.                                                  *)
RoutesServed ==
  proc # Absent =>
    \A r \in Each(proc.active.manifest.routes) :
      /\ Each(r.filters) \subseteq DOMAIN proc.active.filters
      /\ \A t \in Each(Targets(r)) : t[1] \in DOMAIN proc.groups

(* A Maglev table has no hole and an entry for every instance.             *)
TablesFull ==
  proc # Absent =>
    \A n \in DOMAIN proc.groups :
      LET g == proc.groups[n]
      IN  g.lb = "maglev" =>
            {g.table[s] : s \in DOMAIN g.table} = DOMAIN g.addresses

(* Whatever a manifest gives or leaves out, a loaded filter is bounded: no *)
(* budget of its is zero, its pool has a place and no more than the engine *)
(* has, and what it may do outside stays within the host's maxima.         *)
LoadedIsBounded ==
  proc # Absent =>
    \A id \in DOMAIN proc.active.filters :
      LET f == proc.active.filters[id]
          lent == {f.options.http, f.options.tcp} \ {Absent}
      IN  /\ \A k \in NonZeroKnobs : f.options.limits[k] > 0
          /\ f.cap \in 1..PoolMax
          /\ \A ob \in lent : \A k \in DOMAIN ob.limits : ob.limits[k] \in 1..Ceiling
          /\ f.inline => lent = {} /\ f.options.isolation = "trusted"

(* What runs was built whole, from verified artifacts, within its bounds.  *)
ActiveVerified == RegistryMatchesActive /\ LoadedIsVerified /\ LoadedIsBounded /\ RoutesServed

(* And its tables can spread what it serves.                               *)
ActiveSound == ActiveVerified /\ TablesFull
=============================================================================
