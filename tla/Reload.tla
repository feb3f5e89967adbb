------------------------------- MODULE Reload -------------------------------
(***************************************************************************)
(* Hot reload of crates/control: reload_from_disk and reload               *)
(* (control_reload.rs), build_active (lib.rs), the two digests of          *)
(* manifest/content_hash.rs and UpstreamRegistry::reconcile, against a     *)
(* disk whose manifest and referenced files may change or become           *)
(* unreadable between any two reads.  A digest is the tuple of what it     *)
(* covers.  Files fall into three classes by when a build reads them for   *)
(* use: Early before its digests ([[tls]] certificates and keys, the STEK, *)
(* [filter.config_files]), Shared in the one read that use and digest      *)
(* share ([listen.client_auth] CA), Late in reconcile ([upstream.tls]).    *)
(***************************************************************************)
EXTENDS Integers

CONSTANTS Callers,              \* threads that reload: SIGHUP loop, embedders
          Early, Shared, Late,  \* referenced files
          Secret,               \* those covered by the fingerprint only
          ManifestTexts,        \* manifest contents
          WithTrust,            \* manifests that change [trust] or [state]
          WithTls,              \* manifests that have an [upstream.tls] section
          Versions,             \* contents of a file
          MaxChanges,           \* bound: changes to the disk
          MaxReloads,           \* bound: reloads begun
          None

Referenced == Early \cup Shared \cup Late
Public == Referenced \ Secret
Unreadable == 0

ASSUME FilesAssumption ==
  /\ Secret \subseteq Early \cup Late
  /\ Shared \cap Early = {} /\ Shared \cap Late = {} /\ Early \cap Late = {}
  /\ Unreadable \notin Versions /\ Versions # {}
  /\ MaxReloads \in Nat
ASSUME NoneAssumption == None \notin Callers

(* The sections of a manifest that decide a reload.                        *)
TrustOf(m) == m \in WithTrust
TlsOf(m) == m \in WithTls

VARIABLES manifest,  \* the manifest on disk
          contents,  \* the contents of each referenced file
          changes,   \* changes made to the disk
          active,    \* ActiveConfig: manifest, group generation, material, digests
          trust,     \* Control::trust and state, captured at construction
          registry,  \* UpstreamRegistry: manifest, group generation, TLS material
          gate,      \* who holds reload_gate
          pc,        \* where each caller is
          build,     \* each caller's configuration under construction
          quiet,     \* has the disk stood still since the caller began
          reloads,   \* reloads begun
          outcome    \* the last reload's, as long as the disk has not changed since

reloadVars == <<manifest, contents, changes, active, trust, registry, gate, pc, build, quiet,
                reloads, outcome>>
onDisk == <<manifest, contents, changes>>
running == <<active, trust, registry>>

Contents == Versions \cup {Unreadable}
Over(S, f) == [x \in S |-> f[x]]

Configs == [man : ManifestTexts, gen : 0..MaxReloads,
            mat : [Referenced -> Contents],
            hash : [man : ManifestTexts, pub : [Public -> Contents]],
            print : [Secret -> Contents]]

TypeOK ==
  /\ manifest \in ManifestTexts
  /\ contents \in [Referenced -> Contents]
  /\ active \in Configs /\ trust = TrustOf(active.man)
  /\ registry \in [man : ManifestTexts, gen : 0..MaxReloads, mat : [Late -> Contents]]
  /\ gate \in Callers \cup {None}
  /\ pc \in [Callers -> {"idle", "hash", "print", "load", "digest", "fingerprint",
                         "reconcile", "store"}]
  /\ build \in [Callers -> Configs]
  /\ quiet \in [Callers -> BOOLEAN]
  /\ outcome \in {"none", "failed", "unchanged", "reloaded"}
  /\ active.mat \in [Referenced -> Versions]
  /\ reloads \in 0..MaxReloads

(* assemble: the first build, from a readable disk.                        *)
ReloadInit ==
  /\ manifest \in ManifestTexts
  /\ contents = [f \in Referenced |-> CHOOSE v \in Versions : TRUE]
  /\ changes = 0
  /\ active = [man |-> manifest, gen |-> 0, mat |-> contents,
               hash |-> [man |-> manifest, pub |-> Over(Public, contents)],
               print |-> Over(Secret, contents)]
  /\ trust = TrustOf(manifest)
  /\ registry = [man |-> manifest, gen |-> 0, mat |-> Over(Late, contents)]
  /\ gate = None
  /\ pc = [c \in Callers |-> "idle"]
  /\ build = [c \in Callers |-> active]
  /\ quiet = [c \in Callers |-> FALSE]
  /\ reloads = 0
  /\ outcome = "none"

-----------------------------------------------------------------------------
(* External: an operator edits the manifest or rotates a file; a file may  *)
(* be missing in between.                                                  *)
Disturb ==
  /\ changes < MaxChanges
  /\ changes' = changes + 1
  /\ quiet' = [c \in Callers |-> FALSE]
  /\ outcome' = "none"
  /\ UNCHANGED <<running, gate, pc, build, reloads>>

Edit(m) ==
  /\ m # manifest
  /\ manifest' = m
  /\ Disturb
  /\ UNCHANGED contents

Rotate(f, v) ==
  /\ contents[f] # v
  /\ contents' = [contents EXCEPT ![f] = v]
  /\ Disturb
  /\ UNCHANGED manifest

-----------------------------------------------------------------------------
TrustIgnored(m) == m \in ManifestTexts

(* ensure_trust_unchanged, ensure_state_unchanged.                         *)
TrustUnchanged(m) == TrustOf(m) = trust

Take(c, m, next) ==
  /\ pc[c] = "idle"
  /\ gate = None
  /\ reloads < MaxReloads
  /\ reloads' = reloads + 1
  /\ TrustUnchanged(m)
  /\ gate' = c
  /\ pc' = [pc EXCEPT ![c] = next]
  /\ build' = [build EXCEPT ![c].man = m]
  /\ quiet' = [quiet EXCEPT ![c] = TRUE]
  /\ outcome' = "none"
  /\ UNCHANGED <<onDisk, running>>

(* reload_from_disk: gate, read and parse, the two refusals.               *)
ReloadFromDisk(c) == Take(c, manifest, "hash")

(* reload: the caller supplies the manifest and there is no early way out. *)
ReloadApi(c, m) == Take(c, m, "load")

(* A manifest that does not read or parse, or that would change [trust] or *)
(* [state], is refused before anything else.                               *)
Refuse(c) ==
  /\ pc[c] = "idle"
  /\ gate = None
  /\ reloads < MaxReloads
  /\ reloads' = reloads + 1
  /\ outcome' = "failed"
  /\ UNCHANGED <<onDisk, running, gate, pc, build, quiet>>

Goto(c, next) == pc' = [pc EXCEPT ![c] = next]

GateManifestOnly(c) ==
  /\ pc[c] = "hash"
  /\ Goto(c, IF build[c].man = active.hash.man THEN "print" ELSE "load")
  /\ UNCHANGED <<onDisk, running, gate, build, quiet, reloads, outcome>>

(* The gate's first half: content_hash_at over the manifest and the public *)
(* files.  A file that cannot be read sends the reload to the full build.  *)
GateHash(c) ==
  /\ pc[c] = "hash"
  /\ LET same == /\ build[c].man = active.hash.man
                 /\ Over(Public, contents) = active.hash.pub
     IN Goto(c, IF same THEN "print" ELSE "load")
  /\ UNCHANGED <<onDisk, running, gate, build, quiet, reloads, outcome>>

(* The second half, reload_fingerprint: nothing moved.                     *)
GateUnchanged(c) ==
  /\ pc[c] = "print"
  /\ Over(Secret, contents) = active.print
  /\ gate' = None
  /\ Goto(c, "idle")
  /\ outcome' = IF quiet[c] THEN "unchanged" ELSE "none"
  /\ UNCHANGED <<onDisk, running, build, quiet, reloads>>

GateRotated(c) ==
  /\ pc[c] = "print"
  /\ Over(Secret, contents) # active.print
  /\ Goto(c, "load")
  /\ UNCHANGED <<onDisk, running, gate, build, quiet, reloads, outcome>>

-----------------------------------------------------------------------------
(* build_active: filters with their config files, then the client-auth CA, *)
(* then certificates, keys and the STEK.                                   *)
LoadMaterial(c) ==
  /\ pc[c] = "load"
  /\ \A f \in Early \cup Shared : contents[f] # Unreadable
  /\ build' = [build EXCEPT ![c].mat =
                 [f \in Referenced |-> IF f \in Late THEN @[f] ELSE contents[f]]]
  /\ Goto(c, "digest")
  /\ UNCHANGED <<onDisk, running, gate, quiet, reloads, outcome>>

DigestRereadsCa(c) ==
  /\ pc[c] = "digest"
  /\ \A f \in Public : contents[f] # Unreadable
  /\ build' = [build EXCEPT ![c].hash =
                 [man |-> build[c].man, pub |-> Over(Public, contents)]]
  /\ Goto(c, "fingerprint")
  /\ UNCHANGED <<onDisk, running, gate, quiet, reloads, outcome>>

(* content_hash_with_ca_at: the CA's bytes come from the read above, every *)
(* other public file is read again.                                        *)
DigestPublic(c) ==
  /\ pc[c] = "digest"
  /\ \A f \in Public \ Shared : contents[f] # Unreadable
  /\ build' = [build EXCEPT ![c].hash =
                 [man |-> build[c].man,
                  pub |-> [f \in Public |-> IF f \in Shared THEN build[c].mat[f]
                                            ELSE contents[f]]]]
  /\ Goto(c, "fingerprint")
  /\ UNCHANGED <<onDisk, running, gate, quiet, reloads, outcome>>

(* reload_fingerprint reads every secret file again.                       *)
Fingerprint(c) ==
  /\ pc[c] = "fingerprint"
  /\ \A f \in Secret : contents[f] # Unreadable
  /\ build' = [build EXCEPT ![c].print = Over(Secret, contents)]
  /\ Goto(c, "reconcile")
  /\ UNCHANGED <<onDisk, running, gate, quiet, reloads, outcome>>

(* reconcile: a group whose [upstream.tls] section reads the same keeps    *)
(* its TLS client; otherwise the files are read.  Then the registry holds  *)
(* new group values, and the routes are compiled against them.             *)
TlsReusable(c) == TlsOf(build[c].man) = TlsOf(registry.man)

LateMaterial(c) == IF TlsReusable(c) THEN registry.mat ELSE Over(Late, contents)

Reconcile(c) ==
  /\ pc[c] = "reconcile"
  /\ \A f \in Late : LateMaterial(c)[f] # Unreadable
  /\ registry' = [man |-> build[c].man, gen |-> reloads, mat |-> LateMaterial(c)]
  /\ build' = [build EXCEPT
       ![c].gen = reloads,
       ![c].mat = [f \in Referenced |-> IF f \in Late THEN LateMaterial(c)[f] ELSE @[f]]]
  /\ Goto(c, "store")
  /\ UNCHANGED <<onDisk, active, trust, gate, quiet, reloads, outcome>>

(* active.store and the release of the gate.                               *)
Store(c) ==
  /\ pc[c] = "store"
  /\ active' = build[c]
  /\ gate' = None
  /\ Goto(c, "idle")
  /\ outcome' = IF quiet[c] THEN "reloaded" ELSE "none"
  /\ UNCHANGED <<onDisk, trust, registry, build, quiet, reloads>>

FailAnywhere(c) ==
  /\ pc[c] \in {"load", "digest", "fingerprint", "reconcile", "store"}
  /\ gate' = None
  /\ Goto(c, "idle")
  /\ outcome' = "failed"
  /\ UNCHANGED <<onDisk, running, build, quiet, reloads>>

(* Any fallible step of the build returns its error: an artifact that does *)
(* not verify, a route that does not validate, a file that does not parse  *)
(* or cannot be read.  Nothing after reconcile can fail.                   *)
Fail(c) ==
  /\ pc[c] \in {"load", "digest", "fingerprint", "reconcile"}
  /\ gate' = None
  /\ Goto(c, "idle")
  /\ outcome' = "failed"
  /\ UNCHANGED <<onDisk, running, build, quiet, reloads>>

ReloadNext ==
  \/ \E m \in ManifestTexts : Edit(m)
  \/ \E f \in Referenced, v \in Contents : Rotate(f, v)
  \/ \E c \in Callers :
       \/ ReloadFromDisk(c) \/ Refuse(c)
       \/ \E m \in ManifestTexts : ReloadApi(c, m)
       \/ GateHash(c) \/ GateUnchanged(c) \/ GateRotated(c)
       \/ LoadMaterial(c) \/ DigestPublic(c) \/ Fingerprint(c)
       \/ Reconcile(c) \/ Store(c) \/ Fail(c)

ReloadSpec == ReloadInit /\ [][ReloadNext]_reloadVars

-----------------------------------------------------------------------------
(* Whenever no reload is under way, the groups the routes hold are the     *)
(* ones the registry probes, with the same TLS material: neither a failed  *)
(* reload nor two concurrent ones leave routes on abandoned groups.        *)
RoutesAreProbed ==
  (\A c \in Callers : pc[c] = "idle") =>
    /\ active.gen = registry.gen
    /\ active.man = registry.man
    /\ Over(Late, active.mat) = registry.mat

(* The config version that is logged describes the client-auth trust roots *)
(* the verifier was built from, rotation during the build or not           *)
(* (lib.rs:687-688).                                                       *)
VersionDescribesCa ==
  /\ active.hash.man = active.man
  /\ \A f \in Shared : active.hash.pub[f] = active.mat[f]

Current(f) == outcome \in {"unchanged", "reloaded"} => active.mat[f] = contents[f]

(* A reload that reports success on a disk that stood still leaves the     *)
(* client-auth CA of the disk in use.                                      *)
CaCurrent == \A f \in Shared : Current(f)

(* The same for certificates, keys, the STEK and config files.  Refuted: a *)
(* rotation between a build's use of a file and its digest is recorded as  *)
(* loaded, and every later reload reports Unchanged.                       *)
RotationLoads == \A f \in Early : Current(f)

(* The same for the files of [upstream.tls].  Refuted: reconcile reuses    *)
(* the TLS client whenever the section's paths are unchanged.              *)
UpstreamTlsCurrent == \A f \in Late : Current(f)

(* Routes lead to probed groups, and the recorded version describes the    *)
(* client-auth CA in use, the one on disk after a quiet reload.            *)
ReloadSound == RoutesAreProbed /\ VersionDescribesCa /\ CaCurrent
=============================================================================
