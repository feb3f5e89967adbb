------------------------------ MODULE Artifact ------------------------------
(***************************************************************************)
(* From a digest pin to a filter that may run: the OCI layout read by      *)
(* crates/control/src/oci.rs, the trust gate of crates/host/src/trust.rs   *)
(* and the load of crates/host/src/host.rs.  Contents are values and a     *)
(* digest names its content.  A layout is [inside, first, blobs]: whether  *)
(* its path resolves below the store's root, the digest its index lists    *)
(* first, and what is stored under each digest.  A result is [err, ...];   *)
(* err is "none" when the operation succeeds.                              *)
(***************************************************************************)
EXTENDS Manifest

CONSTANTS DelimitedIds,    \* filter ids that contain the state store's delimiter
          Ceiling,         \* the host's maximum of an outbound limit, scaled down
          PoolMax          \* TRUSTED_POOL_MAX, scaled down

Digest(content) == <<"sha256", content>>
MediaTypes == {"wasm", "sig", "sbom", "sbom-sig"}

(* read_blob: a regular file of the declared size, whose content is the    *)
(* one its name promises.                                                  *)
BlobErr(layout, d) ==
  IF d \notin DOMAIN layout.blobs \/ ~layout.blobs[d].regular THEN "blob"
  ELSE IF layout.blobs[d].size # layout.blobs[d].declared THEN "size"
  ELSE IF Digest(layout.blobs[d].content) # d THEN "content" ELSE "none"

Refused(err) == [err |-> err]

(* resolve, read_layout: the pin is compared with the index's first entry, *)
(* then everything else is reached through digests from it.                *)
Resolve(layout, pin) ==
  LET image == layout.blobs[layout.first].content
      faults == {BlobErr(layout, image[t]) : t \in DOMAIN image} \ {"none"}
  IN  IF layout = Absent \/ ~layout.inside THEN Refused("source")
      ELSE IF layout.first = Absent THEN Refused("index")
      ELSE IF layout.first # pin THEN Refused("pin")
      ELSE IF BlobErr(layout, layout.first) # "none" THEN Refused("manifest")
      ELSE IF MediaTypes \ DOMAIN image # {} THEN Refused("layer")
      ELSE IF faults # {} THEN Refused("layer")
      ELSE [err |-> "none", artifact |->
              [t \in MediaTypes |-> layout.blobs[image[t]].content]]

(* verify_artifact: both signatures by a trusted key, and an SBOM whose    *)
(* subjects name this component.                                           *)
Verifies(keys, signature, content) ==
  signature # Absent /\ signature.over = content /\ signature.by \in keys
SbomBinds(a) == Digest(a["wasm"]) \in a["sbom"].subjects

(* The binding of the SBOM to its component is not looked at.              *)
VerifySignaturesOnly(keys, a) ==
  IF a["sbom"] = Absent THEN "missing_sbom"
  ELSE IF ~Verifies(keys, a["sig"], a["wasm"]) THEN "component_signature"
  ELSE IF ~Verifies(keys, a["sbom-sig"], a["sbom"]) THEN "sbom_signature" ELSE "none"

VerifyArtifact(keys, a) ==
  IF a["sbom"] = Absent THEN "missing_sbom"
  ELSE IF ~Verifies(keys, a["sig"], a["wasm"]) THEN "component_signature"
  ELSE IF ~Verifies(keys, a["sbom-sig"], a["sbom"]) THEN "sbom_signature"
  ELSE IF ~SbomBinds(a) THEN "sbom_unbound" ELSE "none"

(* check_contract_target: a verdict over the static imports and exports.   *)
(* A component is [kind, uses, imports, version, worlds, init]: `uses` are *)
(* the Wasm proposals in its code, all of which this check accepts,        *)
(* `version` is the contract its plecto imports name, `worlds` the ones it *)
(* satisfies.                                                              *)
Contract == {"types", "host-log", "host-clock", "host-config", "host-kv", "host-counter",
             "host-ratelimit"}
ContractTarget(c) ==
  IF c.kind # "component" THEN "undecodable"
  ELSE IF c.imports \ Contract # {} THEN "inconclusive"
  ELSE IF c.worlds = {} THEN "not_satisfied" ELSE "none"

(* add_cli_runtime, add_wasi_base_p3, add_inert_filesystem: what a linker  *)
(* is given beside the contract; the file system has no directory.         *)
WasiBase == {"wasi:io", "wasi:clocks", "wasi:random", "wasi:cli"}
InertFilesystem == {"wasi:filesystem"}

(* LoadOptions: the host's defaults, with a generous init for a filter     *)
(* whose instances are reused, and the knobs that replace them.            *)
Knobs == NonZeroKnobs \cup PoolKnobs
Defaults(isolation) ==
  [k \in Knobs |-> IF k = "init_deadline_ms" /\ isolation = "trusted" THEN 2 ELSE 1]
With(given, defaults) ==
  [k \in DOMAIN defaults |-> IF k \in DOMAIN given THEN given[k] ELSE defaults[k]]

(* with_outbound_http, with_outbound_tcp: every limit is clamped, and a    *)
(* range that does not parse stays blocked.                                *)
HttpKnobs == {"connect_timeout_ms", "total_timeout_ms", "max_response_bytes", "max_concurrent"}
TcpKnobs == {"max_connections", "io_deadline_ms"}
Clamp(v, max) == IF v < 1 THEN 1 ELSE IF v > max THEN max ELSE v
Policy(ob, knobs) ==
  LET limits == With(ob.limits, [k \in knobs |-> 1])
  IN  [allow |-> ob.allow, allow_private |-> ob.allow_private \ {BadCidr},
       limits |-> [k \in knobs |-> Clamp(limits[k], Ceiling)]]

(* FilterEntry::load_options                                               *)
LoadOptions(f, config) ==
  [isolation |-> f.isolation, dispatch |-> f.dispatch, ratelimit |-> f.ratelimit,
   limits |-> With(f.limits, Defaults(f.isolation)), config |-> config,
   http |-> IF f.outbound_http = Absent THEN Absent ELSE Policy(f.outbound_http, HttpKnobs),
   tcp |-> IF f.outbound_tcp = Absent THEN Absent ELSE Policy(f.outbound_tcp, TcpKnobs),
   wasi_minimal |-> f.wasi = "minimal"]

(* LentCapabilities: whole namespaces, and the WASI base with any of them. *)
Lent(opts) ==
  (IF opts.http # Absent THEN {"http"} ELSE {})
    \cup (IF opts.tcp # Absent THEN {"sockets"} ELSE {})
    \cup (IF opts.wasi_minimal THEN {"filesystem"} ELSE {})
Covers(opts, import) ==
  \/ import \in Contract
  \/ import \in WasiBase /\ Lent(opts) # {}
  \/ import \in {"wasi:" \o n : n \in Lent(opts)}
  \/ import \in {"wasi:sockets/tcp", "wasi:sockets/udp"} /\ "sockets" \in Lent(opts)

(* The linker is finer: of the sockets it has only TCP and the lookup.     *)
Linked(opts) ==
  Contract \cup (IF Lent(opts) = {} THEN {} ELSE WasiBase)
    \cup (IF "filesystem" \in Lent(opts) THEN InertFilesystem ELSE {})
    \cup (IF "http" \in Lent(opts) THEN {"wasi:http"} ELSE {})
    \cup (IF "sockets" \in Lent(opts) THEN {"wasi:sockets/tcp"} ELSE {})

(* A trusted filter runs on the connection's own task only when nothing it *)
(* imports or was lent can block.                                          *)
MayBlock(c, backend) ==
  \/ c.imports \ Contract # {}
  \/ backend = "redb" /\ c.imports \cap {"host-kv", "host-counter", "host-ratelimit"} # {}
RunsInline(opts, c, backend) ==
  /\ opts.isolation = "trusted" /\ opts.dispatch = "auto"
  /\ ~MayBlock(c, backend)
  /\ Lent(opts) = {}

(* The response-body hook exists from contract 0.4 on.                     *)
BodyHooks(c) == c.exports \cap (IF c.version = "0.4" THEN {"request", "response"} ELSE {"request"})

(* build_engine: proposals the engine is not lent, so that a component may *)
(* satisfy its world and still not compile.                                *)
EngineOff == {"gc", "exceptions", "wide_arithmetic"}
Compiles(c) == c.kind = "component" /\ c.uses \cap EngineOff = {}

(* The component links against the contract it names, and a trusted one's  *)
(* first instance initialises.                                             *)
Links(opts, c) == c.version \in c.worlds /\ c.imports \subseteq Linked(opts)
Initialises(opts, c) == opts.isolation = "trusted" => c.init
PoolCap(opts) == Clamp(opts.limits["pool_size"], PoolMax)

(* load_inner; a trusted filter's first instance is initialised here.      *)
Load(id, opts, a, keys, backend) ==
  LET c == a["wasm"]
      gate == VerifyArtifact(keys, a)
  IN  IF id = "" \/ id \in DelimitedIds THEN Refused("id")
      ELSE IF gate # "none" THEN Refused(gate)
      ELSE IF ~Compiles(c) THEN Refused("compile")
      ELSE IF c.version = Absent THEN Refused("version")
      ELSE IF \E i \in c.imports : ~Covers(opts, i) THEN Refused("capability")
      ELSE IF ~Links(opts, c) THEN Refused("link")
      ELSE IF ~Initialises(opts, c) THEN Refused("init")
      ELSE [err |-> "none",
            filter |-> [component |-> c, options |-> opts, cap |-> PoolCap(opts),
                        hooks |-> BodyHooks(c), inline |-> RunsInline(opts, c, backend)]]
=============================================================================
