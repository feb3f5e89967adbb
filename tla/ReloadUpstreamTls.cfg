SPECIFICATION ReloadSpec
CONSTANTS
  Callers = {c1}
  Early = {cert, secret}
  Shared = {ca}
  Late = {upca}
  Secret = {secret}
  ManifestTexts = {"a", "tls", "trust"}
  WithTrust = {"trust"}
  WithTls = {"tls"}
  Versions = {1, 2}
  MaxChanges = 2
  MaxReloads = 2
  None = None
CHECK_DEADLOCK FALSE
INVARIANTS UpstreamTlsCurrent
