SPECIFICATION MCSpec
CONSTANTS
  Threads = {t1, t2}
  Keys = {"k1", "k2"}
  Contexts <- MCContexts
  NoKey = NoKey
  Broken = Broken
  MaxAge = 1
  MaxBuilds = 2
  MaxWrites = 1
  Absent = Absent
  BadCidr = BadCidr
  Features = {"outbound-http", "outbound-tcp"}
  MaxInstanceWeight = 3
  MaxHashTableSize = 7
  MaxBackendWeight = 6
  MaxTableLen = 6
  DelimitedIds = {"a.b"}
  Ceiling = 2
  PoolMax = 2
  Manifests <- MCManifests
  Files <- MCFiles
  Layouts <- MCLayouts
  Pairs <- MCPairs
  HashOf <- MCHashOf
  Signatures <- MCSignatures
  Sboms <- MCSboms
  InitialDisk <- MCInitialDisk
  MaxEdits = 2
INVARIANTS ResumesInContext PassedCheckLoads ActiveSound
CHECK_DEADLOCK FALSE
PROPERTIES ExpiredKeysAreDead KeyFileSettles
