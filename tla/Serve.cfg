SPECIFICATION MCSpec
CONSTANTS
  Tcp = {c1, c2}
  Quic = {q1}
  MaxConnections = 2
  SigLen = 2
  MaxDeclared = 4
  Streams <- MCStreams
  Hosts = {h1, h2}
  Answers = {{"a"}, {"b"}}
  MaxGroups = 2
  MaxChanges = 1
  Capacity = 3
  MaxBatch = 2
  MaxAttempts = 3
  MaxSpans = 6
  RouteNames = {"a", "b"}
  Unmatched = "unmatched"
  Tasks = {t1, t2}
  MaxRuns = 2
  MaxScrapes = 1
  Requests = {r1, r2}
  Addresses = {1, 2}
  MaxClients = 1
  MaxConfigs = 3
  MaxBytes = 3
INVARIANTS DrainSound ClientReadRight TelemetryAccounted ClientMatchesGroup
PROPERTIES ShutdownEnds EndpointsSettle
CHECK_DEADLOCK FALSE
