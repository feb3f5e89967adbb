SPECIFICATION HostSpec
CONSTANTS
  Parts = {"pool"}
  Threads = {t1, t2, t3, t4}
  Cap = 1
  MaxRequests = 2
  Threshold = 3
  Failures = {"trap", "init"}
  Callers = {u1, u2}
  kv = kv hits = hits quota = quota
  Keys <- MCKeys
  NsOf <- MCNsOf
  TagOf <- MCTagOf
  StripeOf <- MCStripeOf
  KeyLen <- MCKeyLen
  Legacy <- MCLegacy
  ValueLens = {0, 1}
  CounterLen = 1
  BucketLen = 1
  MaxNsEntries = 1
  MaxNsBytes = 4
  MaxTotalEntries = 3
  MaxTotalBytes = 5
  MaxBatch = 2
  MaxRounds = 1
  FlushEvery = 2
  MaxFaults = 1
  None = None
  MaxLines = 2
  MaxLine = 2
  MaxBytes = 3
  MaxUses = 2
  Retained = 1
  MaxCalls = 2
  MaxSaid = 3
  Sinks = {{}, {"memory", "metrics"}}
  NoGuest = NoGuest
  NoCall = NoCall
SYMMETRY Symmetry
INVARIANT ParkedHasWaker
