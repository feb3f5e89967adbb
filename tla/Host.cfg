SPECIFICATION HostSpec
CONSTANTS
  Parts = {"pool", "store", "calls"}
  Threads = {t1, t2, t3}
  Cap = 2
  MaxRequests = 2
  Threshold = 2
  Failures = {"trap", "init", "panic"}
  Callers = {u1, u2}
  kv = kv hits = hits quota = quota
  Keys <- MCKeys
  NsOf <- MCNsOf
  TagOf <- MCTagOf
  StripeOf <- MCStripeOf
  KeyLen <- MCKeyLen
  Legacy <- MCLegacy
  ValueLens = {0, 1}
  CounterLen = 1
  BucketLen = 1
  MaxNsEntries = 2
  MaxNsBytes = 3
  MaxTotalEntries = 2
  MaxTotalBytes = 4
  MaxBatch = 2
  MaxRounds = 1
  FlushEvery = 2
  MaxFaults = 1
  None = None
  MaxLines = 2
  MaxLine = 2
  MaxBytes = 3
  MaxUses = 2
  Retained = 1
  MaxCalls = 2
  MaxSaid = 3
  Sinks = {{}, {"memory", "metrics"}}
  NoGuest = NoGuest
  NoCall = NoCall
INVARIANTS SlotAccounting IdleNeverStranded QuotaHolds CrashLosesLittle OwnOutput
PROPERTIES EveryCheckoutReturns EveryWriteAnswered
