SPECIFICATION Spec
CONSTANTS
  Encoded <- MCEncoded
  Unclean <- MCUnclean
  NoRoute = NoRoute
  Wild = Wild
  MaxU64 = 9
  Unseen = Unseen
  MaxBackendWeight = 6
  MaxTableLen = 6
  Workers = {w1, w2}
  Requests <- MCRequests
  Routes <- MCRoutes
  InstancesOf <- MCInstancesOf
  SlotOf <- MCSlotOf
  Interval = 2
  MinClock = 4
  MaxClock = 6
  MaxGens = 2
  MaxRequests = 3
CONSTRAINT FlipsAlone
SYMMETRY WorkerSymmetry
INVARIANTS OriginAgrees BucketHonest SplitSound
CHECK_DEADLOCK FALSE
