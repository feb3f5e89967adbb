SPECIFICATION RequestSpec
CONSTANTS
  Parts = {"limits", "forward", "health"}
  Requests = {r1, r2, r3}
  MaxInflight = 2
  Budget = 2
  MaxRequests = 1
  Instances = {i1, i2}
  MaxRetries = 2
  PerTry = 2
  Overalls = {0, 5}
  Base = 1
  Cap = 3
  Horizon = 9
  Addrs = {a1}
  Senders = {s1}
  Sections <- MCSections
  Gens = 2
  MaxProbes = 2
  MaxFlips = 1
  strict = strict lax = lax
INVARIANTS LimitsCover AttemptsSound ServesAsDeclared
PROPERTIES PermitsReturn ForwardEnds HealthSettles
