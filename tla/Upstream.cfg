SPECIFICATION UpstreamSpec
CONSTANTS
  Requests = {r1, r2}
  Instances = {i1, i2, i3, i4}
  Gens = 2
  Threshold = 2
  Percent = 50
  None = None
  Holders = {h1, h2, h3, h4}
  Groups = 3
  MaxOf <- MCMaxOf
  c1 = c1 c2 = c2 c3 = c3 c4 = c4 s1 = s1 s2 = s2
  Conns <- MCConns
  Slots <- MCSlots
  SlotOf <- MCSlotOf
  Limit = 2
  Pickers = {p1, p2}
  N = 3
  Algos = {"round_robin", "least_request", "maglev"}
  Weight <- Uneven
  MaxFlips = 1
  MaxRetries = 1
  MaxPicks = 3
INVARIANTS EjectionCap InFlightAccounted PicksSound EvenRotation
PROPERTY ImplementsAdmission
