SPECIFICATION Spec
CONSTANTS
  Families = {"authority", "forwarded", "connection", "chain", "inspection", "coding"}
  Scenarios <- MCScenarios
  AcceptEncodings <- MCAcceptEncodings
  Trusted = {"p1", "p2"}
  MaxForwarded = 2
  MaxGuestBody = 3
  MaxBody = 3
INVARIANTS ChainSound MessageSound HeadersSound
