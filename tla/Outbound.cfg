SPECIFICATION OutboundSpec
CONSTANTS
  redis = redis
  Addrs <- MCAddrs
  Allow <- MCAllow
  Names = {redis}
  AllowPrivate = {"rfc1918"}
  Stores = {s1, s2}
  Socks = {1, 2}
  StoreCap = 2
  HostCap = 2
  MaxConnections = 1
  MaxPinned = 1
  MaxLookups = 1
  Calls = {c1, c2}
  MaxConcurrent = 1
  Nobody = Nobody
INVARIANTS CeilingsCover PeersVetted
PROPERTY ConnectionsEnd
