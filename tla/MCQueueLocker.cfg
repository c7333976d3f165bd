CONSTANTS
  k1 = k1
  k2 = k2
  o1 = o1
  o2 = o2
  z1 = z1
  d1 = d1
  d2 = d2
  d3 = d3
  Keys = {k1, k2}
  Zones = {z1}
  Domains = {d1, d2, d3}
  NoDomain = NoDomain
  Owners = {o1, o2}
  Ttls <- MCTtls
  MaxConnections <- MCMaxConnections
  MaxTime = 5
SPECIFICATION FairSpec
INVARIANTS Consistent TimerCoversLocks SkippedDomainIsFull
PROPERTIES ImplementsLeases ExpiredIsReleased
