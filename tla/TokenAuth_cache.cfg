\* More prefixes than slots: capacity, eviction order, provenance.
SPECIFICATION Spec
CONSTANTS
  w1 = w1  w2 = w2  w3 = w3  p1 = p1  p2 = p2  p3 = p3
  r1 = r1  r2 = r2  r3 = r3  m1 = m1  m2 = m2  m3 = m3  v1 = v1  v2 = v2
  Wires = {w1, w2, w3}
  Prefixes = {p1, p2, p3}
  PrefixOf <- DistinctPrefixes
  Users = {u1}
  Expiries <- NoExpiry
  Requests = {r1, r2, r3}
  Minters = {m1, m2, m3}
  Revokers = {}
  Workers = 2
  Capacity = 2
  TTL = 1
  MaxLookup = 0
  MaxClock = 1
  Method = "none"
  NoRow = NoRow
SYMMETRY TaskSymmetry
INVARIANT CacheBounded
PROPERTY EvictionSparesLive
CHECK_DEADLOCK FALSE
