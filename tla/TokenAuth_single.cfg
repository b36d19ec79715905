\* One worker: lookups and revocations do not interleave inside the proxy.
SPECIFICATION Spec
CONSTANTS
  w1 = w1  w2 = w2  w3 = w3  p1 = p1  p2 = p2  p3 = p3
  r1 = r1  r2 = r2  r3 = r3  m1 = m1  m2 = m2  m3 = m3  v1 = v1  v2 = v2
  Wires = {w1, w2}
  Prefixes = {p1}
  PrefixOf <- TwoWires
  Users = {u1}
  Expiries <- NoExpiry
  Requests = {r1, r2}
  Minters = {m1, m2}
  Revokers = {v1, v2}
  Workers = 1
  Capacity = 1
  TTL = 2
  MaxLookup = 0
  MaxClock = 1
  Method = "socket"
  NoRow = NoRow
SYMMETRY TaskSymmetry
INVARIANTS TypeOK CacheMatchesStore RevokeEffectiveNextRequest AcceptedWasMinted
PROPERTY RowsOnlyRevoke
CHECK_DEADLOCK FALSE
