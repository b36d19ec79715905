\* Two workers: a lookup straddles the revoke of its token.
SPECIFICATION Spec
CONSTANTS
  w1 = w1  w2 = w2  w3 = w3  p1 = p1  p2 = p2  p3 = p3
  r1 = r1  r2 = r2  r3 = r3  m1 = m1  m2 = m2  m3 = m3  v1 = v1  v2 = v2
  Wires = {w1}
  Prefixes = {p1}
  PrefixOf <- OneWire
  Users = {u1}
  Expiries <- NoExpiry
  Requests = {r1, r2}
  Minters = {m1}
  Revokers = {v1}
  Workers = 2
  Capacity = 1
  TTL = 2
  MaxLookup = 1
  MaxClock = 2
  Method = "socket"
  NoRow = NoRow
INVARIANT RevokeEffectiveNextRequest
CHECK_DEADLOCK FALSE
