\* One request at a time through chains of one, two and three backends.
SPECIFICATION Spec
CONSTANTS
  q1 = q1  q2 = q2  q3 = q3  k1 = k1  b1 = b1  b2 = b2  b3 = b3
  Requests = {q1}
  Keys = {k1}
  KeyOf <- OneKey
  Models = {"m1", "m2", "m3"}
  Backends = {b1, b2, b3}
  Rules <- RulesWithFallback
  Default = b3
  Statuses = {200, 400, 500, 503}
  MaxTok = 1
  Limits = {0, 1}
  MaxOps = 1
  MaxCrashes = 1
  NoOne = NoOne
INVARIANTS FallbackSound AuditMatches
CHECK_DEADLOCK FALSE
