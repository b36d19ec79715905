\* Two requests compete for one budget; one backend, so no fallback.
SPECIFICATION FairSpec
CONSTANTS
  q1 = q1  q2 = q2  q3 = q3  k1 = k1  b1 = b1  b2 = b2  b3 = b3
  Requests = {q1, q2}
  Keys = {k1}
  KeyOf <- OneKey
  Models = {"m1"}
  Backends = {b1}
  Rules <- NoRules
  Default = b1
  Statuses = {200}
  MaxTok = 1
  Limits = {1}
  MaxOps = 1
  MaxCrashes = 1
  NoOne = NoOne
INVARIANTS TypeOK LedgerAgrees OvershootBounded SpentBudgetStops
PROPERTIES ResponsesSettle ImplementsLedger
CHECK_DEADLOCK FALSE
