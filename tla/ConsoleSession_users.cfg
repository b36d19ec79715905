\* Logins, user operations and password changes side by side, on one thread
\* and on two.
SPECIFICATION Spec
CONSTANTS
  adm = adm  bob = bob  a0 = a0  l1 = l1  l2 = l2  l3 = l3  r1 = r1  r2 = r2
  Users = {adm, bob}
  Admins = {adm}
  Logins = {a0, l1, l2, l3}
  SignedIn <- AdminSignedIn
  NoAddress = NoAddress
  Requests = {r1, r2}
  Mixes <- SomeMixes
  Tries <- SomeTries
  Asks <- SomeAsks
  ThreadCounts = {1, 2}
  MaxAttempts = 1
  Lockout = 1
  SessionTTL = 1
  IdleTimeout = 0
  MaxClock = 1
  MaxPassword = 1
  MaxFaults = 1
SYMMETRY Interchangeable
INVARIANTS TypeOK OldPasswordOnlyInFlight GuessesBounded RoleChangesAudited RotatedOnRoleChange TokenSpent
CHECK_DEADLOCK FALSE
