SPECIFICATION Spec
CONSTANTS
  Threads = {t1, t2}
  Emails = {e1}
  None = None
  Throttle = 1
  LinkTtl = 1
  SessionTtl = 2
  SweepAfter = 1
  MaxUserId = 1
  MaxLinks = 3
  MaxSessions = 2
  MaxClock = 4
INVARIANTS
  TypeOK
  ThrottleHolds
  SessionsHaveAccount
PROPERTIES
  SessionsLast
  UsedLinkIsDead
SYMMETRY Symmetry
