SPECIFICATION Spec
CONSTANTS
  Threads = {t1, t2}
  Emails = {e1, e2}
  Words = {w1, w2}
  None = None
  Credits = 2
  Year = 1
  MaxUserId = 1
  MaxKeywordId = 3
  MaxClock = 2
INVARIANTS
  TypeOK
  CreditsCoverKeywords
  NothingInherited
  DebitKeyUnused
PROPERTIES
  NoRefund
  PlanHolds
SYMMETRY Symmetry
