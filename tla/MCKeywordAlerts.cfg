SPECIFICATION Spec
SYMMETRY Symmetry
CONSTANTS
  Server = server
  Cli = {cli}
  Emails = {e1, e2}
  Words = {w1}
  Entries = {cert}
  Certificates = {cert}
  None = None
  Window = 1
  MaxUserId = 2
  MaxClock = 2
INVARIANTS
  TypeOK
  NothingMissed
PROPERTIES
  NoRepeat
