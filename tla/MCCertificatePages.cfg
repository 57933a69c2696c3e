SPECIFICATION FairSpec
CONSTANTS
  Server = server
  Cli = {}
  Certificates <- MCThree
  None = None
  MaxDetails = 2
  MaxAttempts = 3
  Delay = 1
INVARIANTS
  TypeOK
  ProcessIsPolite
  IndexShowsRow
PROPERTIES
  FetchedForGood
  PagesAreFetched
