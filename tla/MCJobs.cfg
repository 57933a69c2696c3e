SPECIFICATION FairSpec
CONSTANTS
  Server = server
  Cli = {cli}
  Meetings <- MCMeetings
  None = None
  RefreshDays = 1
  MaxDay = 2
  MaxMarkers = 1
INVARIANTS
  TypeOK
  MarkedIsMailed
  OutcomeIsRecorded
PROPERTIES
  AlertedOnce
  MarkerIsForOneRun
  UpcomingIsAlerted
