SPECIFICATION FairSpec
CONSTANTS
  Runners = {server}
  YearOf <- MCYearOf
  StartYears = {1, 2}
  None = None
  PageSize = 2
  Initially = 4
  EmptyAnswers = TRUE
  MaxListed = 6
  MaxPages = 3
PROPERTIES
  WalkIsFinished
