SPECIFICATION Spec
CONSTANTS
  Runners = {server, cli}
  YearOf <- MCYearOf
  StartYears = {1, 2}
  None = None
  PageSize = 2
  Initially = 5
  EmptyAnswers = TRUE
  MaxListed = 7
  MaxPages = 3
INVARIANTS
  TypeOK
  ResumeSkipsNothing
  WalksCoverHistory
SYMMETRY Symmetry
