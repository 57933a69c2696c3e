SPECIFICATION Spec
CONSTANTS
  Visitors = {v}
  Words = {"w"}
  Meetings = {1, 2}
  YearOf <- MCYearOf
  Projects <- MCProjects
  TitleOf <- MCTitleOf
  Certificates = {1, 2, 3}
  CertificateOf <- MCCertificateOf
  Classify <- MCClassify
  Typed = {"PUZ", "INFO"}
  None = None
  Page = 1
  MaxLimit = 2
  MaxRows = 1
INVARIANTS
  TypeOK
  AnswersWhatWasAsked
  PagerShowsAll
  RowsAreFound
