SPECIFICATION Spec
CONSTANTS
  Runners = {server}
  Agendas = {1, 2}
  Scanned = {}
  Rows = {1, 2}
  RowsOf <- MCRowsOf
  Cards = {1, 2}
  Scores <- MCScores
  Threshold = 3
  None = None
INVARIANTS
  RowsAreOfTheAgenda
