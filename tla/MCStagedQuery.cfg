SPECIFICATION Spec
CONSTANTS
  a = a
  b = b
  x = x
  y = y
  Sids = {1, 2, 3}
  Cats = {a, b}
  Tags = {x, y}
  Values <- MCValues
  Tombstone = Tombstone
  Recovered <- MCRecovered
  Puts <- MCPuts
  Deletes = {1}
  Asks <- MCAsks
  AnyCat = AnyCat
  Reps = 2
  Margin = 15
  Writers = {w1}
  Threads = {t1, t2}
  Cap = 1
  MaxCommits = 5
  MaxPuts = 1
  MaxQueries = 2
SYMMETRY ThreadSymmetry
INVARIANTS
  TypeOK
  AnswersAreFresh
  UntouchedMatchesAreFound
  SummaryIsSmall
  DrillReturnsItsOwnResult
  KeepsTheNewest
\* Every query is made: the callers rest.
CHECK_DEADLOCK FALSE
