SPECIFICATION Spec
CONSTANTS
  Person = Person
  City = City
  NoTableHere = NoTableHere
  NoRefHere = NoRefHere
  Tables <- MCTables
  Parent <- MCParent
  NoTable = NoTableHere
  NoRef = NoRefHere
  Keys = {1, 2}
  InitialRows <- MCInitialRows
  DocOrder <- MCDocOrder
  Delegated = {City}
  Recent = {1}
  RunOptions <- MCRunOptions
  Layouts = {"pg", "lpg"}
  BatchSize = 1
  ErrorCap = 1
  MaxRuns = 3
  MaxCommits = 1
  MaxFaults = 1
INVARIANTS RowsAccountedFor EdgesHaveEnds ReloadIsFresh
PROPERTIES EveryRunEnds
CHECK_DEADLOCK FALSE
