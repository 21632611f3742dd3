\* A graph of two tables, its mapping edited twice, migrated and migrated again.
SPECIFICATION Spec
CONSTANTS
  none = none
  everything = everything
  Nothing = none
  All = everything
  TableOrder <- MCTables
  ColumnOrder <- MCColumns
  Recase <- MCRecase
  Schemas <- MCSchemas
  Mappings <- MCMappings
  Names <- MCNames
  Props <- MCProps
  Classes <- MCClasses
  MaxChanges = 2
  MaxRuns = 3
  MaxTurns = 4
  MaxFaults = 1
INVARIANTS
  LoadedIsLive
  MigratedConfigFits
PROPERTIES
  WritesAreChecked
CHECK_DEADLOCK FALSE
