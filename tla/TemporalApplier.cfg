\* One entity, two contents, three changes, one redelivery, one change cut
\* short, a clock of three ticks, versions kept for one tick once closed.
\* CHECK_DEADLOCK is off: the bounded table and clock stop.
SPECIFICATION Spec
CONSTANTS
  Keys = {k1}
  Data = {d1, d2}
  NoRow = NoRow
  Never = 4
  Retain = 1
  MaxOps = 3
  MaxAborts = 1
  MaxRedeliveries = 1
INVARIANTS
  IntervalsDisjoint
  VersionsHaveProxies
  CaughtUpMeansCurrent
PROPERTY
  HistoryUnchanged
CHECK_DEADLOCK FALSE
