\* Two entries, one of which the control plane refuses, rounds of one entry,
\* two crashes.
\* CHECK_DEADLOCK is off: with every entry finished there is nothing to do.
SPECIFICATION OutboxSpec
CONSTANTS
  Ids = {i1, i2}
  Invalid = {i2}
  Worker = Worker
  NoThread = NoThread
  NoEntry = NoEntry
  Limit = 1
  MaxCrashes = 2
INVARIANTS
  NeverLost
  FinishedForAReason
PROPERTIES
  StaysFinished
  EventuallyFinished
CHECK_DEADLOCK FALSE
