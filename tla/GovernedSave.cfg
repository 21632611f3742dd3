\* Two requests, four mappings over two classes, one interruption.
\* CHECK_DEADLOCK is off: with every request ended there is nothing to do.
SPECIFICATION Spec
CONSTANTS
  t1 = t1
  t2 = t2
  e1 = e1
  A = A
  B = B
  Tables = {t1, t2}
  Relations = {e1}
  FromTable <- MCFromTable
  Absent = Absent
  ProjectWide = ProjectWide
  Mappings <- MCMappings
  Empty <- MCEmpty
  NoFile = NoFile
  Blank = Blank
  Requests = {q1, q2}
  Nobody = Nobody
  MaxInterruptions = 1
INVARIANTS
  EntriesPointAtKept
  HistoryAccounts
PROPERTIES
  SaveIsChecked
  ReplacedIsKept
  EveryRequestEnds
CHECK_DEADLOCK FALSE
