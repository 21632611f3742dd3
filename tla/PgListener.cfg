\* Two rows, three events in transactions of one or two, a slot made before
\* the load, one interruption, one stop, lost replies,
\* three policies (KafkaConsumer.cfg has the fourth).
\* CHECK_DEADLOCK is off: the bounded source stops, and a listener that has
\* caught up then has nothing to do.
SPECIFICATION Spec
CONSTANTS
  k1 = k1
  k2 = k2
  r1 = r1
  Keys = {k1, k2}
  Refs = {r1}
  NoRef = NoRef
  Vals = {1, 2}
  BadVals = {}
  NoRow = NoRow
  NoDoc = NoDoc
  NoTid = NoTid
  NoLsn = NoLsn
  NoSlot = NoSlot
  BadDocs = {}
  Faults = {"lost_reply"}
  DocIds <- MCDocIds
  LexRank <- MCLexRank
  InitRows <- MCInitRows
  InsertRows <- MCInsertRows
  ChangeKinds = {"insert", "update", "delete"}
  ReplicaIdentity = "full"
  MaxRowsPerTxn = 2
  MaxEvents = 3
  HasTids = TRUE
  LoadBeforeSlot = FALSE
  MaxInterruptions = 1
  MaxStops = 1
  StartPolicies = {"source_wins", "log_and_skip", "fail"}
INVARIANTS
  OnlyInterruptionsLose
  CaughtUpMeansMirror
PROPERTIES
  NeverTwice
  KeepsCatchingUp
CHECK_DEADLOCK FALSE
