\* Two rows on two partitions, transactions of one and of two rows, three
\* events, one restart, batches of at most three messages, every policy.
\* CHECK_DEADLOCK is off: the bounded source stops, and a consumer that has
\* caught up then has nothing to do.
SPECIFICATION Spec
CONSTANTS
  k1 = k1
  k2 = k2
  r1 = r1
  p1 = p1
  p2 = p2
  Keys = {k1, k2}
  Refs = {r1}
  NoRef = NoRef
  Vals = {1, 2}
  BadVals = {}
  NoRow = NoRow
  NoDoc = NoDoc
  NoTid = NoTid
  NoLsn = NoLsn
  Tombstone = Tombstone
  BadDocs = {}
  Faults = {}
  DocIds <- MCDocIds
  LexRank <- MCLexRank
  InitRows <- MCInitRows
  InsertRows <- MCInsertRows
  ChangeKinds = {"insert", "update", "delete"}
  ReplicaIdentity = "full"
  MaxRowsPerTxn = 2
  MaxEvents = 3
  HasTids = TRUE
  Partitions = {p1, p2}
  PartitionOf <- MCPartitionOf
  BatchSize = 3
  MaxRestarts = 1
  StartPolicies = {"source_wins", "last_write_wins", "log_and_skip", "fail"}
INVARIANTS
  AtLeastOnce
  CaughtUpMeansMirror
PROPERTIES
  ImplementsDelivery
  PartitionOrder
  KeepsCatchingUp
CHECK_DEADLOCK FALSE
