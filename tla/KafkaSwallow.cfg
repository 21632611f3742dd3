\* Requests the server refuses on every attempt, the default policy.
SPECIFICATION Spec
CONSTANTS
  k1 = k1
  k2 = k2
  r1 = r1
  p1 = p1
  p2 = p2
  Keys = {k1, k2}
  Refs = {r1}
  NoRef = NoRef
  Vals = {1, 2}
  BadVals = {}
  NoRow = NoRow
  NoDoc = NoDoc
  NoTid = NoTid
  NoLsn = NoLsn
  Tombstone = Tombstone
  BadDocs = {}
  Faults = {"refused"}
  DocIds <- MCDocIds
  LexRank <- MCLexRank
  InitRows <- MCInitRows
  InsertRows <- MCInsertRows
  ChangeKinds = {"insert", "update", "delete"}
  ReplicaIdentity = "full"
  MaxRowsPerTxn = 1
  MaxEvents = 3
  HasTids = TRUE
  Partitions = {p1, p2}
  PartitionOf <- MCPartitionOf
  BatchSize = 2
  MaxRestarts = 1
  StartPolicies = {"source_wins"}
INVARIANT CommittedMeansApplied
CHECK_DEADLOCK FALSE
