---------------------------- MODULE SourceTable ----------------------------
(***************************************************************************)
(* The source database: a table whose transactions become change events.   *)
(* External to r2g; modelled from what the parsers make of its output:     *)
(*  - an UPDATE carries the new row only (old_row is never used for one);   *)
(*  - a DELETE carries the old row as far as REPLICA IDENTITY logs it.      *)
(***************************************************************************)
EXTENDS DeltaTransformer

CONSTANTS
  InitRows,         \* the table when replication starts, already loaded
  ChangeKinds,      \* which row changes the application makes
  InsertRows,       \* bound: the rows it inserts
  ReplicaIdentity,  \* "full", "default" (key columns) or "nothing"
  MaxRowsPerTxn,    \* bound: row changes in one transaction, 1 or 2
  MaxEvents,        \* bound: change events the source ever emits
  HasTids           \* does the source report transaction ids?

ASSUME TableAssumption ==
  /\ NoRow \notin Rows /\ NoRef \notin Refs /\ NoTid \notin Nat
  /\ InitRows \in [Keys -> Rows \cup {NoRow}]
  /\ \A k \in Keys : InitRows[k] # NoRow => InitRows[k].key = k
  /\ InsertRows \subseteq Rows

VARIABLES
  rows,      \* the table: key -> row or NoRow
  emitted    \* how many events the source has emitted: their LSNs

sourceVars == <<rows, emitted>>

(* The part of a deleted row that the log carries.                         *)
LoggedOld(row) ==
  CASE ReplicaIdentity = "full" -> row
    [] ReplicaIdentity = "default" -> [row EXCEPT !.fk = NoRef]
    [] ReplicaIdentity = "nothing" -> NoRow

(* A row change: the event it causes, and the key it leaves (for the       *)
(* change of a primary key, which frees the old one).                      *)
Change(kind, op, new, old, key) ==
  [kind |-> kind, op |-> op, new |-> new, old |-> old, key |-> key]

Present(tbl) == {k \in Keys : tbl[k] # NoRow}

RowChanges(tbl) ==
  {c \in
    {Change("insert", "INSERT", r, NoRow, r.key) : r \in {r \in InsertRows : tbl[r.key] = NoRow}}
    \cup UNION {
      {Change("update", "UPDATE", [tbl[k] EXCEPT !.val = v], NoRow, k) :
         v \in Vals \ {tbl[k].val}}
      \cup {Change("update_fk", "UPDATE", [tbl[k] EXCEPT !.fk = f], NoRow, k) :
              f \in (Refs \cup {NoRef}) \ {tbl[k].fk}}
      \cup {Change("update_pk", "UPDATE", [tbl[k] EXCEPT !.key = n], NoRow, k) :
              n \in Keys \ Present(tbl)}
      \cup {Change("delete", "DELETE", NoRow, LoggedOld(tbl[k]), k)} :
      k \in Present(tbl)} :
   c.kind \in ChangeKinds}

AfterChange(tbl, c) ==
  [k \in Keys |->
     IF c.new # NoRow /\ k = c.new.key THEN c.new
     ELSE IF k = c.key THEN NoRow ELSE tbl[k]]

(* One transaction: one row change, or two.                                *)
Transactions(tbl) ==
  {<<c>> : c \in RowChanges(tbl)}
  \cup IF MaxRowsPerTxn = 1 THEN {}
       ELSE UNION {{<<c, d>> : d \in RowChanges(AfterChange(tbl, c))} :
                   c \in RowChanges(tbl)}

AfterTxn(tbl, txn) ==
  IF Len(txn) = 1 THEN AfterChange(tbl, txn[1])
  ELSE AfterChange(AfterChange(tbl, txn[1]), txn[2])

(* The change events of a transaction, in log order.                       *)
EventsOf(txn) ==
  [i \in DOMAIN txn |->
     [op |-> txn[i].op, new |-> txn[i].new, old |-> txn[i].old,
      lsn |-> emitted + i, tid |-> IF HasTids THEN emitted + 1 ELSE NoTid]]

SourceInit == rows = InitRows /\ emitted = 0

(* The source commits one of its Transactions; the caller says where the   *)
(* events go.                                                              *)
CommitTxn(txn) ==
  /\ emitted + Len(txn) <= MaxEvents
  /\ rows' = AfterTxn(rows, txn)
  /\ emitted' = emitted + Len(txn)
=============================================================================
