---------------------------- MODULE SourceSessions -----------------------------
(***************************************************************************)
(* r2g/connectors: the sources of a load or a dump, and what a session     *)
(* over each kind of them reads.  The source goes on committing while a    *)
(* session is open; base.py asks of every session "consistent-snapshot     *)
(* semantics".  PostgreSQL's and MySQL's give one.  Snowflake's claims one *)
(* (snowflake.py:11-15, 450-452), as if a transaction had one there; but   *)
(* its isolation is READ COMMITTED, and every statement sees what was      *)
(* committed before it.  SQL Server's, ClickHouse's and the files' claim   *)
(* none.                                                                   *)
(*                                                                         *)
(* Sessions connect at their first call.  A row is its key and the key its *)
(* foreign key refers to, or NoRef.                                        *)
(***************************************************************************)
EXTENDS Naturals, FiniteSets, SequencesExt

CONSTANTS
  Tables, Keys, NoRef,
  Parent,       \* the table a table's foreign key refers to, or NoTable
  NoTable,
  Contents,     \* the states the source may commit
  Kinds,        \* the kinds of source looked at
  Recent,       \* keys of rows on or after --since
  MaxCommits, MaxFaults

Rows == [key : Keys, ref : Keys \cup {NoRef}]

ASSUME SourceAssumption ==
  /\ Contents \subseteq [Tables -> SUBSET Rows]
  /\ Parent \in [Tables -> Tables \cup {NoTable}] /\ NoTable \notin Tables /\ NoRef \notin Keys
  /\ Kinds \subseteq {"postgresql", "mysql", "sqlserver", "snowflake", "clickhouse", "csv"}
  /\ Recent \subseteq Keys

VARIABLES
  kind,     \* the source's type
  history,  \* the states it has committed; the last is the current one
  session,  \* the session open on it
  faults

sourceVars == <<kind, history, session, faults>>

Now == Last(history)
Fault == faults < MaxFaults /\ faults' = faults + 1

(* Those databases keep their foreign keys; Snowflake only declares them,  *)
(* and ClickHouse and files have none.                                     *)
Enforcing == {"postgresql", "mysql", "sqlserver"}
ForeignKeysHold(rows) ==
  \A t \in Tables : \A r \in rows[t] : r.ref # NoRef =>
    Parent[t] # NoTable /\ \E p \in rows[Parent[t]] : p.key = r.ref
Possible == {rows \in Contents : kind \in Enforcing => ForeignKeysHold(rows)}

(***************************************************************************)
(* The sessions.  view: when what they see is fixed -- at the connection,  *)
(* at the first read after it, or anew for every statement.  file: whether *)
(* the file of a dump is opened before the connection, before the          *)
(* statement, or when it has been answered.  after: what an error in a     *)
(* statement makes of the connection.                                      *)
(***************************************************************************)
PostgresSession   == [view |-> "read", file |-> "connected", after |-> "aborted"]
MySQLSession      == [view |-> "connection", file |-> "answered", after |-> "open"]
SQLServerSession  == [view |-> "statement", file |-> "answered", after |-> "open"]
SnowflakeSession  == [view |-> "statement", file |-> "answered", after |-> "open"]
ClickHouseSession == [view |-> "statement", file |-> "first", after |-> "open"]
CsvSession        == [view |-> "statement", file |-> "answered", after |-> "open"]

(* create_source_connector                                                 *)
SessionOf == [postgresql |-> PostgresSession, mysql |-> MySQLSession,
              sqlserver |-> SQLServerSession, snowflake |-> SnowflakeSession,
              clickhouse |-> ClickHouseSession, csv |-> CsvSession]

NoFrame == [table |-> NoTable, rows |-> {}]
Closed == [at |-> "closed", seen |-> 0, frame |-> NoFrame]
OpenSession == [Closed EXCEPT !.at = "new"]

SourceInit ==
  /\ kind \in Kinds /\ \E rows \in Possible : history = <<rows>>
  /\ session = Closed /\ faults = 0

Commit ==
  /\ Len(history) <= MaxCommits
  /\ \E rows \in Possible \ {Now} : history' = Append(history, rows)
  /\ UNCHANGED <<kind, session, faults>>

(* The state a statement begun now reads.                                  *)
(* Mutant: every statement for itself.                                     *)
ViewOfStatement == Len(history)
View == IF SessionOf[kind].view # "statement" /\ session.seen # 0 THEN session.seen ELSE Len(history)

(* The connection property: MySQL's transaction begins with a snapshot.    *)
Connection ==
  /\ session.at = "new"
  /\ session' = [session EXCEPT !.at = "open",
                                !.seen = IF SessionOf[kind].view = "connection" THEN Len(history) ELSE 0]

Seen == IF SessionOf[kind].view = "statement" THEN 0 ELSE View

(* A call raises: it cannot connect, its statement fails, or an earlier    *)
(* error has left a connection that fails every statement.                 *)
Raises ==
  \/ session.at = "new" /\ Fault /\ UNCHANGED session
  \/ session.at = "open" /\ Fault
     /\ \E at \in {SessionOf[kind].after, "lost"} : session' = [session EXCEPT !.at = at]
  \/ session.at \in {"aborted", "lost"} /\ UNCHANGED <<session, faults>>

(* Has a dump that raises then opened its file, which empties it?          *)
FileOpened ==
  \/ SessionOf[kind].file = "first"
  \/ SessionOf[kind].file = "connected" /\ session.at # "new"

-------------------------------------------------------------------------------
(* Reads of a load: for each table, its rows are counted and then streamed *)

Since(bound, rows) == IF bound THEN {r \in rows : r.key \in Recent} ELSE rows

(* With a bound a csv session keeps the frame it has filtered to count     *)
(* for the stream.                                                         *)
(* Mutant: the file is read again.                                         *)
FrameReadAgain(t, bound) == NoFrame
FrameSince(t, bound) ==
  IF kind = "csv" /\ bound THEN [table |-> t, rows |-> Since(TRUE, Now[t])] ELSE NoFrame

Counted(t, bound) == Cardinality(Since(bound, history[View][t]))

CountRows(t, bound) ==
  /\ session.at = "open"
  /\ session' = [session EXCEPT !.seen = Seen,
                                !.frame = FrameSince(t, bound)]

Streamed(t, bound) ==
  IF session.frame.table = t THEN session.frame.rows ELSE Since(bound, history[View][t])

StreamRows(t) ==
  /\ session.at = "open"
  /\ session' = [session EXCEPT !.seen = Seen,
                                !.frame = NoFrame]

================================================================================
