----------------------------- MODULE OfflineImport -----------------------------
(***************************************************************************)
(* The import by way of files: `source dump` or `dump-tables` write a CSV  *)
(* file per table, `transform-all`, `transform-nodes` and                  *)
(* `transform-edges` a JSONL file per collection, `generate-import`,       *)
(* `generate-csv-import` and the preview of the server a shell script,     *)
(* which is run, and run again, by hand.  Every command is a process of    *)
(* its own that may fail half way; a person gives them in any order.  The  *)
(* loads that read the source themselves (StreamingPipeline) appear here   *)
(* by their reads only.                                                    *)
(*                                                                         *)
(* A step of a transformation or a script is a job: the documents of a     *)
(* table, or the edges of a relationship.  Several jobs may share a        *)
(* collection, and a table may be without a primary key.  Documents and    *)
(* edges carry the row they come from; a document also whether the masked  *)
(* column of its table is in it in clear, and what the mapping said of     *)
(* that column when its file or its script was made.                       *)
(***************************************************************************)
EXTENDS SourceSessions, Introspection

CONSTANTS
  Order,         \* the tables: the order of a dump and of a mapping
  Links,         \* edge definitions: a name of their own, the table they start from
  Into,          \* the collection of each job
  Keyless,       \* tables without a primary key
  Illegal,       \* keys that ArangoDB does not take
  Encode(_),     \* sanitize_key_component
  Nullable,      \* tables whose foreign key column is nullable
  TableChoices,  \* sets of tables that a dump is asked for
  Limits,        \* values of --limit
  MaskChoices,   \* what mappings do to a column of each table: "none", mask it
                 \* "inPlace", or mask it and give the column another name, "renamed"
  LogLimit,      \* rejected documents that arangoimport logs
  Scripts,       \* the scripts that somebody asks for
  MaxCommands

LinkNames == {Links[i].name : i \in DOMAIN Links}
JobNames == Tables \cup LinkNames
TableOf(j) == IF j \in Tables THEN j ELSE (CHOOSE l \in ToSet(Links) : l.name = j).from
Jobs == Order \o [i \in DOMAIN Links |-> Links[i].name]
Collections == {Into[j] : j \in JobNames}

(* Job k comes after job j and writes what j has written.                  *)
After(j, k) ==
  /\ \E m, n \in DOMAIN Jobs : m < n /\ Jobs[m] = j /\ Jobs[n] = k
  /\ Into[k] = Into[j]

ASSUME OfflineAssumption ==
  /\ Order \in Seq(Tables) /\ ToSet(Order) = Tables /\ Tables \cap LinkNames = {}
  /\ DOMAIN Into = JobNames /\ \A t \in Tables, l \in LinkNames : Into[t] # Into[l]
  /\ \A i, j \in DOMAIN Order : Order[i] = Order[j] => i = j
  /\ \A k \in Keys : Encode(k) \notin Illegal
  /\ \A j, k \in Keys : Encode(j) = Encode(k) => j = k
  /\ \A i, j \in DOMAIN Links : Links[i].name = Links[j].name => i = j
  /\ Links \in Seq([name : LinkNames, from : {t \in Tables : Parent[t] \in Tables}])
  /\ "graph" \notin JobNames  \* which is what the last step of a script is called
  /\ None \notin {"script", "transform-all"} \cup Illegal /\ Keyless \subseteq Tables
  /\ LogLimit \in Nat \ {0} /\ TableChoices \subseteq SUBSET Tables
  /\ MaskChoices \subseteq [Tables -> {"none", "inPlace", "renamed"}]

VARIABLES
  masks,     \* what the mapping does to a column of each table
  dumps,     \* the CSV file of each table
  jsonl,     \* the JSONL file of each collection
  script,    \* the script generated last
  db,        \* the documents and edges of each collection
  graph,     \* does the named graph exist?
  cmd,       \* the command that runs, or ran last
  commands

filesVars == <<dumps, jsonl>>
targetVars == <<db, graph>>
vars == <<sourceVars, reading, masks, filesVars, script, targetVars, cmd, commands>>

NoFile == [there |-> FALSE, header |-> FALSE, rows |-> {}]
Emptied == [NoFile EXCEPT !.there = TRUE]
File(rows) == [there |-> TRUE, header |-> TRUE, rows |-> rows]

NoScript == [mode |-> None, overwrite |-> FALSE, graph |-> FALSE, masks |-> <<>>]
Ended == [name |-> None, at |-> "ok", left |-> <<>>, saw |-> <<>>, counts |-> <<>>,
          bound |-> FALSE, again |-> FALSE]

Init ==
  /\ SourceInit /\ IntrospectionInit
  /\ masks \in MaskChoices
  /\ dumps = [t \in Tables |-> NoFile] /\ jsonl = [c \in Collections |-> NoFile]
  /\ script = NoScript
  /\ db = [c \in Collections |-> {}] /\ graph = FALSE
  /\ cmd = Ended /\ commands = 0

(* A command is given when the one before has ended.                       *)
Give(name, left) ==
  /\ cmd.at # "running" /\ reading = Idle /\ commands < MaxCommands
  /\ commands' = commands + 1
  /\ cmd' = [Ended EXCEPT !.name = name, !.at = "running", !.left = left]

Running(name) == cmd.name = name /\ cmd.at = "running"
Onward == [cmd EXCEPT !.left = Tail(@)]
EndsWell == cmd' = [cmd EXCEPT !.at = "ok"]
Fails == cmd' = [cmd EXCEPT !.at = "failed", !.left = <<>>]

(* What has been found of each table, that of one more among them.         *)
Noted(found, t, x) ==
  [u \in DOMAIN found \cup {t} |-> IF u \in DOMAIN found THEN found[u] ELSE x]


-------------------------------------------------------------------------------
(* The reads of a load, and dumps                                          *)

Subset(tables) == SelectSeq(Order, LAMBDA t : t \in tables)
(* A load leaves nothing behind that the rest is about, and is looked at by *)
(* itself: nothing comes before it or after it.                            *)
Fresh == dumps = [t \in Tables |-> NoFile] /\ commands = 0

BeginLoad ==
  /\ Fresh /\ \E bound \in BOOLEAN :
       /\ cmd.at # "running" /\ reading = Idle
       /\ commands' = MaxCommands
       /\ cmd' = [Ended EXCEPT !.name = "load", !.at = "running", !.left = Order, !.bound = bound]
  /\ session' = OpenSession
  /\ UNCHANGED <<kind, history, faults, reading, masks, filesVars, script, targetVars>>

BeginDump ==
  /\ \E tables \in TableChoices : Give("dump", Subset(tables))
  /\ session' = OpenSession
  /\ UNCHANGED <<kind, history, faults, reading, masks, filesVars, script, targetVars>>

Connects ==
  /\ (Running("load") \/ Running("dump")) /\ cmd.left # <<>> /\ Connection
  /\ UNCHANGED <<kind, history, faults, reading, masks, filesVars, script, targetVars, cmd, commands>>

LoadCounts ==
  /\ Running("load") /\ cmd.left # <<>>
  /\ LET t == Head(cmd.left)
     IN  /\ t \notin DOMAIN cmd.counts /\ CountRows(t, cmd.bound)
         /\ cmd' = [cmd EXCEPT !.counts = Noted(@, t, Counted(t, cmd.bound))]
  /\ UNCHANGED <<kind, history, faults, reading, masks, filesVars, script, targetVars, commands>>

LoadStreams ==
  /\ Running("load") /\ cmd.left # <<>>
  /\ LET t == Head(cmd.left)
     IN  /\ t \in DOMAIN cmd.counts /\ StreamRows(t)
         /\ cmd' = [Onward EXCEPT !.saw = Noted(@, t, Streamed(t, cmd.bound))]
  /\ UNCHANGED <<kind, history, faults, reading, masks, filesVars, script, targetVars, commands>>

LoadRaises ==
  /\ Running("load") /\ cmd.left # <<>> /\ Fault /\ Fails /\ session' = Closed
  /\ UNCHANGED <<kind, history, reading, masks, filesVars, script, targetVars, commands>>

(* The file of a dump.  ClickHouse's has a header once there is a row.     *)
FileOf(rows) == IF kind = "clickhouse" /\ rows = {} THEN Emptied ELSE File(rows)

DumpTable ==
  /\ Running("dump") /\ cmd.left # <<>> /\ session.at = "open"
  /\ LET t == Head(cmd.left)
         rows == history[View][t]
     IN  dumps' = [dumps EXCEPT ![t] = FileOf(rows)] /\ cmd' = [Onward EXCEPT !.saw = Noted(@, t, rows)]
  /\ session' = [session EXCEPT !.seen = Seen]
  /\ UNCHANGED <<kind, history, faults, reading, masks, jsonl, script, targetVars, commands>>

(* A table that cannot be dumped is reported and passed over.              *)
DumpRaises ==
  /\ Running("dump") /\ cmd.left # <<>> /\ Raises /\ cmd' = Onward
  /\ dumps' = IF FileOpened THEN [dumps EXCEPT ![Head(cmd.left)] = Emptied] ELSE dumps
  /\ UNCHANGED <<kind, history, reading, masks, jsonl, script, targetVars, commands>>

DumpCut ==
  /\ Running("dump") /\ cmd.left # <<>> /\ session.at = "open" /\ Fault /\ cmd' = Onward
  /\ LET t == Head(cmd.left)
     IN  \E part \in SUBSET history[View][t] : dumps' = [dumps EXCEPT ![t] = FileOf(part)]
  /\ \E at \in {SessionOf[kind].after, "lost"} : session' = [session EXCEPT !.at = at, !.seen = Seen]
  /\ UNCHANGED <<kind, history, reading, masks, jsonl, script, targetVars, commands>>

EndReads ==
  /\ (Running("load") \/ Running("dump")) /\ cmd.left = <<>> /\ EndsWell /\ session' = Closed
  /\ UNCHANGED <<kind, history, faults, reading, masks, filesVars, script, targetVars, commands>>

(* dump-tables, of PostgreSQL, where every statement sees what has been    *)
(* committed before it.  The first exception ends it.                      *)
BeginDumpTables ==
  /\ kind = "postgresql"
  /\ \E tables \in TableChoices : Give("dump-tables", Subset(tables))
  /\ UNCHANGED <<sourceVars, reading, masks, filesVars, script, targetVars>>

CopyTable ==
  /\ Running("dump-tables") /\ cmd.left # <<>>
  /\ LET t == Head(cmd.left)
     IN  \/ /\ dumps' = [dumps EXCEPT ![t] = File(Now[t])]
            /\ cmd' = [Onward EXCEPT !.saw = Noted(@, t, Now[t])] /\ UNCHANGED faults
         \/ /\ Fault /\ Fails
            /\ \/ UNCHANGED dumps
               \/ dumps' = [dumps EXCEPT ![t] = Emptied]
               \/ \E part \in SUBSET Now[t] : dumps' = [dumps EXCEPT ![t] = File(part)]
  /\ UNCHANGED <<kind, history, session, reading, masks, jsonl, script, targetVars, commands>>

EndDumpTables ==
  /\ Running("dump-tables") /\ cmd.left = <<>> /\ EndsWell
  /\ UNCHANGED <<sourceVars, reading, masks, filesVars, script, targetVars, commands>>

-------------------------------------------------------------------------------
(* Transformation                                                          *)

Document(key, row, clear, under) == [key |-> key, row |-> row, clear |-> clear, under |-> under]
Edge(key, from, to, row) == [key |-> key, from |-> from, to |-> to, row |-> row]

(* What NodeTransformer and EdgeTransformer make of a table's rows.  A mask *)
(* replaces the property of the column's own name; a column that has been  *)
(* given another name is written under that one as it is.  Rows of a table *)
(* without a key get theirs from the server, and their edges are dropped.  *)
Documents(t, rows) ==
  {Document(IF t \in Keyless THEN None ELSE Encode(r.key), r, masks[t] # "inPlace", masks[t]) : r \in rows}
Edges(t, rows) ==
  {Edge(<<Encode(r.key), Encode(r.ref)>>, Encode(r.key), Encode(r.ref), r) :
     r \in {r \in rows : r.ref # NoRef /\ t \notin Keyless}}
Transformed(j, rows) == IF j \in Tables THEN Documents(j, rows) ELSE Edges(TableOf(j), rows)

BeginTransformAll ==
  /\ Give("transform-all", Jobs)
  /\ UNCHANGED <<sourceVars, reading, masks, filesVars, script, targetVars>>

(* Tables without a dump are passed over.  The output is emptied first:    *)
(* the jobs of one collection write one file, one after the other.         *)
(* read_rows: a file without a header raises.                              *)
TransformAll ==
  /\ Running("transform-all") /\ cmd.left # <<>>
  /\ LET j == Head(cmd.left)
         dump == dumps[TableOf(j)]
     IN  \/ ~dump.there /\ cmd' = Onward /\ UNCHANGED <<jsonl, faults>>
         \/ /\ dump.there /\ dump.header /\ cmd' = Onward /\ UNCHANGED faults
            /\ jsonl' = [jsonl EXCEPT ![Into[j]] = File(Transformed(j, dump.rows))]
         \/ /\ dump.there /\ ~dump.header /\ jsonl' = [jsonl EXCEPT ![Into[j]] = Emptied]
            /\ Fails /\ UNCHANGED faults
         \/ /\ dump.header /\ Fault /\ Fails
            /\ \E part \in SUBSET Transformed(j, dump.rows) : jsonl' = [jsonl EXCEPT ![Into[j]] = File(part)]
  /\ UNCHANGED <<kind, history, session, reading, masks, dumps, script, targetVars, commands>>

EndTransformAll ==
  /\ Running("transform-all") /\ cmd.left = <<>> /\ EndsWell
  /\ UNCHANGED <<sourceVars, reading, masks, filesVars, script, targetVars, commands>>

(* transform-nodes and transform-edges: one file, of which --limit may     *)
(* leave the first rows.  Without --config transform-nodes has no masks.   *)
Limited(rows) == {part \in SUBSET rows : part = rows \/ Cardinality(part) \in Limits}
TransformOne(name, j, configured) ==
  /\ cmd.at # "running" /\ reading = Idle /\ commands < MaxCommands /\ commands' = commands + 1
  /\ LET dump == dumps[TableOf(j)]
         Dressed(docs) == IF configured THEN docs
                          ELSE {[d EXCEPT !.clear = TRUE, !.under = "unconfigured"] : d \in docs}
     IN  \/ /\ dump.header /\ cmd' = [Ended EXCEPT !.name = name]
            /\ \E part \in Limited(dump.rows) :
                 jsonl' = [jsonl EXCEPT ![Into[j]] = File(Dressed(Transformed(j, part)))]
         \/ /\ ~dump.header /\ cmd' = [Ended EXCEPT !.name = name, !.at = "failed"]
            /\ jsonl' = [jsonl EXCEPT ![Into[j]] = IF dump.there THEN Emptied ELSE @]
  /\ UNCHANGED <<sourceVars, reading, masks, dumps, script, targetVars>>
TransformNodes ==
  \E t \in Tables, configured \in BOOLEAN : TransformOne("transform-nodes", t, configured)
TransformEdges == \E l \in LinkNames : TransformOne("transform-edges", l, TRUE)

-------------------------------------------------------------------------------
(* Generation.  generate-import writes the creation of the graph to a file *)
(* of its own; every script of the server's preview creates it.            *)

Generate(name, new) ==
  /\ new \in Scripts
  /\ cmd.at # "running" /\ reading = Idle /\ commands < MaxCommands /\ commands' = commands + 1
  /\ script' = [mode |-> new.mode, overwrite |-> new.overwrite, graph |-> new.graph, masks |-> masks]
  /\ script' # script /\ cmd' = [Ended EXCEPT !.name = name]
  /\ UNCHANGED <<sourceVars, reading, masks, filesVars, targetVars>>

(* _refuse_unfaithful_mapping: rows loaded as they stand are not masked.   *)
(* Mutant: not refused.                                                    *)
RefusedNever(mode) == FALSE
Refused(mode) == mode = "csv" /\ \E t \in Tables : masks[t] # "none"

GenerateImport == Generate("generate-import", [mode |-> "jsonl", overwrite |-> TRUE, graph |-> FALSE])
GenerateCsvImport ==
  /\ ~Refused("csv")
  /\ \E g \in BOOLEAN :
       Generate("generate-csv-import", [mode |-> "csv", overwrite |-> TRUE, graph |-> g])
PreviewArangoimport ==
  \E mode \in {"jsonl", "csv"}, overwrite \in BOOLEAN :
    /\ ~Refused(mode)
    /\ Generate("preview", [mode |-> mode, overwrite |-> overwrite, graph |-> TRUE])

(* The mapping file is edited; the files and the script stay as they are.  *)
(* There are but so many masks, and edits are not counted.                 *)
EditMapping ==
  /\ cmd.at # "running" /\ reading = Idle
  /\ masks' \in MaskChoices \ {masks} /\ cmd' = [Ended EXCEPT !.name = "edit"]
  /\ UNCHANGED <<sourceVars, reading, filesVars, script, targetVars, commands>>

-------------------------------------------------------------------------------
(* The script                                                              *)

KeyOf(t, row) == IF t \in Keyless THEN None ELSE row.key

(* What arangoimport is offered by a job.  Edges from a CSV file have no   *)
(* key of their own.                                                       *)
Offered(j) ==
  IF script.mode = "jsonl" THEN jsonl[Into[j]].rows
  ELSE LET t == TableOf(j)
       IN  IF j \in Tables
             THEN {Document(KeyOf(t, r), r, TRUE, script.masks[t]) : r \in dumps[t].rows}
             ELSE {Edge(None, KeyOf(t, r), r.ref, r) : r \in dumps[t].rows}

IsRejected(j, d) ==
  IF j \in Tables THEN d.key \in Illegal
  ELSE \/ d.from \in Illegal \/ d.to \in Illegal \cup {NoRef}
       \/ script.mode = "csv" /\ TableOf(j) \in Keyless  \* which have no _from
Rejected(j) == {d \in Offered(j) : IsRejected(j, d)}

(* --on-duplicate replace, where the collection is not emptied first; what *)
(* has no key of its own is another document every time, which is not told *)
(* apart here.                                                             *)
Stored(c, docs) ==
  IF script.overwrite THEN docs
  ELSE docs \cup {d \in db[c] : d.key = None \/ \A e \in docs : e.key # d.key}

(* Policy null-fk-ok is for edges from a CSV file by a nullable column.    *)
NullFkOk(j) == script.mode = "csv" /\ j \in LinkNames /\ TableOf(j) \in Nullable

(* run_import: with rejected rows it passes if those that arangoimport     *)
(* logged, the first ones in whatever order, are all NULL foreign keys.    *)
(* Mutant: arangoimport exits with zero.                                   *)
PassesUnguarded(j, logged) == TRUE
Passes(j, logged) ==
  Rejected(j) # {} => NullFkOk(j) /\ \A d \in logged : d.to = NoRef

Logs(j) ==
  {logged \in SUBSET Rejected(j) :
     Cardinality(logged) = IF Cardinality(Rejected(j)) < LogLimit THEN Cardinality(Rejected(j)) ELSE LogLimit}

ScriptFile(j) == IF script.mode = "jsonl" THEN jsonl[Into[j]] ELSE dumps[TableOf(j)]

RunScript ==
  /\ script # NoScript
  /\ cmd.at # "running" /\ reading = Idle /\ commands < MaxCommands /\ commands' = commands + 1
  /\ cmd' = [Ended EXCEPT !.name = "script", !.at = "running", !.again = script.graph /\ graph,
                          !.left = Jobs \o IF script.graph THEN <<"graph">> ELSE <<>>]
  /\ UNCHANGED <<sourceVars, reading, masks, filesVars, script, targetVars>>

Import ==
  /\ Running("script") /\ cmd.left # <<>> /\ Head(cmd.left) # "graph"
  /\ LET j == Head(cmd.left)
         c == Into[j]
         taken == Offered(j) \ Rejected(j)
     IN  \/ /\ ~ScriptFile(j).there \/ (script.mode = "csv" /\ ~ScriptFile(j).header)
            /\ Fails /\ UNCHANGED <<db, faults>>
         \/ /\ ScriptFile(j).there /\ db' = [db EXCEPT ![c] = Stored(c, taken)] /\ UNCHANGED faults
            /\ \E logged \in Logs(j) : IF Passes(j, logged) THEN cmd' = Onward ELSE Fails
         \/ /\ ScriptFile(j).there /\ Fault /\ Fails
            /\ \E part \in SUBSET taken : db' = [db EXCEPT ![c] = Stored(c, part)]
  /\ UNCHANGED <<kind, history, session, reading, masks, filesVars, script, graph, commands>>

InGraph == UNION {{Into[l.name], Into[l.from], Into[Parent[l.from]]} : l \in ToSet(Links)}

(* _drop(name, true) drops a graph with its collections, if there is one;  *)
(* _create makes those that are not there.                                 *)
CreateGraph ==
  /\ Running("script") /\ cmd.left = <<"graph">>
  /\ LET dropped == [c \in Collections |-> IF graph /\ c \in InGraph THEN {} ELSE db[c]]
     IN  \/ db' = dropped /\ graph' = TRUE /\ cmd' = Onward /\ UNCHANGED faults
         \/ Fault /\ Fails /\ UNCHANGED targetVars
         \/ Fault /\ Fails /\ db' = dropped /\ graph' = FALSE
  /\ UNCHANGED <<kind, history, session, reading, masks, filesVars, script, commands>>

EndScript ==
  /\ Running("script") /\ cmd.left = <<>> /\ EndsWell
  /\ UNCHANGED <<sourceVars, reading, masks, filesVars, script, targetVars, commands>>

(* The file that generate-import --graph-name writes only creates.         *)
CreateGraphByHand ==
  /\ script.mode = "jsonl" /\ ~script.graph /\ cmd.at # "running" /\ reading = Idle
  /\ cmd' = [Ended EXCEPT !.name = "graph", !.at = IF graph THEN "failed" ELSE "ok"]
  /\ graph' = TRUE
  /\ UNCHANGED <<sourceVars, reading, masks, filesVars, script, db, commands>>

-------------------------------------------------------------------------------
(* What the source commits while nobody reads it is in the history of a    *)
(* source that has not been read yet as well.                              *)
SourceCommits ==
  /\ cmd.at = "running" /\ cmd.name \in {"load", "dump", "dump-tables"} /\ Commit
  /\ UNCHANGED <<reading, masks, filesVars, script, targetVars, cmd, commands>>

(* Introspections do not touch what the rest is about, and come before it. *)
Introspects ==
  /\ cmd = Ended /\ commands = 0 /\ Len(history) = 1 /\ script = NoScript /\ Introspect
  /\ UNCHANGED <<sourceVars, masks, filesVars, script, targetVars, cmd, commands>>

Next ==
  \/ SourceCommits \/ Introspects
  \/ BeginLoad \/ LoadCounts \/ LoadStreams \/ LoadRaises
  \/ BeginDump \/ Connects \/ DumpTable \/ DumpRaises \/ DumpCut \/ EndReads
  \/ BeginDumpTables \/ CopyTable \/ EndDumpTables
  \/ BeginTransformAll \/ TransformAll \/ EndTransformAll \/ TransformNodes \/ TransformEdges
  \/ GenerateImport \/ GenerateCsvImport \/ PreviewArangoimport
  \/ EditMapping
  \/ RunScript \/ Import \/ CreateGraph \/ EndScript \/ CreateGraphByHand

Spec == Init /\ [][Next]_vars

-------------------------------------------------------------------------------
(* What a load or a dump has read through one session is one committed     *)
(* state of the source, whatever is committed meanwhile and whichever of   *)
(* its tables failed, where the session has a snapshot: PostgreSQL's is    *)
(* REPEATABLE READ, MySQL's begins with a consistent snapshot, and the     *)
(* counts of the progress belong to the same state.  A csv session has     *)
(* none, but with --since it streams the rows it has counted.              *)
ReadsAreOneState ==
  /\ (cmd.name \in {"load", "dump"} /\ SessionOf[kind].view # "statement") =>
       \E i \in DOMAIN history :
         /\ \A t \in DOMAIN cmd.saw : cmd.saw[t] = Since(cmd.bound, history[i][t])
         /\ \A t \in DOMAIN cmd.counts : cmd.counts[t] = Cardinality(Since(cmd.bound, history[i][t]))
  /\ (kind = "csv" /\ cmd.bound) =>
       \A t \in DOMAIN cmd.saw : Cardinality(cmd.saw[t]) = cmd.counts[t]

(* The edges that a script may leave out: those whose foreign key is NULL; *)
(* as IMPORT_GUARD says of itself, those whose foreign key is no legal key *)
(* and is that of no document among the parents; and those of a table      *)
(* without a key, which can have no _from.                                 *)
MayBeLeftOut(j, d) ==
  /\ script.mode = "csv" /\ j \in LinkNames
  /\ LET t == TableOf(j)
     IN  \/ d.to = NoRef \/ t \in Keyless
         \/ d.to \in Illegal /\ \A r \in dumps[Parent[t]].rows : KeyOf(Parent[t], r) # d.to

Landed(j) == \A d \in Offered(j) : d \in db[Into[j]] \/ MayBeLeftOut(j, d)

(* What a job has imported stays, unless a later one empties its           *)
(* collection, or may replace its documents.                               *)
Stays(j) == (~script.overwrite /\ j \in LinkNames) \/ \A k \in JobNames : ~After(j, k)

(* What a job of transform-all has written stays, unless a later one       *)
(* writes the same file.                                                   *)
StaysWritten(j) == \A k \in JobNames : After(j, k) => ~dumps[TableOf(k)].there

(* Of a script that exits with zero every row of every file is in its      *)
(* collection, though arangoimport exits with zero when it rejects rows    *)
(* and logs but some of those; and of a transform-all that exits with zero *)
(* every collection's file has what the dump of its table has, though a    *)
(* file is emptied before it is written.  Of jobs that share a collection  *)
(* it is so of the last.  (A script that creates the graph anew is         *)
(* GraphIsCreatedAgain.)                                                   *)
ExitZeroMeansDone ==
  cmd.at = "ok" =>
    /\ (cmd.name = "script" /\ ~cmd.again) => \A j \in JobNames : Stays(j) => Landed(j)
    /\ cmd.name = "transform-all" =>
         \A j \in JobNames : dumps[TableOf(j)].there /\ StaysWritten(j) =>
           jsonl[Into[j]] = File(Transformed(j, dumps[TableOf(j)].rows))

(* A column gets into the database in clear only by a file or a script     *)
(* that was made when the mapping did not mask it in place, or by a file   *)
(* that transform-nodes wrote without --config: whatever the mapping has   *)
(* said before and since, whatever files were lying about, and whichever   *)
(* of the ways a script came about.                                        *)
MaskedStaysMasked ==
  \A t \in Tables : \A d \in db[Into[t]] : d.clear => d.under # "inPlace"

(* "Build an idempotent, shell-safe named-graph creation command"          *)
(* (_build_graph_creation_arangosh): what a script has imported is there   *)
(* when it ends, if the named graph was there before as well.              *)
GraphIsCreatedAgain ==
  (cmd.name = "script" /\ cmd.at = "ok") => \A j \in JobNames : Stays(j) => Landed(j)

(***************************************************************************)
(* Not so, and not in a run.  That all the jobs of a script land: those    *)
(* that share a collection empty it for one another.  That a column which  *)
(* the mapping masks now is nowhere in clear: a script, or a file, may be  *)
(* older than the mask, and a column that has another name keeps it.       *)
(***************************************************************************)
EveryJobLands ==
  (cmd.name = "script" /\ cmd.at = "ok" /\ ~cmd.again) => \A j \in JobNames : Landed(j)
MaskedNowIsMasked ==
  \A t \in Tables : masks[t] # "none" => \A d \in db[Into[t]] : ~d.clear

===============================================================================
