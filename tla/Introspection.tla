----------------------------- MODULE Introspection -----------------------------
(***************************************************************************)
(* r2g/connectors, get_schema: the tables of a source are listed, then     *)
(* each is asked for its columns, its key and its foreign keys, every one  *)
(* by a statement of its own outside of any snapshot.  Meanwhile the       *)
(* catalog of the source may be altered.                                   *)
(*                                                                         *)
(* A catalog is a function on the tables: columns and key in their order,  *)
(* the name of the key's constraint, foreign keys with their pairs of      *)
(* columns in order, whether it is a view or is partitioned, and the table *)
(* it inherits from.                                                       *)
(***************************************************************************)
EXTENDS Naturals, FiniteSets, SequencesExt, Graphs

CONSTANTS
  Catalogs,      \* what a source's catalog may be
  Alterations,   \* pairs of catalogs, before and after a DDL statement
  SchemaKinds,   \* the kinds of source introspected
  None

ASSUME IntrospectionAssumption ==
  SchemaKinds \subseteq
    {"postgresql", "mysql", "sqlserver", "snowflake", "views", "clickhouse", "csv"}

VARIABLE reading  \* the introspection under way: the catalogs the source has had meanwhile, ...

(***************************************************************************)
(* The connectors.  parts: what is asked for, in that order.  keyOrder:    *)
(* is the order of a key that of the key, that of its columns, or none?    *)
(* Without one the key is asked for by the name of its constraint.  views: *)
(* are views taken for tables?  rolled: are the foreign keys of partitions *)
(* given to what they are partitions of?                                   *)
(***************************************************************************)
PostgresConnector ==
  [parts |-> <<"columns", "key", "refs">>, keyOrder |-> "any", views |-> FALSE, rolled |-> TRUE]
MySQLConnector ==
  [parts |-> <<"columns", "key", "refs">>, keyOrder |-> "key", views |-> FALSE, rolled |-> FALSE]
SQLServerConnector ==
  [parts |-> <<"columns", "key", "refs">>, keyOrder |-> "key", views |-> FALSE, rolled |-> FALSE]
SnowflakeConnector ==
  [parts |-> <<"columns", "key", "refs">>, keyOrder |-> "key", views |-> FALSE, rolled |-> FALSE]
ViewsIncluded == [SnowflakeConnector EXCEPT !.views = TRUE]
(* All of a table with one statement; there are no foreign keys.           *)
ClickHouseConnector ==
  [parts |-> <<"all">>, keyOrder |-> "column", views |-> FALSE, rolled |-> FALSE]
(* A file; its key is a guess (_detect_primary_key).                       *)
CsvConnector ==
  [parts |-> <<"all">>, keyOrder |-> "guess", views |-> FALSE, rolled |-> FALSE]

ConnectorOf == [postgresql |-> PostgresConnector, mysql |-> MySQLConnector,
                sqlserver |-> SQLServerConnector, snowflake |-> SnowflakeConnector,
                views |-> ViewsIncluded, clickhouse |-> ClickHouseConnector, csv |-> CsvConnector]

Idle == [kind |-> None, catalogs |-> <<>>, views |-> {}, left |-> <<>>, schema |-> <<>>]
Connector == ConnectorOf[reading.kind]
Catalog == Last(reading.catalogs)
NoEntry == [columns |-> <<>>, key |-> <<>>, refs |-> {}, of |-> None]

IntrospectionInit == reading = Idle

Start ==
  /\ reading = Idle
  /\ \E k \in SchemaKinds, c \in Catalogs :
       reading' = [Idle EXCEPT !.kind = k, !.catalogs = <<c>>, !.left = <<<<"tables", None>>>>]

(* Is that what is asked for next?                                         *)
Asked(part, t) == reading.left # <<>> /\ Head(reading.left) = <<part, t>>
Went == [reading EXCEPT !.left = Tail(@)]

Alter ==
  /\ reading.left # <<>> /\ Len(reading.catalogs) = 1
  /\ \E a \in Alterations :
       a[1] = Catalog /\ reading' = [reading EXCEPT !.catalogs = Append(@, a[2])]

ListTables ==
  /\ Asked("tables", None)
  /\ LET names == {t \in DOMAIN Catalog : Catalog[t].view => Connector.views}
         parts == FlattenSeq([i \in 1 .. Cardinality(names) |->
                    [j \in DOMAIN Connector.parts |-> <<Connector.parts[j], SetToSeq(names)[i]>>]])
     IN  reading' = [Went EXCEPT !.schema = [t \in names |-> NoEntry],
                                 !.views = {t \in names : Catalog[t].view},
                                 !.left = parts \o IF Connector.rolled
                                                     THEN <<<<"partitions", None>>>> ELSE <<>>]

(* Of a table that has gone since there are no rows.                       *)
NoTableThere == [columns |-> <<>>, key |-> <<>>, keyName |-> None, refs |-> {}]
Described(catalog, t) == IF t \in DOMAIN catalog THEN catalog[t] ELSE NoTableThere
Columns(t) == Described(Catalog, t).columns
Key(t) == Described(Catalog, t).key
InColumnOrder(t) == SelectSeq(Columns(t), LAMBDA x : x \in ToSet(Key(t)))

(* The columns of a constraint, by its name: names of keys are unique in a *)
(* schema of PostgreSQL, those of foreign keys only in their table.        *)
Namesakes(catalog, t) ==
  LET name == Described(catalog, t).keyName
  IN  UNION {{<<u, f>> : f \in {f \in catalog[u].refs : f.name = name}} : u \in DOMAIN catalog \ {t}}
KeyRows(t) ==
  {<<t, x>> : x \in ToSet(Key(t))}
    \cup UNION {{<<n[1], pair[1]>> : pair \in ToSet(n[2].pairs)} : n \in Namesakes(Catalog, t)}

KeysRead(t) ==
  CASE Connector.keyOrder = "key" -> {Key(t)}
    [] Connector.keyOrder = "any" -> {[i \in DOMAIN s |-> s[i][2]] : s \in SetToSeqs(KeyRows(t))}
    [] Connector.keyOrder = "column" -> {InColumnOrder(t)}
    [] Connector.keyOrder = "guess" -> {<<>>} \cup {<<x>> : x \in ToSet(Columns(t))}

(* The rows of a query for foreign keys: one for each pair of columns.     *)
RowsOfRefs(t) ==
  UNION {{[name |-> f.name, to |-> f.to, ord |-> i, pair |-> f.pairs[i]]
            : i \in DOMAIN f.pairs} : f \in Described(Catalog, t).refs}

InOrder(rows) ==
  LET sorted == SetToSortSeq(rows, LAMBDA r, s : r.ord < s.ord)
  IN  [i \in DOMAIN sorted |-> sorted[i].pair]
(* Mutant: grouped by the table referred to, as without constraint names.  *)
GroupedByTable(rows) ==
  {[to |-> t, pairs |-> InOrder({r \in rows : r.to = t})] : t \in {r.to : r \in rows}}
Grouped(rows) ==
  {[to |-> (CHOOSE r \in rows : r.name = n).to, pairs |-> InOrder({r \in rows : r.name = n})]
     : n \in {r.name : r \in rows}}

ReadColumns(t) ==
  /\ Asked("columns", t)
  /\ reading' = [Went EXCEPT !.schema[t].columns = Columns(t)]

(* Snowflake: of a view neither key nor foreign keys are asked for.        *)
ReadKey(t) ==
  /\ Asked("key", t)
  /\ \E key \in IF t \in reading.views THEN {<<>>} ELSE KeysRead(t) :
       reading' = [Went EXCEPT !.schema[t].key = key]

ReadRefs(t) ==
  /\ Asked("refs", t)
  /\ reading' = [Went EXCEPT !.schema[t].refs =
                   IF t \in reading.views THEN {} ELSE Grouped(RowsOfRefs(t))]

ReadAll(t) ==
  /\ Asked("all", t)
  /\ \E key \in KeysRead(t) :
       reading' = [Went EXCEPT !.schema[t] = [NoEntry EXCEPT !.columns = Columns(t), !.key = key]]

(***************************************************************************)
(* annotate_partition_metadata                                             *)
(***************************************************************************)
Inherits(t) == IF t \in DOMAIN Catalog THEN Catalog[t].parent ELSE None
RootParent(t) ==
  LET top == FoldLeft(LAMBDA cur, i : IF Inherits(cur) = None THEN cur ELSE Inherits(cur),
                      t, [i \in 1 .. Cardinality(DOMAIN Catalog) |-> i])
  IN  IF top = t THEN None ELSE top

(* The partitioned table that a table is, in the end, a partition of.      *)
PartitionOf(t) ==
  LET root == RootParent(t)
  IN  IF root # None /\ root \in DOMAIN Catalog /\ Catalog[root].partitioned THEN root ELSE None

AnnotatePartitions ==
  /\ Asked("partitions", None)
  /\ reading' = [Went EXCEPT !.schema =
       [t \in DOMAIN @ |->
          [@[t] EXCEPT !.of = PartitionOf(t),
                       !.refs = @ \cup UNION {reading.schema[u].refs :
                                  u \in {u \in DOMAIN reading.schema : PartitionOf(u) = t}}]]]

(* The schema is saved, to a file or as a snapshot.                        *)
SaveSchema == reading # Idle /\ reading.left = <<>> /\ reading' = Idle

(* A statement raises; what was read is not kept.                          *)
Raised == reading.left # <<>> /\ reading' = Idle

Introspect ==
  \/ Start \/ Raised \/ Alter \/ ListTables \/ AnnotatePartitions \/ SaveSchema
  \/ \E t \in DOMAIN reading.schema :
       ReadColumns(t) \/ ReadKey(t) \/ ReadRefs(t) \/ ReadAll(t)

-------------------------------------------------------------------------------
(* What a schema says of a table.  A partitioned table has the foreign     *)
(* keys of whatever descends from it.                                      *)
Inheritance(catalog) ==
  [node |-> DOMAIN catalog,
   edge |-> {e \in (DOMAIN catalog) \X (DOMAIN catalog) : catalog[e[2]].parent = e[1]}]
Top(catalog, t) == {r \in Ancestors(Inheritance(catalog), t) \ {t} : catalog[r].parent = None}
IsPartition(catalog, u, t) ==
  {t, u} \subseteq DOMAIN catalog /\ t \in Top(catalog, u) /\ catalog[t].partitioned

Listed(catalog) == {t \in DOMAIN catalog : catalog[t].view => Connector.views}
RefsOf(catalog, t) == {[to |-> f.to, pairs |-> f.pairs] : f \in Described(catalog, t).refs}

(* Of another table's foreign key PostgreSQL may have taken the columns.   *)
KeyIsOf(catalog, t) ==
  LET key == reading.schema[t].key
      own == Described(catalog, t).key
  IN  CASE Connector.keyOrder = "key" -> key = own
        [] Connector.keyOrder = "any" /\ Namesakes(catalog, t) # {} -> ToSet(own) \subseteq ToSet(key)
        [] Connector.keyOrder = "guess" -> TRUE
        [] OTHER -> ToSet(key) = ToSet(own) /\ Len(key) = Len(own)

(* What is known of a table comes from catalogs i, j and k.                *)
PartsAreOf(t, i, j, k) ==
  LET catalogs == reading.catalogs
      entry == reading.schema[t]
      parts == {u \in DOMAIN reading.schema : IsPartition(Catalog, u, t)}
  IN  /\ entry.columns = Described(catalogs[i], t).columns
      /\ KeyIsOf(catalogs[j], t)
      /\ entry.refs = CASE Connector.parts = <<"all">> -> {}
                        [] Connector.rolled -> UNION {RefsOf(catalogs[k[u]], u) : u \in {t} \cup parts}
                        [] OTHER -> RefsOf(catalogs[k[t]], t)
      /\ Connector.rolled => \A r \in DOMAIN Catalog : entry.of = r <=> IsPartition(Catalog, t, r)

(* A schema has the tables of the source, with their keys in order (but    *)
(* PostgreSQL's, whose query has none, and ClickHouse's), composite        *)
(* foreign keys with their columns paired, two foreign keys to one table   *)
(* kept apart, and the foreign keys of partitions, of partitions of        *)
(* partitions as well, at the table they are partitions of.  When the      *)
(* catalog is altered meanwhile the columns, the key and the foreign keys  *)
(* of a table may belong to different catalogs, none older than the list   *)
(* of the tables nor than what was asked before; to one where one          *)
(* statement reads them all.  PostgreSQL's key is only that of the table   *)
(* if no other table's foreign key has its name.                           *)
SchemaIsTrue ==
  (reading # Idle /\ reading.left = <<>>) =>
    \E m \in DOMAIN reading.catalogs :
      /\ DOMAIN reading.schema = Listed(reading.catalogs[m])
      /\ LET since == m .. Len(reading.catalogs)
         IN  \E k \in [DOMAIN reading.schema -> since] : \A t \in DOMAIN reading.schema :
               \E i, j \in since :
                 /\ i <= j /\ j <= k[t] /\ (Connector.parts = <<"all">> => i = k[t])
                 /\ PartsAreOf(t, i, j, k)

(***************************************************************************)
(* Not so, and not in a run: that a schema read undisturbed has the keys   *)
(* of the tables.  PostgreSQL's query joins on the constraint's name and   *)
(* its schema only.                                                        *)
(***************************************************************************)
KeysAreTheTables ==
  (reading # Idle /\ reading.left = <<>> /\ Connector.keyOrder # "guess" /\ Len(reading.catalogs) = 1) =>
    \A t \in DOMAIN reading.schema : ToSet(reading.schema[t].key) = ToSet(Catalog[t].key)

================================================================================
