---------------------------- MODULE MCOfflineImport ----------------------------
(* Three tables, one of them without a key; relationships of two of them   *)
(* in one edge collection; one key that is not legal.  And catalogs for    *)
(* the introspections.                                                     *)
EXTENDS OfflineImport

Row(key, ref) == [key |-> key, ref |-> ref]
Holding(parents, children, notes) ==
  [t \in Tables |-> CASE t = "parents" -> parents [] t = "children" -> children [] OTHER -> notes]

MCContents ==
  {Holding({Row("k", "k")}, {Row("k", "k")}, {Row("k", NoRef), Row("l", "k")}),
   Holding({Row("a b", NoRef)}, {Row("l", "a b")}, {}),
   Holding({Row("k", "k")}, {Row("k", NoRef), Row("l", "a b")}, {})}

MCParent == [t \in Tables |-> "parents"]
MCOrder == <<"notes", "children", "parents">>
MCLinks ==
  <<[name |-> "under", from |-> "parents"], [name |-> "of", from |-> "children"],
    [name |-> "on", from |-> "notes"]>>
MCInto == [j \in Tables \cup {"under", "of", "on"} |-> IF j = "under" THEN "of" ELSE j]
MCEncode(k) == IF k = "a b" THEN "a%20b" ELSE k
MCTableChoices == {Tables}
MCMaskChoices ==
  {[t \in Tables |-> "none"],
   [t \in Tables |-> CASE t = "parents" -> "inPlace" [] t = "children" -> "renamed" [] OTHER -> "none"]}

JsonlScript == [mode |-> "jsonl", overwrite |-> TRUE, graph |-> FALSE]
CsvScript == [mode |-> "csv", overwrite |-> TRUE, graph |-> FALSE]
Preview(m) == [mode |-> m, overwrite |-> FALSE, graph |-> TRUE]
MCScripts == {JsonlScript, CsvScript, Preview("jsonl")}

(* Catalogs: tables with columns, and a table with a composite foreign key *)
(* and two foreign keys to another; a foreign key that has the name of the *)
(* other table's key; partitions of partitions; a view.                    *)
Table(columns, key, refs) ==
  [columns |-> columns, key |-> key, keyName |-> None, refs |-> refs,
   view |-> FALSE, partitioned |-> FALSE, parent |-> None]
Ref(name, to, pairs) == [name |-> name, to |-> to, pairs |-> pairs]

Pairs == [Table(<<"a", "b">>, <<"b", "a">>, {}) EXCEPT !.keyName = "e"]
Lines == Table(<<"x", "y", "z">>, <<"x">>,
               {Ref("f", "pairs", <<<<"x", "b">>, <<"y", "a">>>>),
                Ref("g", "pairs", <<<<"y", "b">>, <<"z", "a">>>>)})
Seen2 == [Table(<<"a">>, <<>>, {}) EXCEPT !.view = TRUE]
Part(parent, partitioned, refs) ==
  [Table(<<"p", "q">>, <<"p">>, refs) EXCEPT !.parent = parent, !.partitioned = partitioned]

Relational == [pairs |-> Pairs, lines |-> Lines, shown |-> Seen2]
Partitioned ==
  [pairs |-> Pairs, whole |-> Part(None, TRUE, {}), half |-> Part("whole", TRUE, {}),
   quarter |-> Part("half", FALSE, {Ref("h", "pairs", <<<<"p", "b">>, <<"q", "a">>>>)})]
Altered == [Relational EXCEPT !.lines.columns = <<"x", "y", "w">>,
                              !.lines.key = <<"w">>, !.lines.refs = {}]
Dropped == [shown |-> Seen2, pairs |-> Pairs]

Namesake == [Relational EXCEPT !.lines.refs =
               {Ref("e", "pairs", <<<<"y", "b">>, <<"x", "a">>>>)}]
Detached == [Partitioned EXCEPT !.quarter.parent = None, !.half.refs =
               {Ref("i", "pairs", <<<<"q", "b">>, <<"p", "a">>>>)}]

MCCatalogs == {Relational, Partitioned, Namesake}
MCAlterations ==
  {<<Relational, Altered>>, <<Relational, Dropped>>, <<Namesake, Relational>>, <<Partitioned, Detached>>}

===============================================================================
