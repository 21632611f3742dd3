------------------------------- MODULE MCMigration -------------------------------
(* Migration for TLC: orders that refer to customers by a column, then by  *)
(* others, and customers to one another; to begin with each reference has  *)
(* its collection, or all have one, and each table its class.              *)
EXTENDS Migration

CONSTANTS none, everything

MCTables == <<"a", "b">>
MCColumns == <<"x", "y", "w">>
MCNames == {"a", "b_to_a_w"}
MCProps == {"x", "z"}
MCClasses == {"none", "k"}
MCRecase(n) ==
  IF n = "b" THEN "B" ELSE IF n = "b_to_a" THEN "bToA" ELSE IF n = "y" THEN "Y"
  ELSE IF n = "z" THEN "Z" ELSE n

Table(columns, refs) == [columns |-> columns, refs |-> {[col |-> c, to |-> "a"] : c \in refs}]
MCSchemas ==
  <<[a |-> Table({"x"}, {}), b |-> Table({"x", "y"}, {"x"})],
    [a |-> Table({"x"}, {}), b |-> Table({"x", "y", "w"}, {"x", "y", "w"})],
    [a |-> Table({"x", "y"}, {"y"}), b |-> Table({"y"}, {"y"})],
    [a |-> Table({"x"}, {})]>>

MCOneCollection ==
  LET m == GenerateDefaultConfig(MCSchemas[1])
      edge(t) == [name |-> "refers", from |-> t, col |-> "x", to |-> "a"]
  IN  [m EXCEPT !.colls["b"].term = "k", !.edges = <<edge("a"), edge("b")>>]
MCMappings == {GenerateDefaultConfig(MCSchemas[1]), MCOneCollection}
=============================================================================
