--------------------------- MODULE DeltaTransformer ---------------------------
(***************************************************************************)
(* r2g/cdc/delta_transformer.py for a table with a primary key and one     *)
(* nullable foreign key: a change event becomes the delta of the row's     *)
(* document and of the edge its foreign key stands for.                    *)
(*                                                                         *)
(* A row is [key, fk, val].  A value in BadVals is one the column's type   *)
(* does not accept: NodeTransformer.transform_row raises on it.            *)
(***************************************************************************)
EXTENDS Sequences, Naturals

CONSTANTS
  Keys,      \* primary keys
  Refs,      \* keys of the referenced table
  NoRef,     \* a foreign key that is NULL or absent from the row
  Vals,      \* contents of the other column
  BadVals,   \* the contents transform_row cannot coerce
  NoRow,     \* old_row or new_row is None
  NoTid      \* transaction_id is None

Rows == [key : Keys, fk : Refs \cup {NoRef}, val : Vals]

(* The ids of the target: keys.py and EdgeTransformer._edge_key derive the *)
(* _key of a document from its row's key, the _key of an edge from both    *)
(* ends.                                                                   *)
Node(k)    == <<"node", k>>
Edge(k, r) == <<"edge", k, r>>
Nodes == {Node(k) : k \in Keys}
Edges == {Edge(k, r) : k \in Keys, r \in Refs}

(* EdgeTransformer.transform_row: no edge for a NULL or missing key.       *)
EdgesOf(row) ==
  IF row = NoRow \/ row.fk = NoRef THEN <<>> ELSE <<Edge(row.key, row.fk)>>

TransformRaises(event) == event.op # "DELETE" /\ event.new.val \in BadVals

(* Mutant: the edge of a deleted row is left behind.                       *)
TransformKeepsEdges(event) ==
  LET row == IF event.op = "DELETE" THEN event.old ELSE event.new
      op  == IF event.op = "UPDATE" THEN "REPLACE" ELSE event.op
      Delta(id, body) == [op |-> op, id |-> id, body |-> body]
      edges == IF op = "DELETE" THEN <<>> ELSE EdgesOf(row)
  IN  IF row = NoRow THEN <<>>
      ELSE <<Delta(Node(row.key), row)>>
           \o [i \in DOMAIN edges |-> Delta(edges[i], NoRow)]

(* transform: the document first, then the edges.  A DELETE derives both   *)
(* from old_row, an INSERT or UPDATE from new_row alone.  An edge has no    *)
(* content beyond its two ends, which its id names.                         *)
Transform(event) ==
  LET row == IF event.op = "DELETE" THEN event.old ELSE event.new
      op  == IF event.op = "UPDATE" THEN "REPLACE" ELSE event.op
      Delta(id, body) == [op |-> op, id |-> id, body |-> body]
      edges == EdgesOf(row)
  IN  IF row = NoRow THEN <<>>
      ELSE <<Delta(Node(row.key), row)>>
           \o [i \in DOMAIN edges |-> Delta(edges[i], NoRow)]
=============================================================================
