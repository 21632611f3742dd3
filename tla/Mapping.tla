-------------------------------- MODULE Mapping --------------------------------
(***************************************************************************)
(* Schemas, mapping configurations and what is computed from them: the     *)
(* default configuration, its validation (r2g/config.py), the naming       *)
(* convention (naming.py), its migration to another schema                 *)
(* (config_migrate.py), the differences of two schemas (schema_diff.py),   *)
(* and the plan that takes a database from one mapping to another          *)
(* (mapping_diff.py).                                                      *)
(*                                                                         *)
(* A schema is a function on its tables, each with its columns and its     *)
(* references; a mapping has, for its tables, a collection, the names of   *)
(* renamed columns, the columns left out or taken in, and what else makes  *)
(* documents of its rows (expressions, extra labels), and a sequence of    *)
(* edges.  Every table has a primary key, and every key is one column.     *)
(***************************************************************************)
EXTENDS Integers, SequencesExt

CONSTANTS
  TableOrder,   \* the tables, in the order a mapping lists them
  ColumnOrder,  \* the columns, likewise
  All,          \* no list of columns to take in: all of them
  Recase(_)     \* convert_identifier: a name in the project's convention

Tables == ToSet(TableOrder)
Columns == ToSet(ColumnOrder)

TablesOf(f) == SelectSeq(TableOrder, LAMBDA t : t \in DOMAIN f)

Distinct(s) == \A i, j \in DOMAIN s : s[i] = s[j] => i = j

(* From a table of the schema, by a column, to a table.                    *)
Reference(t, fk) == [from |-> t, col |-> fk.col, to |-> fk.to]
References(schema) ==
  UNION {{Reference(t, fk) : fk \in schema[t].refs} : t \in DOMAIN schema}

(* The identity of an edge: what it follows, whatever it is called.        *)
Follows(e) == [from |-> e.from, col |-> e.col, to |-> e.to]
EdgeNames(m) == {m.edges[i].name : i \in DOMAIN m.edges}

(* A dictionary made of a sequence: in order of the keys' first entries,   *)
(* the last entry of each.                                                 *)
ByKey(s, Key(_)) ==
  LET first == SelectSeq([i \in DOMAIN s |-> i],
                         LAMBDA i : \A j \in 1 .. i - 1 : Key(s[j]) # Key(s[i]))
  IN  [k \in DOMAIN first |-> Last(SelectSeq(s, LAMBDA e : Key(e) = Key(s[first[k]])))]

(* _edge_by_name, and what it has under a name.                            *)
EdgesByName(m) == ByKey(m.edges, LAMBDA e : e.name)
EdgeNamed(m, n) == Last(SelectSeq(m.edges, LAMBDA e : e.name = n))

NameOf(m, t) == IF t \in DOMAIN m.colls THEN m.colls[t].name ELSE t
PropOf(c, x) == IF x \in DOMAIN c.props THEN c.props[x] ELSE x
Shown(c, columns) == {x \in columns : x \notin c.excluded /\ (c.included = All \/ x \in c.included)}

-------------------------------------------------------------------------------
(* The default configuration, its validation, and the naming convention    *)

Plain(t) ==
  [name |-> t, props |-> <<>>, excluded |-> {}, included |-> All, term |-> "none", made |-> ""]

(* edge_collection_name, and with it taken, the columns as well.           *)
SuffixedName(r) == r.from \o "_to_" \o r.to \o "_" \o r.col
EdgeName(r, taken) ==
  LET base == r.from \o "_to_" \o r.to
  IN  IF base \in taken THEN SuffixedName(r) ELSE base

(* The edges of some references, in an order, after those there are.       *)
WithEdges(edges, refs) ==
  FoldLeft(LAMBDA es, r : Append(es, [name |-> EdgeName(r, {es[i].name : i \in DOMAIN es}),
                                      from |-> r.from, col |-> r.col, to |-> r.to]),
           edges,
           FlattenSeq([i \in DOMAIN TableOrder |->
             SelectSeq([j \in 1 .. Len(ColumnOrder) * Len(TableOrder) |->
                          [from |-> TableOrder[i],
                           col |-> ColumnOrder[((j - 1) % Len(ColumnOrder)) + 1],
                           to |-> TableOrder[((j - 1) \div Len(ColumnOrder)) + 1]]],
                       LAMBDA r : r \in refs)]))

GenerateDefaultConfig(schema) ==
  [colls |-> [t \in DOMAIN schema |-> Plain(t)],
   edges |-> WithEdges(<<>>, References(schema)),
   sep |-> 0, overrides |-> {}]

(* validate_config: every table and every column that is named is there.   *)
Valid(schema, m) ==
  /\ \A t \in DOMAIN m.colls :
       /\ t \in DOMAIN schema
       /\ DOMAIN m.colls[t].props \subseteq schema[t].columns
       /\ m.colls[t].excluded \subseteq schema[t].columns
       /\ m.colls[t].included # All => m.colls[t].included \subseteq schema[t].columns
  /\ \A i \in DOMAIN m.edges :
       /\ {m.edges[i].from, m.edges[i].to} \subseteq DOMAIN schema
       /\ m.edges[i].col \in schema[m.edges[i].from].columns

(* apply_naming_convention: collections, edges and what is made by their   *)
(* names, columns by theirs unless they have been given one.               *)
ApplyNamingConvention(m, schema) ==
  [m EXCEPT
     !.colls = [t \in DOMAIN @ |->
                  [@[t] EXCEPT
                     !.name = Recase(@), !.made = Recase(@),
                     !.props = [x \in DOMAIN @ \cup
                                  (IF t \in DOMAIN schema
                                     THEN {y \in schema[t].columns : Recase(y) # y} ELSE {}) |->
                                    IF x \in DOMAIN @ THEN @[x] ELSE Recase(x)]]],
     !.edges = [i \in DOMAIN @ |-> [@[i] EXCEPT !.name = Recase(@)]]]

-------------------------------------------------------------------------------
(* A changed schema                                                        *)

(* diff_schemas                                                            *)
DiffSchemas(old, new) ==
  [added |-> DOMAIN new \ DOMAIN old, removed |-> DOMAIN old \ DOMAIN new,
   modified |-> {t \in DOMAIN old \cap DOMAIN new : old[t] # new[t]}]

Present(t, schema) == IF t \in DOMAIN schema THEN schema[t].columns ELSE {}

(* Of a list to take in nothing may be left, which then stands for all.    *)
Cleaned(c, columns) ==
  [c EXCEPT !.props = [x \in DOMAIN @ \cap columns |-> @[x]],
            !.excluded = @ \cap columns,
            !.included = IF @ = All \/ @ \cap columns = {} THEN All ELSE @ \cap columns]

(* Edges are kept that follow a reference of the new schema, and those     *)
(* references get one that no edge followed.                               *)
(* Mutant: that no edge of that name followed.                             *)
UnfollowedByName(m, schema) ==
  {r \in References(schema) : \A i \in DOMAIN m.edges : EdgeName(r, {}) # m.edges[i].name}
Unfollowed(m, schema) ==
  {r \in References(schema) : \A i \in DOMAIN m.edges : r # Follows(m.edges[i])}

(* Tables that have gone stay, "orphaned".                                 *)
MigrateConfig(m, schema) ==
  [m EXCEPT
     !.colls = [t \in DOMAIN @ \cup DOMAIN schema |->
                  IF t \notin DOMAIN @ THEN Plain(t)
                  ELSE IF t \in DOMAIN schema THEN Cleaned(@[t], schema[t].columns) ELSE @[t]],
     !.edges = WithEdges(SelectSeq(@, LAMBDA e : Follows(e) \in References(schema)),
                         Unfollowed(m, schema)),
     !.overrides = {o \in @ : o[2] \in Present(o[1], schema)}]

-------------------------------------------------------------------------------
(* The plan from one mapping to another                                    *)

Action(type, n) == [type |-> type, name |-> n]
Renaming(old, new) == [type |-> "rename_collection", name |-> old, to |-> new]

(* A part of the plan for each of some tables.                             *)
ForEach(tables, Part(_)) == FlattenSeq([i \in DOMAIN tables |-> Part(tables[i])])
(* _add_action: what is planned already is not planned again.              *)
Planned(actions) ==
  FoldLeft(LAMBDA plan, a : IF Contains(plan, a) THEN plan ELSE Append(plan, a), <<>>, actions)

(* _edges_referencing_source                                               *)
Referencing(m, t) ==
  LET touching == SelectSeq(m.edges, LAMBDA e : t \in {e.from, e.to})
  IN  [i \in DOMAIN touching |-> touching[i].name]
All_(type, names) == [i \in DOMAIN names |-> Action(type, names[i])]

KeySeparator(old, new) ==
  ForEach(TablesOf(new.colls), LAMBDA t : <<Action("reload_collection", new.colls[t].name)>>)

CollectionAdded(old, new) ==
  ForEach(SelectSeq(TablesOf(new.colls), LAMBDA t : t \notin DOMAIN old.colls),
          LAMBDA t : <<Action("reload_collection", new.colls[t].name)>>)

CollectionRemoved(old, new) ==
  ForEach(SelectSeq(TablesOf(old.colls), LAMBDA t : t \notin DOMAIN new.colls),
          LAMBDA t : <<Action("drop_collection", old.colls[t].name)>>
                       \o All_("drop_edge", Referencing(old, t)))

Kept(old, new, Differs(_, _)) ==
  SelectSeq(TablesOf(old.colls),
            LAMBDA t : t \in DOMAIN new.colls /\ Differs(old.colls[t], new.colls[t]))

RenamedTables(old, new) == Kept(old, new, LAMBDA c, d : c.name # d.name)

(* The edges of a renamed collection, old and new, point at its name.      *)
(* Mutant: those that begin in it.                                         *)
BeginningIn(old, new, t) ==
  LET names == Referencing(old, t) \o Referencing(new, t)
  IN  SelectSeq(names, LAMBDA n : \A m \in {old, new} : n \in EdgeNames(m) => EdgeNamed(m, n).from = t)
PointingAt(old, new, t) == Referencing(old, t) \o Referencing(new, t)

CollectionRenamed(old, new) ==
  ForEach(RenamedTables(old, new),
          LAMBDA t : <<Renaming(old.colls[t].name, new.colls[t].name)>>
                       \o All_("reload_edge", PointingAt(old, new, t)))

(* A property is renamed in place.                                         *)
FieldMappingChanges(old, new) ==
  ForEach(Kept(old, new, LAMBDA c, d : c.props # d.props),
          LAMBDA t :
            LET c == old.colls[t]
                d == new.colls[t]
                changed == SelectSeq(ColumnOrder, LAMBDA x : PropOf(c, x) # PropOf(d, x))
            IN  [i \in DOMAIN changed |->
                   [type |-> "aql_update", name |-> d.name,
                    prop |-> PropOf(c, changed[i]), to |-> PropOf(d, changed[i])]])

FieldsChanged(old, new) ==
  ForEach(Kept(old, new, LAMBDA c, d : c.excluded # d.excluded),
          LAMBDA t : <<Action("reload_collection", new.colls[t].name)>>)
    \o ForEach(Kept(old, new, LAMBDA c, d : c.included # d.included),
               LAMBDA t : <<Action("reload_collection", new.colls[t].name)>>)

(* Edges under a new name that follow a reference which one followed under *)
(* a name that has gone: as renamings of the old name, the last new one.   *)
OldName(old, e) == Head(SelectSeq(old.edges, LAMBDA o : Follows(o) = Follows(e))).name
RenamedEdges(old, new) ==
  ByKey(SelectSeq(new.edges,
                  LAMBDA e : /\ e.name \notin EdgeNames(old)
                             /\ \E i \in DOMAIN old.edges : Follows(old.edges[i]) = Follows(e)
                             /\ OldName(old, e) \notin EdgeNames(new)),
        LAMBDA e : OldName(old, e))

EdgeChanges(old, new) ==
  LET moved == RenamedEdges(old, new)
      left == {OldName(old, moved[i]) : i \in DOMAIN moved}
      arrived == {moved[i].name : i \in DOMAIN moved}
      named(es) == [i \in DOMAIN es |-> es[i].name]
      added == SelectSeq(EdgesByName(new), LAMBDA e : e.name \notin arrived \cup EdgeNames(old))
      removed == SelectSeq(EdgesByName(old), LAMBDA e : e.name \notin left \cup EdgeNames(new))
      modified == SelectSeq(EdgesByName(old),
                            LAMBDA e : /\ e.name \in EdgeNames(new)
                                       /\ Follows(e) # Follows(EdgeNamed(new, e.name)))
  IN  [i \in DOMAIN moved |-> Renaming(OldName(old, moved[i]), moved[i].name)]
        \o All_("reload_edge", named(added)) \o All_("drop_edge", named(removed))
        \o ForEach(modified, LAMBDA e : <<Action("drop_edge", e.name), Action("reload_edge", e.name)>>)

OverrideChanges(old, new) ==
  LET changed == {o[1] : o \in (old.overrides \ new.overrides) \cup (new.overrides \ old.overrides)}
  IN  ForEach(SelectSeq(TablesOf(new.colls), LAMBDA t : t \in changed),
              LAMBDA t : <<Action("reload_collection", new.colls[t].name)>>)

(* diff_mappings                                                           *)
DiffMappings(old, new) ==
  Planned(
    IF old.sep # new.sep THEN KeySeparator(old, new)
    ELSE CollectionAdded(old, new) \o CollectionRemoved(old, new) \o CollectionRenamed(old, new)
           \o FieldMappingChanges(old, new) \o FieldsChanged(old, new) \o EdgeChanges(old, new)
           \o OverrideChanges(old, new)
           \o (IF Len(RenamedTables(old, new)) + Len(RenamedEdges(old, new)) > 0
                 THEN <<Action("rebuild_graph", "")>> ELSE <<>>))

-------------------------------------------------------------------------------
(* What a change is checked on (mapping_changes.py)                        *)

(* The class of the table a relationship starts from (start_classes).      *)
ClassOf(m, t) == IF t \in DOMAIN m.colls THEN m.colls[t].term ELSE "none"
(* The classes of what a collection holds under a mapping.                 *)
Held(n, m) ==
  {ClassOf(m, t) : t \in {u \in DOMAIN m.colls : m.colls[u].name = n}}
    \cup {ClassOf(m, m.edges[i].from) : i \in {j \in DOMAIN m.edges : m.edges[j].name = n}}
(* Mutant: under the new mapping only.                                     *)
WrittenByNew(n, old, new) == Held(n, new)
WrittenBy(n, old, new) == Held(n, old) \cup Held(n, new)

(* migration_items: the project-wide rules for what nothing writes.        *)
MigrationItems(plan, old, new) ==
  UNION {IF WrittenBy(plan[i].name, old, new) = {} THEN {"none"}
         ELSE WrittenBy(plan[i].name, old, new) : i \in DOMAIN plan}
=============================================================================
