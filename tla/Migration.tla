-------------------------------- MODULE Migration --------------------------------
(***************************************************************************)
(* A loaded graph whose mapping is edited, whose source changes, and that  *)
(* is migrated in place: the endpoints and commands that edit, validate,   *)
(* migrate (ui/server.py, main.py, mcp_server.py), and the executor        *)
(* (selective_reload.py), which works off a plan action by action, goes on *)
(* after one that raises, and skips what it finds it cannot do.            *)
(*                                                                         *)
(* A collection holds a document for the row of each table loaded into it, *)
(* and an edge for each reference; a load is one step here (it is modelled *)
(* in StreamingPipeline).                                                  *)
(***************************************************************************)
EXTENDS Mapping

CONSTANTS
  Schemas,       \* what the source's schema may be, the first of them at the start
  Mappings,      \* what a project's mapping may be at the start
  Names,         \* of collections, that a user gives
  Props,         \* of properties, likewise
  Classes,       \* of the ontology
  Nothing,       \* no mapping loaded, no migration going on
  MaxChanges,    \* bound: changes of the mapping or the source
  MaxRuns,       \* bound: loads and migrations
  MaxTurns,      \* bound: changes and runs
  MaxFaults      \* bound: what fails, and loads of some tables only

VARIABLES
  schema,   \* of the source, as in the latest snapshot
  mapping,  \* the project's mapping file
  loaded,   \* Project.loaded_mapping
  db,       \* the collections of the target
  run,      \* the migration going on
  settled,  \* history: the last load or migration has succeeded
  mishaps,  \* history: what has been skipped, overwritten, left out or done elsewhere
  bounds    \* changes, runs and faults so far

vars == <<schema, mapping, loaded, db, run, settled, mishaps, bounds>>
inputs == <<schema, mapping>>

Bounds == [changes |-> MaxChanges, runs |-> MaxRuns, faults |-> MaxFaults]
Count(kinds) ==
  /\ \A k \in kinds : bounds[k] < Bounds[k]
  /\ bounds' = [k \in DOMAIN bounds |-> IF k \in kinds THEN bounds[k] + 1 ELSE bounds[k]]
  /\ bounds'.changes + bounds'.runs <= MaxTurns

-------------------------------------------------------------------------------
(* What a load makes of the source                                         *)

Doc(m, t, columns) ==
  [table |-> t, sep |-> m.sep, cast |-> {o \in m.overrides : o[1] = t}, made |-> m.colls[t].made,
   props |-> {<<PropOf(m.colls[t], x), x>> : x \in Shown(m.colls[t], columns)}]
Edge(m, e) ==
  [table |-> e.from, sep |-> m.sep, follows |-> Follows(e),
   ends |-> <<NameOf(m, e.from), NameOf(m, e.to)>>]

SameKey(d, e) ==
  /\ d.table = e.table /\ d.sep = e.sep
  /\ DOMAIN d = DOMAIN e /\ ("follows" \in DOMAIN d => d.follows = e.follows)

(* Into a collection, dropped before or not, with replacement.             *)
Import(d, n, item, drop) ==
  LET old == IF drop \/ n \notin DOMAIN d THEN {} ELSE {e \in d[n] : ~SameKey(item, e)}
  IN  (n :> (old \cup {item})) @@ d

(* StreamingPipeline.run over some tables: documents, then edges.          *)
Pipeline(d, m, tables, drop) ==
  LET docs == FoldLeft(LAMBDA e, t : Import(e, m.colls[t].name, Doc(m, t, schema[t].columns), drop),
                       d, SelectSeq(TablesOf(m.colls), LAMBDA t : t \in tables \cap DOMAIN schema))
  IN  FoldLeft(LAMBDA e, f : Import(e, f.name, Edge(m, f), drop),
               docs, SelectSeq(m.edges, LAMBDA f : f.from \in tables \cap DOMAIN schema))

(* ConfigManager.graph_edge_definitions: what a graph is declared over;    *)
(* declaring it creates the collections it names.                          *)
GraphNames(m) ==
  UNION {{e.name, NameOf(m, e.from), NameOf(m, e.to)} : e \in ToSet(m.edges)}
WithGraph(d, m) == d @@ [n \in GraphNames(m) |-> {}]

-------------------------------------------------------------------------------
(* The user, and the source                                                *)

UsedNames(m) == {m.colls[t].name : t \in DOMAIN m.colls} \cup EdgeNames(m)
UsedProps(c, t) == {PropOf(c, x) : x \in schema[t].columns}

CollectionEdits(m, t) ==
  LET c == m.colls[t]
      With(d) == [m EXCEPT !.colls[t] = d]
  IN  {With([c EXCEPT !.name = n]) : n \in Names \ UsedNames(m)}
        \cup {With([c EXCEPT !.props = (x :> p) @@ @]) :
                x \in schema[t].columns, p \in Props \ UsedProps(c, t)}
        \cup {With([c EXCEPT !.excluded = @ \cup {x}]) : x \in schema[t].columns \ c.excluded}
        \cup {With([c EXCEPT !.included = {x}]) : x \in schema[t].columns}
        \cup {With([c EXCEPT !.term = k]) : k \in Classes \ {c.term}}
        \cup {With([c EXCEPT !.made = p]) : p \in (Props \ UsedProps(c, t)) \cup {""}}

(* An edge may be given the name of another.                               *)
EdgeEdits(m) ==
  {[m EXCEPT !.edges[i].name = n] :
     i \in DOMAIN m.edges, n \in (Names \ UsedNames(m)) \cup EdgeNames(m)}
    \cup {[m EXCEPT !.edges = RemoveAt(@, i)] : i \in DOMAIN m.edges}
    \cup UNION {{[m EXCEPT !.edges[i].col = r.col] :
                   r \in {s \in References(schema) : s.from = m.edges[i].from /\ s.to = m.edges[i].to}} :
                i \in DOMAIN m.edges}

(* A table taken out goes with its edges.                                  *)
WithoutTable(m, t) ==
  [m EXCEPT !.colls = [u \in DOMAIN @ \ {t} |-> @[u]],
            !.edges = SelectSeq(@, LAMBDA e : t \notin {e.from, e.to})]

Edits(m) ==
  UNION {CollectionEdits(m, t) : t \in DOMAIN m.colls \cap DOMAIN schema}
    \cup EdgeEdits(m)
    \cup {WithoutTable(m, t) : t \in DOMAIN m.colls}
    \cup {[m EXCEPT !.sep = 1 - @],
          [m EXCEPT !.overrides = {<<TableOrder[1], ColumnOrder[1]>>}],
          ApplyNamingConvention(m, schema),   \* apply-naming
          GenerateDefaultConfig(schema)}      \* auto-map, generate-config

(* Two tables, or edges, or one of each may be given one collection, and   *)
(* two edges may follow one reference.                                     *)
Shared(m) ==
  IF \/ \E t, u \in DOMAIN m.colls : t # u /\ m.colls[t].name = m.colls[u].name
     \/ \E t \in DOMAIN m.colls : m.colls[t].name \in EdgeNames(m)
     \/ ~Distinct([i \in DOMAIN m.edges |-> m.edges[i].name])
     \/ ~Distinct([i \in DOMAIN m.edges |-> Follows(m.edges[i])])
    THEN {"shared"} ELSE {}

(* An edit, perhaps after a migration that did not come to its end.        *)
Edited(m) ==
  /\ mapping' = m
  /\ mishaps' = mishaps \cup Shared(m) \cup (IF settled \/ loaded = Nothing THEN {} ELSE {"partial"})
  /\ UNCHANGED <<loaded, db, run, settled>>

(* save_mapping, with what the editor or apply-naming made of the mapping. *)
SaveMapping ==
  /\ Count({"changes"})
  /\ \E m \in Edits(mapping) : m # mapping /\ Edited(m)
  /\ UNCHANGED schema

Evolve ==
  /\ Count({"changes"})
  /\ \E i \in DOMAIN Schemas : schema' = Schemas[i] /\ schema' # schema
  /\ mishaps' = mishaps \cup {"evolved"}
  /\ UNCHANGED <<mapping, loaded, db, run, settled>>

(* migrate-config, to the schema the source has come to.                   *)
MigrateConfigCmd ==
  /\ MigrateConfig(mapping, schema) # mapping
  /\ Edited(MigrateConfig(mapping, schema))
  /\ UNCHANGED <<schema, bounds>>

(* A load of the mapping as it is saved, of all its tables or of some: the *)
(* whole of it is recorded as loaded.                                      *)
Load ==
  /\ run = Nothing /\ Valid(schema, mapping)
  /\ \E drop \in BOOLEAN, tables \in SUBSET DOMAIN mapping.colls \ {{}} :
       LET whole == tables = DOMAIN mapping.colls
           afresh == drop \/ db = <<>>
       IN  /\ Count(IF whole THEN {"runs"} ELSE {"runs", "faults"})
           /\ db' = WithGraph(Pipeline(db, mapping, tables, drop), mapping)
           /\ settled' = afresh
           /\ mishaps' = (IF whole /\ afresh THEN Shared(mapping) ELSE mishaps)
                           \cup (IF whole THEN {} ELSE {"part"})
  /\ loaded' = mapping
  /\ UNCHANGED <<inputs, run>>

-------------------------------------------------------------------------------
(* A migration                                                             *)

Begin(studio) ==
  LET plan == DiffMappings(loaded, mapping)
  IN  /\ run = Nothing /\ loaded # Nothing /\ plan # <<>>
      /\ \E online \in BOOLEAN :
           run' = [studio |-> studio, online |-> online, old |-> loaded, goal |-> mapping,
                   plan |-> plan, errors |-> FALSE,
                   checked |-> MigrationItems(plan, loaded, mapping)]
      /\ Count({"runs"})
      /\ settled' = FALSE
      /\ UNCHANGED <<inputs, loaded, db, mishaps>>

(* The Studio's migration goes on without a source it cannot reach; the    *)
(* command is given one or none, declares no graph, checks no class and    *)
(* leaves the catalog alone.                                               *)
Migrate == Begin(TRUE)
SelectiveReload == Begin(FALSE)

At(type) == run # Nothing /\ run.plan # <<>> /\ Head(run.plan).type = type
Goes == run' = [run EXCEPT !.plan = Tail(@)]
Done == Goes /\ UNCHANGED <<inputs, loaded, settled, bounds>>
Target == Head(run.plan).name

Skipped(why) == mishaps' = mishaps \cup {why}

(* A collection is renamed if it is there and the new name is free; on a   *)
(* second run it is there under the new name.                              *)
RenameCollection ==
  /\ At("rename_collection")
  /\ LET new == Head(run.plan).to
     IN  IF new \in DOMAIN db
           THEN /\ UNCHANGED db
                /\ IF Target \in DOMAIN db THEN Skipped("taken") ELSE UNCHANGED mishaps
         ELSE IF Target \notin DOMAIN db THEN UNCHANGED db /\ Skipped("lost")
         ELSE /\ db' = [n \in (DOMAIN db \ {Target}) \cup {new} |-> IF n = new THEN db[Target] ELSE db[n]]
              /\ UNCHANGED mishaps
  /\ Done

(* An edge collection that has been reloaded in this run may be dropped    *)
(* after: a reload planned twice is planned once.                          *)
Drop ==
  /\ At("drop_collection") \/ At("drop_edge")
  /\ db' = [n \in DOMAIN db \ {Target} |-> db[n]]
  /\ mishaps' = IF Target \in EdgeNames(run.goal) /\ ~Contains(run.plan, Action("reload_edge", Target))
                  THEN mishaps \cup {"dropped"} ELSE mishaps
  /\ Done

LoadedInto(n) == {t \in DOMAIN run.goal.colls : run.goal.colls[t].name = n}

ReloadCollection ==
  /\ At("reload_collection")
  /\ IF run.online
       THEN db' = Pipeline(db, run.goal, LoadedInto(Target), TRUE) /\ UNCHANGED mishaps
       ELSE UNCHANGED db /\ Skipped("offline")
  /\ Done

(* Dropped, and the table its first edge starts from loaded over what is   *)
(* there.                                                                  *)
ReloadEdge ==
  /\ At("reload_edge")
  /\ IF ~run.online THEN UNCHANGED db /\ Skipped("offline")
     ELSE IF Target \notin EdgeNames(run.goal) THEN UNCHANGED <<db, mishaps>>
     ELSE LET first == Head(SelectSeq(run.goal.edges, LAMBDA e : e.name = Target))
          IN  /\ db' = Pipeline((Target :> {}) @@ db, run.goal, {first.from}, FALSE)
              /\ UNCHANGED mishaps
  /\ Done

(* In every document that has the property, over one of the new name.      *)
Renamed(doc, old, new) ==
  IF \E p \in doc.props : p[1] = old
    THEN [doc EXCEPT !.props = {p \in @ : p[1] \notin {old, new}}
                                 \cup {<<new, p[2]>> : p \in {q \in @ : q[1] = old}}]
    ELSE doc

AqlUpdate ==
  /\ At("aql_update") /\ Target \in DOMAIN db
  /\ LET old == Head(run.plan).prop
         new == Head(run.plan).to
         has(d, n) == \E p \in d.props : p[1] = n
     IN  /\ db' = [db EXCEPT ![Target] = {Renamed(d, old, new) : d \in @}]
         /\ mishaps' = IF \E d \in db[Target] : has(d, old) /\ has(d, new)
                         THEN mishaps \cup {"overwritten"} ELSE mishaps
  /\ Done

RebuildGraph ==
  /\ At("rebuild_graph")
  /\ IF run.studio
       THEN db' = WithGraph(db, run.goal) ELSE UNCHANGED db
  /\ Done /\ UNCHANGED mishaps

(* An action raises, a reload perhaps after it has dropped its collection; *)
(* the next one is taken up all the same.                                  *)
Fails ==
  /\ run # Nothing /\ run.plan # <<>>
  /\ IF At("aql_update") /\ Target \notin DOMAIN db THEN UNCHANGED bounds ELSE Count({"faults"})
  /\ run' = [run EXCEPT !.plan = Tail(@), !.errors = TRUE]
  /\ \/ UNCHANGED db
     \/ /\ At("reload_collection") \/ (At("reload_edge") /\ Target \in EdgeNames(run.goal))
        /\ run.online /\ db' = (Target :> {}) @@ db
  /\ UNCHANGED <<inputs, loaded, settled, mishaps>>

(* The process dies.                                                       *)
Crash ==
  /\ run # Nothing /\ Count({"faults"})
  /\ run' = Nothing
  /\ UNCHANGED <<inputs, loaded, db, settled, mishaps>>

(* What the diff does not see, and no reload of the plan brought along.    *)
Unseen(old, new) ==
  \E t \in DOMAIN old.colls \cap DOMAIN new.colls :
    /\ old.colls[t].made # new.colls[t].made
    /\ ~Contains(DiffMappings(old, new), Action("reload_collection", new.colls[t].name))

(* Without errors the mapping is recorded as loaded, whatever was skipped. *)
End ==
  /\ run # Nothing /\ run.plan = <<>>
  /\ run' = Nothing
  /\ IF run.errors THEN UNCHANGED <<loaded, settled, mishaps>>
     ELSE IF run.studio
       THEN /\ loaded' = run.goal /\ settled' = TRUE
            /\ mishaps' = mishaps \cup (IF Unseen(run.old, run.goal) THEN {"unseen"} ELSE {})
     ELSE Skipped("cli") /\ UNCHANGED <<loaded, settled>>
  /\ UNCHANGED <<inputs, db, bounds>>

-------------------------------------------------------------------------------

Init ==
  /\ schema = Schemas[1] /\ mapping \in Mappings
  /\ loaded = Nothing /\ db = <<>> /\ run = Nothing
  /\ settled = FALSE /\ mishaps = Shared(mapping)
  /\ bounds = [changes |-> 0, runs |-> 0, faults |-> 0]

RunStep ==
  \/ RenameCollection \/ Drop \/ ReloadCollection \/ ReloadEdge \/ AqlUpdate \/ RebuildGraph
  \/ Fails \/ Crash \/ End

Next == SaveMapping \/ Evolve \/ MigrateConfigCmd \/ Load \/ Migrate \/ SelectiveReload \/ RunStep

Spec == Init /\ [][Next]_vars

-------------------------------------------------------------------------------
(* Properties                                                              *)

Live(m) ==
  /\ \A t \in DOMAIN m.colls \cap DOMAIN schema :
       /\ m.colls[t].name \in DOMAIN db
       /\ db[m.colls[t].name] = {Doc(m, t, schema[t].columns)}
  /\ \A i \in DOMAIN m.edges :
       m.edges[i].name \in DOMAIN db /\ db[m.edges[i].name] = {Edge(m, m.edges[i])}

(* The mapping on record as loaded is what is live in the target: each of  *)
(* its collections holds what a load of it would bring, the edges the new  *)
(* names of their ends; through edits, failed and repeated migrations, as  *)
(* long as each load was of all tables and each migration saw what it had  *)
(* to change, nothing was skipped for want of the source or of a name,     *)
(* overwritten, or dropped after its reload, no two parts of a mapping     *)
(* shared a collection, and nothing else changed the source or the target  *)
(* (selective_reload.py, set_loaded_mapping).                              *)
LoadedIsLive == settled /\ run = Nothing /\ mishaps = {} => Live(loaded)

(* PRD.md: loaded_mapping is "the mapping that is live in the target"; with *)
(* the source in reach and all names free a load or a migration keeps it   *)
(* so.                                                                     *)
LoadedIsWhatIsLive ==
  settled /\ run = Nothing /\ mishaps \subseteq {"dropped", "part", "unseen"} => Live(loaded)

Items(d) == UNION {{<<n, i>> : i \in d[n]} : n \in DOMAIN d}

(* Every document and edge that goes in a migration of the Studio is of a  *)
(* class the migration was checked on before it began, unless another      *)
(* version of it takes its place or a rename carries it along; and so is   *)
(* every one that comes (migration_items: "each collection its plan        *)
(* touches, on the classes of what the collection holds before or after"). *)
(* What another mapping has left in the target is on no record; and a      *)
(* reload of a collection drops those of its edges too, with the edges of  *)
(* any other class there.                                                  *)
Gone(d, e) == {i \in Items(d) : \A n \in DOMAIN e : \A f \in e[n] : ~SameKey(f, i[2])}
OnRecord(m, i) ==
  LET t == i[2].table
  IN  \/ t \in DOMAIN m.colls /\ m.colls[t].name = i[1]
      \/ \E j \in DOMAIN m.edges : m.edges[j].name = i[1] /\ m.edges[j].from = t
OfClasses(m, n) == {ClassOf(m, m.edges[j].from) : j \in {k \in DOMAIN m.edges : m.edges[k].name = n}}
BesideOthers(i) ==
  /\ "follows" \in DOMAIN i[2] /\ Cardinality(OfClasses(run.old, i[1])) > 1
  /\ \A a \in ToSet(DiffMappings(run.old, run.goal)) : a.name # i[1]
WritesAreChecked ==
  [][run # Nothing /\ run.studio =>
       /\ \A i \in Gone(db, db') : OnRecord(run.old, i) =>
            ClassOf(run.old, i[2].table) \in run.checked \/ BesideOthers(i)
       /\ \A i \in Gone(db', db) : ClassOf(run.goal, i[2].table) \in run.checked]_vars

(* mapping_changes.py: "migrations are checked on what they write: each    *)
(* table whose rows they write, on its class, and each relationship, on    *)
(* its start table's class", whatever shares its collection.               *)
AllWritesAreChecked ==
  [][run # Nothing /\ run.studio => \A i \in Gone(db, db') :
       OnRecord(run.old, i) => ClassOf(run.old, i[2].table) \in run.checked]_vars

Unique(m) ==
  /\ Distinct([i \in DOMAIN m.edges |-> Follows(m.edges[i])])
  /\ Distinct([i \in DOMAIN m.edges |-> m.edges[i].name])

(* No edge bears the name by which a reference that none follows is told   *)
(* from another of its tables: migrate_config does not look a second time. *)
SuffixFree ==
  \A r \in Unfollowed(mapping, schema) : SuffixedName(r) \notin EdgeNames(mapping)

(* A column that was left out is left out.                                 *)
StaysOut(t) ==
  LET m == MigrateConfig(mapping, schema)
  IN  \A x \in schema[t].columns : x \in Shown(m.colls[t], {x}) => x \in Shown(mapping.colls[t], {x})

(* A migrated configuration fits the schema: it follows every reference,   *)
(* maps every table, names no column that is gone, keeps the names it had, *)
(* gives each edge its own if each had its own and none bears a name that  *)
(* is due to another, leaves out what was left out unless all it took in   *)
(* is gone, and migrating it again changes nothing (migrate_config); a     *)
(* default one changes with what diff_schemas shows.                       *)
MigratedConfigFits ==
  LET m == MigrateConfig(mapping, schema)
      there == [m EXCEPT !.colls = [t \in DOMAIN schema |-> @[t]]]
      c == GenerateDefaultConfig(Schemas[1])
      d == DiffSchemas(Schemas[1], schema)
  IN  /\ DOMAIN schema \subseteq DOMAIN m.colls
      /\ Valid(schema, there)
      /\ \A r \in References(schema) : \E i \in DOMAIN m.edges : Follows(m.edges[i]) = r
      /\ Unique(mapping) /\ SuffixFree => Unique(m)
      /\ \A t \in DOMAIN mapping.colls : m.colls[t].name = mapping.colls[t].name
      /\ \A t \in DOMAIN mapping.colls \cap DOMAIN schema :
           mapping.colls[t].included = All \/ m.colls[t].included # All => StaysOut(t)
      /\ MigrateConfig(m, schema) = m
      /\ mapping # c
         \/ /\ DOMAIN m.colls = DOMAIN c.colls \cup d.added
            /\ m # c => (d.added \cup d.removed \cup d.modified) # {}

(* migrate-config: "Preserves user customizations (collection renames,     *)
(* field mappings, include/exclude lists ...)": also a list that empties;  *)
(* and edges that each had their name have it after.                       *)
LeftOutStaysOut == \A t \in DOMAIN mapping.colls \cap DOMAIN schema : StaysOut(t)
NamesStayUnique == Unique(mapping) => Unique(MigrateConfig(mapping, schema))
=============================================================================
