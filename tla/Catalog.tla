-------------------------------- MODULE Catalog --------------------------------
(***************************************************************************)
(* r2g/catalog.py: sources, snapshots, projects, loads, targets and        *)
(* external catalogs, all kept in one JSON file.  Every operation of a     *)
(* CatalogManager reads the whole file, changes its copy and writes the    *)
(* whole file back, truncating it first, and nothing locks it: the         *)
(* Studio's event loop, its load thread, and a command or an MCP server in *)
(* another process each have a manager of their own.                       *)
(*                                                                         *)
(* An actor has a list of calls to make (CatalogClients has the handlers), *)
(* what it has learned so far, and the list to take up if a call raises.   *)
(***************************************************************************)
EXTENDS Naturals, Sequences, FiniteSets

CONSTANTS
  Sources, Projects, Targets, Providers,  \* names
  Overlays,    \* reviewed key overlays
  Mappings,    \* mapping configurations
  Levels,      \* sensitivity of the one classified column, 0 the lowest
  Actors,
  Absent,      \* no such record, no overlay, no mapping, no target
  Empty,       \* what the file is between the truncation and the write, and
  Mixed        \* what two writers can make of it: a manager can read neither

SourceConfig == [level : Levels, overlay : Overlays \cup {Absent}, bound : BOOLEAN]
SchemaSnapshot == [id : Nat, source : Sources, level : Levels,
                   overlay : Overlays \cup {Absent}, accepted : BOOLEAN]
Project == [source : Sources, snapshot : Nat, target : Targets \cup {Absent},
            loaded : Mappings \cup {Absent}]
Statuses == {"running", "completed", "failed"}
LoadRecord == [id : Nat, project : Projects, status : Statuses]

CatalogType ==
  [sources : [Sources -> SourceConfig \cup {Absent}],
   snapshots : SUBSET SchemaSnapshot,
   projects : [Projects -> Project \cup {Absent}],
   history : SUBSET LoadRecord,
   targets : SUBSET Targets,
   providers : SUBSET Providers]

(* There are names to choose, and no record is one of the three markers.   *)
ASSUME CatalogAssumption ==
  /\ Sources # {} /\ Targets # {} /\ Overlays # {}
  /\ Levels \subseteq Nat /\ 0 \in Levels
  /\ \A names \in {Sources, Projects, Targets, Providers, Overlays, Mappings} : Absent \notin names
  /\ Absent \notin SourceConfig \cup SchemaSnapshot \cup Project \cup CatalogType
  /\ Empty \notin CatalogType /\ Mixed \notin CatalogType /\ Empty # Mixed

NewCatalog ==
  [sources |-> [s \in Sources |-> Absent], snapshots |-> {},
   projects |-> [p \in Projects |-> Absent], history |-> {}, targets |-> {}, providers |-> {}]

(* What importing a source, introspecting it and creating projects leave.  *)
Stocked ==
  LET first == CHOOSE s \in Sources : TRUE
  IN  [sources |-> [s \in Sources |->
         IF s = first THEN [level |-> 0, overlay |-> Absent, bound |-> TRUE] ELSE Absent],
       snapshots |->
         {[id |-> 1, source |-> first, level |-> 0, overlay |-> Absent, accepted |-> FALSE]},
       projects |-> [p \in Projects |-> [source |-> first, snapshot |-> 1,
                                          target |-> CHOOSE t \in Targets : TRUE, loaded |-> Absent]],
       history |-> {}, targets |-> Targets, providers |-> Providers]

Readable(f) == f \notin {Empty, Mixed}

VARIABLES
  file,    \* catalog.json
  todo,    \* per actor, the calls it has still to make
  rescue,  \* per actor, the calls of its except clause
  mem,     \* per actor, what it has read: source, snapshot, project, mapping, load
  base,    \* per actor, the file it has read and is about to replace
  copy,    \* per actor, what it is about to write
  saving,  \* per actor: "no", "truncate", "write"
  clock,   \* the next timestamp, and id
  mishaps  \* history: what has gone wrong so far

catalogVars == <<file, todo, rescue, mem, base, copy, saving, clock, mishaps>>

Blank == [source |-> Absent, snapshot |-> Absent, project |-> Absent, mapping |-> Absent,
          accept |-> FALSE, level |-> 0, load |-> 0, dry |-> FALSE]

Calls(a, op) == todo[a] # <<>> /\ saving[a] = "no" /\ Head(todo[a]).op = op
Call(a) == Head(todo[a])

(* A method that reads the file gets a catalog.                            *)
Reads(a, op) == Calls(a, op) /\ Readable(file)

(* The source a call is about: the one it names, or the project's.         *)
SourceOf(a) == IF "name" \in DOMAIN Call(a) THEN Call(a).name ELSE mem[a].project.source

Then(a, calls) == todo' = [todo EXCEPT ![a] = calls]
Return(a) == Then(a, Tail(todo[a]))
(* A None the handler answers with "not found".                            *)
Stop(a) == Then(a, <<>>)
Learn(a, m) == mem' = [mem EXCEPT ![a] = m]

Raise(a) ==
  /\ Then(a, rescue[a])
  /\ rescue' = [rescue EXCEPT ![a] = <<>>]

(* _save, the first half: what will be written is settled.                 *)
Save(a, c) ==
  /\ copy' = [copy EXCEPT ![a] = c] /\ base' = [base EXCEPT ![a] = file]
  /\ saving' = [saving EXCEPT ![a] = "truncate"]
  /\ Return(a)

NoSave == UNCHANGED <<copy, base, saving>>
Kept == UNCHANGED <<file, mishaps>>
Same == Kept /\ UNCHANGED <<rescue, mem, clock>>

(* write_text opens the file, which truncates it, and writes.              *)
Truncate(a) ==
  /\ saving[a] = "truncate"
  /\ file' = Empty /\ saving' = [saving EXCEPT ![a] = "write"]
  /\ mishaps' = IF file = base[a] THEN mishaps ELSE mishaps \cup {"stale"}
  /\ UNCHANGED <<todo, rescue, mem, base, copy, clock>>

(* Over what another has written since the truncation, a shorter text      *)
(* leaves the end of the longer one standing.                              *)
Write(a) ==
  /\ saving[a] = "write"
  /\ \/ file' = copy[a] /\ UNCHANGED mishaps
     \/ file # Empty /\ file' = Mixed /\ mishaps' = mishaps \cup {"mixed"}
  /\ saving' = [saving EXCEPT ![a] = "no"] /\ copy' = [copy EXCEPT ![a] = Absent]
  /\ base' = [base EXCEPT ![a] = Absent]
  /\ UNCHANGED <<todo, rescue, clock>>
  /\ IF todo[a] = <<>> THEN Learn(a, [Blank EXCEPT !.load = mem[a].load]) ELSE UNCHANGED mem

Methods == {"add_source", "update_source", "remove_source", "add_catalog", "remove_catalog",
            "create_snapshot", "update_snapshot_schema", "get_latest_snapshot",
            "create_project", "update_project", "touch_project", "delete_project",
            "start_load", "complete_load", "set_loaded_mapping",
            "add_target", "remove_target", "resolve_target",
            "get_source", "get_project", "get_catalog", "get_target", "list",
            "demo_source", "demo_snapshot", "demo_project"}

(* _load of a file that is no catalog raises.                              *)
ReadTorn(a) ==
  /\ \E op \in Methods : Calls(a, op)
  /\ ~Readable(file)
  /\ Raise(a) /\ base' = [base EXCEPT ![a] = Absent] /\ mishaps' = mishaps \cup {"torn"}
  /\ UNCHANGED <<file, mem, copy, saving, clock>>

-------------------------------------------------------------------------------
(* Sources                                                                 *)

GetSource(a) ==
  /\ Reads(a, "get_source")
  /\ LET s == file.sources[SourceOf(a)]
     IN  IF s = Absent THEN Stop(a) /\ UNCHANGED mem
         ELSE Return(a) /\ Learn(a, [mem[a] EXCEPT !.source = s])
  /\ Kept /\ UNCHANGED <<rescue, clock>> /\ NoSave

AddSource(a) ==
  /\ Reads(a, "add_source")
  /\ IF file.sources[Call(a).name] # Absent
       THEN Raise(a) /\ NoSave
       ELSE /\ Save(a, [file EXCEPT !.sources[Call(a).name] =
                          [level |-> mem[a].level, overlay |-> Call(a).overlay, bound |-> Call(a).bound]])
            /\ UNCHANGED rescue
  /\ Kept /\ UNCHANGED <<mem, clock>>

(* update_source takes the fields it is given.                             *)
UpdateSource(a) ==
  /\ Reads(a, "update_source")
  /\ LET s == file.sources[Call(a).name]
     IN  IF s = Absent THEN Raise(a) /\ NoSave
         ELSE /\ Save(a, [file EXCEPT !.sources[Call(a).name] =
                            IF Call(a).field = "level" THEN [s EXCEPT !.level = mem[a].level]
                            ELSE [s EXCEPT !.overlay = Call(a).value]])
              /\ UNCHANGED rescue
  /\ Kept /\ UNCHANGED <<mem, clock>>

DependentProjects(s) ==
  {p \in Projects : file.projects[p] # Absent /\ file.projects[p].source = s}
DependentSnapshots(s) == {n \in file.snapshots : n.source = s}

(* The source and, with cascade, all that depends on it.                   *)
(* Mutant: the projects stay.                                              *)
WithoutSourceOnly(s) == [file EXCEPT !.sources[s] = Absent, !.snapshots = @ \ DependentSnapshots(s)]
WithoutSource(s) ==
  [file EXCEPT
     !.sources[s] = Absent,
     !.snapshots = @ \ DependentSnapshots(s),
     !.projects = [p \in Projects |-> IF p \in DependentProjects(s) THEN Absent ELSE @[p]],
     !.history = {r \in @ : r.project \notin DependentProjects(s)}]

RemoveSource(a) ==
  /\ Reads(a, "remove_source")
  /\ LET s == Call(a).name
     IN  IF file.sources[s] = Absent THEN Stop(a) /\ UNCHANGED rescue /\ NoSave
         ELSE IF ~Call(a).cascade /\ (DependentProjects(s) # {} \/ DependentSnapshots(s) # {})
           THEN Raise(a) /\ NoSave
           ELSE Save(a, WithoutSource(s)) /\ UNCHANGED rescue
  /\ Kept /\ UNCHANGED <<mem, clock>>

-------------------------------------------------------------------------------
(* Snapshots                                                               *)

(* The one captured last.                                                  *)
Latest(s) ==
  LET all == DependentSnapshots(s)
  IN  IF all = {} THEN Absent ELSE CHOOSE n \in all : \A o \in all : o.id <= n.id

GetLatestSnapshot(a) ==
  /\ Reads(a, "get_latest_snapshot")
  /\ IF Latest(SourceOf(a)) = Absent THEN Stop(a) /\ UNCHANGED mem
     ELSE Return(a) /\ Learn(a, [mem[a] EXCEPT !.snapshot = Latest(SourceOf(a))])
  /\ Kept /\ UNCHANGED <<rescue, clock>> /\ NoSave

(* What a snapshot was made from has been changed since, by a handler that *)
(* ran meanwhile.                                                          *)
Crossed(a, s) ==
  \/ file.sources[s] = Absent \/ file.sources[s].level # mem[a].source.level
  \/ mem[a].snapshot.id # 0 /\ Latest(s) # mem[a].snapshot

(* create_snapshot does not look for the source.                           *)
CreateSnapshot(a) ==
  /\ Reads(a, "create_snapshot")
  /\ LET s == Call(a).name
         n == [mem[a].snapshot EXCEPT !.id = clock, !.source = s, !.accepted = mem[a].accept]
     IN  /\ Save(a, [file EXCEPT !.snapshots = @ \cup {n}])
         /\ Learn(a, [mem[a] EXCEPT !.snapshot = n])
         /\ mishaps' = IF Crossed(a, s) THEN mishaps \cup {"crossed"} ELSE mishaps
  /\ clock' = clock + 1
  /\ UNCHANGED <<file, rescue>>

(* annotate_schema stamps the columns that have a classification.          *)
Annotated(n, level) == IF level = 0 THEN n ELSE [n EXCEPT !.level = level]

(* The schema read some time ago, annotated since, replaces what is there. *)
UpdateSnapshotSchema(a) ==
  /\ Reads(a, "update_snapshot_schema")
  /\ LET old == {n \in file.snapshots : n.id = mem[a].snapshot.id}
         new == {[n EXCEPT !.level = mem[a].snapshot.level,
                           !.accepted = mem[a].snapshot.accepted] : n \in old}
     IN  IF old = {} THEN Raise(a) /\ NoSave
         ELSE Save(a, [file EXCEPT !.snapshots = (@ \ old) \cup new]) /\ UNCHANGED rescue
  /\ mishaps' = IF \E n \in DependentSnapshots(mem[a].snapshot.source) : n.id > mem[a].snapshot.id
                  THEN mishaps \cup {"crossed"} ELSE mishaps
  /\ UNCHANGED <<file, mem, clock>>

-------------------------------------------------------------------------------
(* Projects                                                                *)

GetProject(a) ==
  /\ Reads(a, "get_project")
  /\ LET p == file.projects[Call(a).name]
     IN  IF p = Absent THEN Stop(a) /\ UNCHANGED mem
         ELSE Return(a) /\ Learn(a, [mem[a] EXCEPT !.project = p])
  /\ Kept /\ UNCHANGED <<rescue, clock>> /\ NoSave

(* create_project reads the file, then once more for the latest snapshot,  *)
(* and writes its first copy; a project of that name is replaced.          *)
CreateProject(a) ==
  /\ Reads(a, "create_project")
  /\ IF base[a] = Absent
       THEN IF file.sources[Call(a).source] = Absent
              THEN Raise(a) /\ NoSave
              ELSE base' = [base EXCEPT ![a] = file] /\ UNCHANGED <<todo, rescue, copy, saving>>
       ELSE LET n == Latest(Call(a).source)
                p == [source |-> Call(a).source, snapshot |-> IF n = Absent THEN 0 ELSE n.id,
                      target |-> Absent, loaded |-> Absent]
            IN  /\ copy' = [copy EXCEPT ![a] = [base[a] EXCEPT !.projects[Call(a).name] = p]]
                /\ saving' = [saving EXCEPT ![a] = "truncate"]
                /\ Return(a) /\ UNCHANGED <<rescue, base>>
  /\ Kept /\ UNCHANGED <<mem, clock>>

(* update_project: the target a caller names, or the snapshot it has made. *)
UpdateProject(a) ==
  /\ Reads(a, "update_project")
  /\ LET p == file.projects[Call(a).name]
         q == IF Call(a).snapshot THEN [p EXCEPT !.snapshot = mem[a].snapshot.id] ELSE p
     IN  IF p = Absent THEN Raise(a) /\ NoSave
         ELSE /\ Save(a, [file EXCEPT !.projects[Call(a).name] = [q EXCEPT !.target = Call(a).target]])
              /\ UNCHANGED rescue
  /\ Kept /\ UNCHANGED <<mem, clock>>

(* touch_project changes a time, but writes the whole copy.                *)
TouchProject(a) ==
  /\ Reads(a, "touch_project")
  /\ IF file.projects[Call(a).name] = Absent THEN Return(a) /\ NoSave ELSE Save(a, file)
  /\ Same

DeleteProject(a) ==
  /\ Reads(a, "delete_project")
  /\ IF file.projects[Call(a).name] = Absent
       THEN Stop(a) /\ NoSave
       ELSE Save(a, [file EXCEPT !.projects[Call(a).name] = Absent,
                                 !.history = {r \in @ : r.project # Call(a).name}])
  /\ Same

-------------------------------------------------------------------------------
(* Loads                                                                   *)

(* start_load does not look for the project.                               *)
StartLoad(a) ==
  /\ Reads(a, "start_load")
  /\ Save(a, [file EXCEPT !.history =
                @ \cup {[id |-> clock, project |-> Call(a).name, status |-> "running"]}])
  /\ Learn(a, [mem[a] EXCEPT !.load = clock]) /\ clock' = clock + 1
  /\ Kept /\ UNCHANGED rescue

(* The record a completion is about.                                       *)
(* Mutant: every record that is still running.                             *)
IsMyLoadAny(a, r) == r.status = "running"
IsMyLoad(a, r) == r.id = mem[a].load

CompleteLoad(a) ==
  /\ Reads(a, "complete_load")
  /\ IF \E r \in file.history : IsMyLoad(a, r)
       THEN /\ Save(a, [file EXCEPT !.history =
                          {IF IsMyLoad(a, r) THEN [r EXCEPT !.status = Call(a).status] ELSE r : r \in @}])
            /\ UNCHANGED rescue
       ELSE Raise(a) /\ NoSave
  /\ Kept /\ UNCHANGED <<mem, clock>>

SetLoadedMapping(a) ==
  /\ Reads(a, "set_loaded_mapping")
  /\ IF file.projects[Call(a).name] = Absent THEN Return(a) /\ NoSave
     ELSE Save(a, [file EXCEPT !.projects[Call(a).name].loaded = mem[a].mapping])
  /\ Same

-------------------------------------------------------------------------------
(* Targets and external catalogs                                           *)

(* get_target, get_catalog: the registered, or nothing.                    *)
GetEntry(a) ==
  /\ \/ Reads(a, "get_target") /\ IF Call(a).name \in file.targets THEN Return(a) ELSE Stop(a)
     \/ Reads(a, "get_catalog") /\ IF Call(a).name \in file.providers THEN Return(a) ELSE Stop(a)
     \/ Reads(a, "list") /\ Return(a)
  /\ Same /\ NoSave

AddEntry(a) ==
  /\ \/ /\ Reads(a, "add_target")
        /\ IF Call(a).name \in file.targets THEN Raise(a) /\ NoSave
           ELSE Save(a, [file EXCEPT !.targets = @ \cup {Call(a).name}]) /\ UNCHANGED rescue
     \/ /\ Reads(a, "add_catalog")
        /\ IF Call(a).name \in file.providers THEN Raise(a) /\ NoSave
           ELSE Save(a, [file EXCEPT !.providers = @ \cup {Call(a).name}]) /\ UNCHANGED rescue
  /\ Kept /\ UNCHANGED <<mem, clock>>

RemoveEntry(a) ==
  /\ \/ /\ Reads(a, "remove_target")
        /\ IF Call(a).name \notin file.targets THEN Stop(a) /\ NoSave
           ELSE Save(a, [file EXCEPT !.targets = @ \ {Call(a).name}])
     \/ /\ Reads(a, "remove_catalog")
        /\ IF Call(a).name \notin file.providers THEN Stop(a) /\ NoSave
           ELSE Save(a, [file EXCEPT !.providers = @ \ {Call(a).name}])
  /\ Same

-------------------------------------------------------------------------------

Method(a) ==
  \/ GetSource(a) \/ AddSource(a) \/ UpdateSource(a) \/ RemoveSource(a)
  \/ GetLatestSnapshot(a) \/ CreateSnapshot(a) \/ UpdateSnapshotSchema(a)
  \/ GetProject(a) \/ CreateProject(a) \/ UpdateProject(a) \/ TouchProject(a) \/ DeleteProject(a)
  \/ StartLoad(a) \/ CompleteLoad(a) \/ SetLoadedMapping(a)
  \/ GetEntry(a) \/ AddEntry(a) \/ RemoveEntry(a)
  \/ Truncate(a) \/ Write(a) \/ ReadTorn(a)
=============================================================================
