----------------------------- MODULE CatalogClients -----------------------------
(***************************************************************************)
(* Who uses the catalog: the handlers of the Studio (ui/server.py), one at *)
(* a time on its event loop; the thread of a load; and, in a process of    *)
(* its own, the commands (main.py) and the tools of the MCP server, one at *)
(* a time.  A handler is the list of calls it makes.                       *)
(***************************************************************************)
EXTENDS Catalog

CONSTANTS
  MaxHandlers, MaxCrashes, MaxPolls  \* bounds

Studio == "studio"
Thread == "thread"
Process == "process"

ASSUME ClientsAssumption ==
  /\ Actors = {Studio, Thread, Process}
  /\ MaxHandlers \in Nat /\ MaxCrashes \in Nat /\ MaxPolls \in Nat

VARIABLES
  returned,  \* history: the loads and migrations that have returned
  queue,     \* the progress events of the Studio's load
  stream,    \* "none", "open", "empty", "complete", "error": who follows it
  begun, crashes, polls

progressVars == <<queue, stream, polls>>
vars == <<catalogVars, returned, progressVars, begun, crashes>>

-------------------------------------------------------------------------------
(* Calls                                                                   *)

To(op, name) == [op |-> op, name |-> name]
Do(op) == [op |-> op]
Add(s, overlay, bound) == [op |-> "add_source", name |-> s, overlay |-> overlay, bound |-> bound]
Complete(status) == [op |-> "complete_load", status |-> status]
NewProject(p, s) == [op |-> "create_project", name |-> p, source |-> s]

(* _resolve_target, and the refusal of the system database.                *)
Refusing(calls) == [op |-> "resolve_target", otherwise |-> calls]

(* capture_source_snapshot                                                 *)
Capture(s) == <<To("get_source", s), To("introspect", s), To("create_snapshot", s)>>

-------------------------------------------------------------------------------
(* Commands                                                                *)

SourceAdd == {<<Add(s, o, FALSE)>> : s \in Sources, o \in Overlays \cup {Absent}}
SourceRemove == {<<[op |-> "remove_source", name |-> s, cascade |-> FALSE]>> : s \in Sources}
SourceSnapshot == {<<To("get_source", s)>> \o Capture(s) : s \in Sources}
SourceSetKeyOverlay ==
  {<<To("get_source", s), [op |-> "update_source", name |-> s, field |-> "overlay", value |-> o]>> :
     s \in Sources, o \in Overlays \cup {Absent}}
(* --accept: a new snapshot, of the schema the latest one had when the     *)
(* inference began.                                                        *)
SourceInferFks ==
  {<<To("get_source", s), To("get_latest_snapshot", s), Do("accept"), To("create_snapshot", s)>> :
     s \in Sources}
CatalogAdd == {<<To("add_catalog", c)>> : c \in Providers}
CatalogRemove == {<<To("remove_catalog", c)>> : c \in Providers}
CatalogImportSource ==
  {<<To("get_catalog", c), Do("resolve"), Add(s, Absent, TRUE)>> : c \in Providers, s \in Sources}
(* Mutant: the snapshot is left for the next capture.                      *)
ResyncSourceOnly ==
  {<<To("get_source", s), Do("bound"), To("get_catalog", c), Do("resolve"),
     [op |-> "update_source", name |-> s, field |-> "level"]>> : c \in Providers, s \in Sources}
CatalogResyncClassifications ==
  {<<To("get_source", s), Do("bound"), To("get_catalog", c), Do("resolve"),
     [op |-> "update_source", name |-> s, field |-> "level"],
     To("get_latest_snapshot", s), Do("annotate"), Do("update_snapshot_schema")>> :
     c \in Providers, s \in Sources}
ProjectCreate == {<<NewProject(p, s)>> : p \in Projects, s \in Sources}
ProjectStatus == {<<To("get_project", p), To("list", p)>> : p \in Projects}

-------------------------------------------------------------------------------
(* Tools of the MCP server                                                 *)

ToolAddSource == {<<Add(s, Absent, FALSE)>> : s \in Sources}
ToolRemoveSource ==
  {<<[op |-> "remove_source", name |-> s, cascade |-> c]>> : s \in Sources, c \in BOOLEAN}
(* The classifications of the asset are not handed on.                     *)
ToolImportSource ==
  {<<To("get_catalog", c), Add(s, Absent, FALSE)>> : c \in Providers, s \in Sources}
ToolIntrospect == SourceSnapshot
ToolAddTarget == {<<To("add_target", t)>> : t \in Targets}

(* start_load: in the call, not gated, nothing said of the loaded mapping. *)
ToolStartLoad ==
  {<<To("get_project", p), Do("get_source"), Do("get_latest_snapshot"), Do("load_config"),
     To("start_load", p), [op |-> "try", rescue |-> <<Complete("failed")>>],
     To("run", p), Complete("completed")>> : p \in Projects}

-------------------------------------------------------------------------------
(* Handlers of the Studio                                                  *)

StudioSources ==
  {<<Add(s, Absent, FALSE)>> : s \in Sources}
    \cup {<<[op |-> "remove_source", name |-> s, cascade |-> c]>> : s \in Sources, c \in BOOLEAN}
    \cup SourceSnapshot
StudioProjects ==
  {<<NewProject(p, s)>> : p \in Projects, s \in Sources}
    \cup {<<To("get_project", p),
            [op |-> "update_project", name |-> p, target |-> t, snapshot |-> FALSE]>> :
            p \in Projects, t \in Targets \cup {Absent}}
    \cup {<<To("delete_project", p)>> : p \in Projects}
    \cup {<<To("get_project", p), To("touch_project", p)>> : p \in Projects}
StudioTargets ==
  {<<To("add_target", t)>> : t \in Targets} \cup {<<To("remove_target", t)>> : t \in Targets}
    \cup {<<To("get_target", t)>> : t \in Targets}
StudioCatalogs ==
  {<<To("add_catalog", c)>> : c \in Providers} \cup {<<To("remove_catalog", c)>> : c \in Providers}
    \cup {<<To("get_catalog", c), Add(s, Absent, FALSE)>> : c \in Providers, s \in Sources}

(* install_snowflake_customer_360: what is there already is used.          *)
StudioDemo ==
  {<<To("get_target", t), To("demo_source", s), To("demo_snapshot", s),
     [op |-> "demo_project", name |-> p, source |-> s],
     [op |-> "update_project", name |-> p, target |-> t, snapshot |-> TRUE]>> :
     t \in Targets, s \in Sources, p \in Projects}

(* A load reads what it needs, opens a record, looks up the target, makes  *)
(* a connector, and leaves the rest to a thread.                           *)
StudioLoad ==
  {<<To("get_project", p), Do("get_source"), Do("get_latest_snapshot"), Do("load_config"),
     To("start_load", p), Refusing(<<Complete("failed")>>), Do("connect"), To("spawn", p)>> :
     p \in Projects}

(* Mutant: the except clause tells the followers only.                     *)
ThreadRescueQueueOnly == <<Do("error")>>
(* run_pipeline: its try block, and its except clause.                     *)
ThreadRescue == <<Do("error"), Complete("failed")>>
ThreadCalls(p, dryRun) ==
  <<To("run", p), Complete("completed")>>
    \o (IF dryRun THEN <<>> ELSE <<To("set_loaded_mapping", p)>>)

(* migrate: in the handler, for a project that has been loaded; without    *)
(* its source, which is read last, it goes on.  Under a control plane this *)
(* handler, StudioLoad and the saves await an answer before they write,    *)
(* and the loop turns to others meanwhile; here a handler keeps the loop   *)
(* to its end, and those it can cross are the other actors'.               *)
StudioMigrate ==
  {<<To("get_project", p), Do("get_latest_snapshot"), Do("load_config"), Refusing(<<>>), To("list", p),
     To("migrate", p), To("set_loaded_mapping", p)>> : p \in Projects}

Handlers(a) ==
  IF a = Studio
    THEN StudioSources \cup StudioProjects \cup StudioTargets \cup StudioCatalogs
           \cup StudioDemo \cup StudioLoad \cup StudioMigrate
    ELSE SourceAdd \cup SourceRemove \cup SourceSnapshot \cup SourceSetKeyOverlay \cup SourceInferFks
           \cup CatalogAdd \cup CatalogRemove \cup CatalogImportSource
           \cup CatalogResyncClassifications \cup ProjectCreate \cup ProjectStatus
           \cup ToolAddSource \cup ToolRemoveSource \cup ToolImportSource \cup ToolIntrospect
           \cup ToolAddTarget \cup ToolStartLoad

-------------------------------------------------------------------------------
(* What handlers do between their calls                                    *)

Still == /\ UNCHANGED <<file, base, copy, saving, clock>>
         /\ UNCHANGED <<begun, crashes>>
Quiet == Still /\ UNCHANGED <<rescue, mishaps, returned, progressVars>>

(* The event loop is busy between a stream's look at the queue and its     *)
(* look at the thread.                                                     *)
Free(a) == todo[a] = <<>> /\ saving[a] = "no"
LoopTurn(a) == a = Studio => stream # "empty"

Begin(a) ==
  /\ a # Thread /\ Free(a) /\ LoopTurn(a) /\ begun < MaxHandlers
  /\ \E h \in Handlers(a) : Then(a, h)
  /\ Learn(a, Blank) /\ rescue' = [rescue EXCEPT ![a] = <<>>]
  /\ begun' = begun + 1
  /\ UNCHANGED <<file, base, copy, saving, clock, mishaps, returned, progressVars, crashes>>

(* build_source_schema: the source as it was read, its schema as it is.    *)
Introspect(a) ==
  /\ Calls(a, "introspect")
  /\ \/ /\ Learn(a, [mem[a] EXCEPT !.snapshot =
                       Annotated([id |-> 0, source |-> Call(a).name, level |-> 0,
                                  overlay |-> mem[a].source.overlay, accepted |-> FALSE],
                                 mem[a].source.level)])
        /\ Return(a)
     \/ Stop(a) /\ UNCHANGED mem
  /\ Quiet

(* Candidates that are declared already are skipped; with none left no     *)
(* snapshot is made.                                                       *)
Accept(a) ==
  /\ Calls(a, "accept")
  /\ IF mem[a].snapshot.accepted THEN Stop(a) ELSE Return(a)
  /\ Learn(a, [mem[a] EXCEPT !.accept = TRUE])
  /\ Quiet

Resolve(a) ==
  /\ \/ /\ Calls(a, "bound") /\ UNCHANGED mem
        /\ IF mem[a].source.bound THEN Return(a) ELSE Stop(a)
     \/ /\ Calls(a, "resolve") /\ Return(a)
        /\ \E n \in Levels : Learn(a, [mem[a] EXCEPT !.level = n])
     \/ Calls(a, "resolve") /\ Stop(a) /\ UNCHANGED mem
  /\ Quiet

Annotate(a) ==
  /\ Calls(a, "annotate")
  /\ IF mem[a].level = 0 THEN Stop(a) ELSE Return(a)
  /\ Learn(a, [mem[a] EXCEPT !.snapshot = Annotated(@, mem[a].level)])
  /\ Quiet

LoadConfig(a) ==
  /\ Calls(a, "load_config")
  /\ \/ /\ Return(a)
        /\ \E m \in Mappings, d \in BOOLEAN : Learn(a, [mem[a] EXCEPT !.mapping = m, !.dry = d])
     \/ Stop(a) /\ UNCHANGED mem  \* unreadable, or not valid for the schema
  /\ Quiet

(* A project without a registered target has its own database, _system     *)
(* unless it was given another.                                            *)
ResolveTarget(a) ==
  /\ Reads(a, "resolve_target")
  /\ IF mem[a].project.target \in file.targets THEN Return(a) ELSE Then(a, Call(a).otherwise)
  /\ UNCHANGED mem /\ Quiet

(* A connector that cannot be made leaves the record as it is.             *)
Connect(a) ==
  /\ Calls(a, "connect")
  /\ \/ Return(a) /\ UNCHANGED mishaps
     \/ Stop(a) /\ mishaps' = mishaps \cup {"early"}
  /\ Still /\ UNCHANGED <<mem, rescue, returned, progressVars>>

Try(a) ==
  /\ Calls(a, "try")
  /\ rescue' = [rescue EXCEPT ![a] = Call(a).rescue] /\ Return(a)
  /\ Still /\ UNCHANGED <<mem, mishaps, returned, progressVars>>

(* Bound: one load thread at a time.                                       *)
Spawn(a) ==
  /\ Calls(a, "spawn") /\ Free(Thread)
  /\ todo' = [todo EXCEPT ![a] = Tail(@), ![Thread] = ThreadCalls(Call(a).name, mem[a].dry)]
  /\ rescue' = [rescue EXCEPT ![Thread] = ThreadRescue]
  /\ mem' = [mem EXCEPT ![Thread] = mem[a], ![a] = Blank]
  /\ queue' = <<>> /\ stream' = "none"
  /\ Still /\ UNCHANGED <<mishaps, returned, polls>>

Returned(a, p) ==
  returned' = returned \cup
    {[load |-> mem[a].load, project |-> p, mapping |-> mem[a].mapping, dry |-> mem[a].dry]}

Tell(a, event) == queue' = IF a = Thread THEN Append(queue, event) ELSE queue

(* pipeline.run, which StreamingPipeline models; bound: one progress event. *)
Run(a) ==
  /\ Calls(a, "run") \/ Calls(a, "running")
  /\ \/ Returned(a, Call(a).name) /\ Return(a) /\ Tell(a, "complete") /\ UNCHANGED rescue
     \/ Raise(a) /\ UNCHANGED <<returned, queue>>
     \/ /\ a = Thread /\ Calls(a, "run") /\ Tell(a, "progress")
        /\ Then(a, <<To("running", Call(a).name)>> \o Tail(todo[a]))
        /\ UNCHANGED <<rescue, returned>>
  /\ Still /\ UNCHANGED <<mem, mishaps, stream, polls>>

TellError(a) ==
  /\ Calls(a, "error")
  /\ Tell(a, "error") /\ Return(a)
  /\ Still /\ UNCHANGED <<mem, rescue, mishaps, returned, stream, polls>>

(* A migration of a project never loaded, with nothing to change, that is  *)
(* a dry run, or that reports errors, records nothing.                     *)
Migrate(a) ==
  /\ Calls(a, "migrate")
  /\ \/ Stop(a) /\ UNCHANGED returned
     \/ /\ mem[a].project.loaded # Absent /\ ~mem[a].dry
        /\ Returned(a, Call(a).name) /\ Return(a)
  /\ Still /\ UNCHANGED <<mem, rescue, mishaps, progressVars>>

-------------------------------------------------------------------------------
(* The demo preset                                                         *)

DemoOverlay == CHOOSE o \in Overlays : TRUE

DemoSource(a) ==
  /\ Reads(a, "demo_source")
  /\ LET s == Call(a).name
     IN  Then(a, <<IF file.sources[s] = Absent THEN Add(s, DemoOverlay, FALSE)
                   ELSE [op |-> "update_source", name |-> s, field |-> "overlay", value |-> DemoOverlay]>>
                 \o Tail(todo[a]))
  /\ UNCHANGED mem /\ Quiet

(* The latest snapshot will do if it was made under the same overlay and   *)
(* has its tables.                                                         *)
DemoSnapshot(a) ==
  /\ Reads(a, "demo_snapshot")
  /\ LET n == Latest(Call(a).name)
     IN  \/ /\ n # Absent /\ n.overlay = DemoOverlay
            /\ Return(a) /\ Learn(a, [mem[a] EXCEPT !.snapshot = n])
         \/ Then(a, Capture(Call(a).name) \o Tail(todo[a])) /\ UNCHANGED mem
  /\ Quiet

DemoProject(a) ==
  /\ Reads(a, "demo_project")
  /\ LET p == file.projects[Call(a).name]
     IN  Then(a, IF p = Absent THEN <<NewProject(Call(a).name, Call(a).source)>> \o Tail(todo[a])
                 ELSE IF p.source = Call(a).source THEN Tail(todo[a]) ELSE <<>>)
  /\ UNCHANGED mem /\ Quiet

-------------------------------------------------------------------------------
(* Followers of a load, on the event loop                                  *)

Followed == /\ UNCHANGED catalogVars /\ UNCHANGED <<returned, begun, crashes>>

(* The status route takes all that is queued, from the stream as well.     *)
Poll ==
  /\ Free(Studio) /\ stream # "empty" /\ polls < MaxPolls /\ queue # <<>>
  /\ queue' = <<>> /\ polls' = polls + 1
  /\ mishaps' = IF queue[Len(queue)] = "progress" THEN mishaps ELSE mishaps \cup {"polled"}
  /\ UNCHANGED <<file, todo, rescue, mem, base, copy, saving, clock, stream, returned, begun, crashes>>

Follow ==
  /\ Free(Studio) /\ stream = "none" /\ ~Free(Thread)
  /\ stream' = "open"
  /\ Followed /\ UNCHANGED <<queue, polls>>

StreamTakes ==
  /\ Free(Studio) /\ stream = "open"
  /\ IF queue = <<>>
       THEN stream' = "empty" /\ UNCHANGED queue
       ELSE /\ queue' = Tail(queue)
            /\ stream' = IF Head(queue) = "progress" THEN "open" ELSE Head(queue)
  /\ Followed /\ UNCHANGED polls

(* With the queue found empty a thread that has ended means completion.    *)
(* Mutant: it means that there is more to wait for.                        *)
StreamWaits ==
  /\ stream = "empty" /\ stream' = "open"
  /\ Followed /\ UNCHANGED <<queue, polls>>
StreamLooks ==
  /\ stream = "empty"
  /\ stream' = IF Free(Thread) THEN "complete" ELSE "open"
  /\ mishaps' = IF Free(Thread) /\ queue # <<>> THEN mishaps \cup {"raced"} ELSE mishaps
  /\ UNCHANGED <<file, todo, rescue, mem, base, copy, saving, clock, queue, polls, returned, begun,
                 crashes>>

-------------------------------------------------------------------------------

(* A process dies, the Studio's with its thread and its followers.         *)
Crash(a) ==
  /\ a # Thread /\ crashes < MaxCrashes /\ crashes' = crashes + 1
  /\ LET gone == IF a = Studio THEN {Studio, Thread} ELSE {a}
     IN  /\ \E b \in gone : ~Free(b)
         /\ todo' = [b \in Actors |-> IF b \in gone THEN <<>> ELSE todo[b]]
         /\ saving' = [b \in Actors |-> IF b \in gone THEN "no" ELSE saving[b]]
         /\ base' = [b \in Actors |-> IF b \in gone THEN Absent ELSE base[b]]
         /\ copy' = [b \in Actors |-> IF b \in gone THEN Absent ELSE copy[b]]
         /\ mem' = [b \in Actors |-> IF b \in gone THEN Blank ELSE mem[b]]
         /\ rescue' = [b \in Actors |-> IF b \in gone THEN <<>> ELSE rescue[b]]
  /\ IF a = Studio THEN queue' = <<>> /\ stream' = "none" ELSE UNCHANGED <<queue, stream>>
  /\ mishaps' = mishaps \cup {"crash"}
  /\ UNCHANGED <<file, clock, returned, polls, begun>>

Step(a) ==
  /\ LoopTurn(a)
  /\ \/ Method(a) /\ UNCHANGED <<returned, progressVars, begun, crashes>>
     \/ Introspect(a) \/ Accept(a) \/ Resolve(a) \/ Annotate(a) \/ LoadConfig(a)
     \/ ResolveTarget(a) \/ Connect(a) \/ Try(a) \/ Spawn(a) \/ Run(a) \/ TellError(a) \/ Migrate(a)
     \/ DemoSource(a) \/ DemoSnapshot(a) \/ DemoProject(a)

Stream == StreamTakes \/ StreamLooks

Next ==
  \/ \E a \in Actors : Begin(a) \/ Step(a) \/ Crash(a)
  \/ Poll \/ Follow \/ Stream

Init ==
  /\ file \in {NewCatalog, Stocked} /\ clock = 2
  /\ todo = [a \in Actors |-> <<>>] /\ rescue = [a \in Actors |-> <<>>]
  /\ mem = [a \in Actors |-> Blank]
  /\ base = [a \in Actors |-> Absent] /\ copy = [a \in Actors |-> Absent]
  /\ saving = [a \in Actors |-> "no"]
  /\ mishaps = {} /\ returned = {} /\ queue = <<>> /\ stream = "none"
  /\ begun = 0 /\ crashes = 0 /\ polls = 0

(* Processes, threads and the event loop go on (an actor has finitely many *)
(* steps to make, so that each gets its turn); nobody has to call them.    *)
Fairness == WF_vars(\E a \in Actors : Step(a)) /\ WF_vars(Stream)

Spec == Init /\ [][Next]_vars /\ Fairness

-------------------------------------------------------------------------------
(* Properties                                                              *)

TypeOK ==
  /\ file \in CatalogType \cup {Empty, Mixed}
  /\ \A a \in Actors :
       /\ saving[a] \in {"no", "truncate", "write"}
       /\ copy[a] \in CatalogType \cup {Absent}
       /\ saving[a] = "no" <=> copy[a] = Absent
       /\ base[a] \in CatalogType \cup {Empty, Mixed, Absent}
  /\ clock \in Nat /\ begun \in 0 .. MaxHandlers
  /\ stream \in {"none", "open", "empty", "complete", "error"}

(* A project that can be read has its source (catalog.py remove_source     *)
(* refuses or cascades; create_project looks for it), whatever two         *)
(* managers make of each other's writes.                                   *)
ProjectsHaveSources ==
  Readable(file) => \A p \in Projects :
    file.projects[p] # Absent => file.sources[file.projects[p].source] # Absent

(* A load on record as completed has returned, and the mapping a project   *)
(* has as loaded was the mapping of a load or migration of that project    *)
(* which wrote (complete_load, set_loaded_mapping).                        *)
HistoryIsTrue ==
  Readable(file) =>
    /\ \A r \in file.history :
         r.status = "completed" => \E l \in returned : l.load = r.id /\ l.project = r.project
    /\ \A p \in Projects :
         file.projects[p] # Absent /\ file.projects[p].loaded # Absent =>
           \E l \in returned : l.project = p /\ l.mapping = file.projects[p].loaded /\ ~l.dry

Overlapped == mishaps \cap {"stale", "crossed", "crash", "torn", "mixed"} # {}

(* With the handlers done, and none having run into another, the latest    *)
(* snapshot, from which loads are gated, is classified as strictly as the  *)
(* source (catalog resync-classifications: "so the next entitlement report *)
(* / load reflects current policy").                                       *)
LatestIsAsStrict ==
  (\A a \in Actors : Free(a)) /\ Readable(file) /\ ~Overlapped =>
    \A s \in Sources : file.sources[s] # Absent /\ Latest(s) # Absent =>
      Latest(s).level >= file.sources[s].level

SomeRunning == Readable(file) /\ \E r \in file.history : r.status = "running"

(* Loads do not stay on record as running, unless a process died, two      *)
(* managers met in the file, or no connector could be made (run_pipeline   *)
(* of ui/server.py, start_load of mcp_server.py).                          *)
LoadsEnd == SomeRunning ~> ~SomeRunning \/ Overlapped \/ "early" \in mishaps

(* A stream that says complete follows a load that has returned, unless    *)
(* the status route took its last event or it looked at the queue just     *)
(* before that event (stream_progress).                                    *)
StreamIsTrue ==
  stream = "complete" => mishaps \cap {"polled", "raced"} # {} \/
    \E l \in returned : l.load = mem[Thread].load

(* A stream that is open ends (stream_progress).                           *)
StreamsEnd == stream = "open" ~> stream \notin {"open", "empty"}
=============================================================================
