----------------------------- MODULE CatalogProofs -----------------------------
(***************************************************************************)
(* What the catalog's users may rely on although nothing locks its file:   *)
(* for any names, any number of handlers, crashes and polls, and whatever  *)
(* two managers make of each other's writes, a project that can be read    *)
(* has its source, a load on record as completed has returned, and the     *)
(* mapping a project has as loaded is one that was loaded; and, as long as *)
(* no two handlers have run into each other, what the next load is gated   *)
(* on is classified as strictly as its source.                             *)
(***************************************************************************)
EXTENDS CatalogClients, TLAPS, WellFoundedInduction

(* The calls that handlers make: those that are about a load, and others.  *)
LoadCalls ==
  [op : {"start_load", "run", "running", "spawn", "migrate", "set_loaded_mapping"}, name : Projects]
    \cup [op : {"complete_load"}, status : {"completed", "failed"}]
OtherCalls ==
  [op : {"get_source", "get_latest_snapshot", "introspect", "create_snapshot", "demo_source",
         "demo_snapshot"}, name : Sources]
    \cup [op : {"get_source", "get_latest_snapshot", "load_config", "connect", "accept", "resolve",
                "bound", "annotate", "update_snapshot_schema", "error"}]
    \cup [op : {"add_source"}, name : Sources, overlay : Overlays \cup {Absent}, bound : BOOLEAN]
    \cup [op : {"update_source"}, name : Sources, field : {"overlay"}, value : Overlays \cup {Absent}]
    \cup [op : {"update_source"}, name : Sources, field : {"level"}]
    \cup [op : {"remove_source"}, name : Sources, cascade : BOOLEAN]
    \cup [op : {"create_project", "demo_project"}, name : Projects, source : Sources]
    \cup [op : {"get_project", "list", "touch_project", "delete_project"}, name : Projects]
    \cup [op : {"update_project"}, name : Projects, target : Targets \cup {Absent}, snapshot : BOOLEAN]
    \cup [op : {"add_target", "remove_target", "get_target"}, name : Targets]
    \cup [op : {"add_catalog", "remove_catalog", "get_catalog"}, name : Providers]
    \cup [op : {"resolve_target"}, otherwise : {<<>>, <<Complete("failed")>>}]
    \cup [op : {"try"}, rescue : {<<Complete("failed")>>}]
CallType == LoadCalls \cup OtherCalls

(* The calls of classifications, which only a command makes, and of the    *)
(* demo preset and the load thread, which only the Studio makes.           *)
ProcessOnly == {"accept", "resolve", "annotate", "update_snapshot_schema"}
StudioOnly == {"spawn", "demo_source", "demo_snapshot", "demo_project"}
SetsLevel(c) == c.op = "update_source" /\ c.field = "level"

PlainCalls == {c \in OtherCalls :
  c.op \notin ProcessOnly \cup StudioOnly \cup {"introspect", "create_snapshot"} /\ ~SetsLevel(c)}

(* The lists an except clause makes.                                       *)
Rescues == {<<>>, <<Complete("failed")>>, ThreadRescue}

(* A catalog that somebody holds: a project in it has its source.          *)
ProjectFields == {"source", "snapshot", "target", "loaded"}
Homes(c) == \A p \in Projects : c.projects[p] # Absent =>
  DOMAIN c.projects[p] = ProjectFields /\ c.projects[p].source \in Sources
    /\ c.sources[c.projects[p].source] # Absent
CatalogFields == {"sources", "snapshots", "projects", "history", "targets", "providers"}
Sound(c) ==
  /\ DOMAIN c = CatalogFields /\ c.sources \in [Sources -> SourceConfig \cup {Absent}]
  /\ DOMAIN c.projects = Projects /\ Homes(c)

(* A project is being created: its source was in the file that was read.   *)
Founding(a) ==
  /\ todo[a] # <<>> /\ Call(a).op = "create_project"
  /\ Sound(base[a]) /\ base[a].sources[Call(a).source] # Absent

MemFields == {"source", "snapshot", "project", "mapping", "accept", "level", "load", "dry"}
Memory(m) == DOMAIN m = MemFields /\ m.level \in Levels /\ m.accept \in BOOLEAN
Mine(a) ==
  /\ Memory(mem[a])
  /\ saving[a] # "no" => Sound(copy[a])
  /\ saving[a] = "no" /\ base[a] # Absent => Founding(a)
Lists == todo \in [Actors -> Seq(CallType)] /\ rescue \in [Actors -> Rescues]
Places ==
  /\ saving \in [Actors -> {"no", "truncate", "write"}]
  /\ mem = [a \in Actors |-> mem[a]] /\ base = [a \in Actors |-> base[a]]
  /\ copy = [a \in Actors |-> copy[a]]
HomesInv == /\ Readable(file) => Sound(file)
            /\ Lists /\ Places /\ \A a \in Actors : Mine(a)

(***************************************************************************)
(* Lists of calls                                                          *)
(***************************************************************************)

LEMMA OtherCallIs ==
  /\ \A s \in Sources : \A op \in {"get_source", "get_latest_snapshot", "introspect",
       "create_snapshot", "demo_source", "demo_snapshot"} : To(op, s) \in OtherCalls
  /\ \A op \in {"get_source", "get_latest_snapshot", "load_config", "connect", "accept", "resolve",
       "bound", "annotate", "update_snapshot_schema", "error"} : Do(op) \in OtherCalls
  /\ \A s \in Sources, o \in Overlays \cup {Absent} :
       /\ \A b \in BOOLEAN : Add(s, o, b) \in OtherCalls
       /\ [op |-> "update_source", name |-> s, field |-> "overlay", value |-> o] \in OtherCalls
  /\ \A s \in Sources :
       /\ [op |-> "update_source", name |-> s, field |-> "level"] \in OtherCalls
       /\ \A b \in BOOLEAN :
            [op |-> "remove_source", name |-> s, cascade |-> b] \in OtherCalls
  /\ \A p \in Projects, s \in Sources :
       /\ NewProject(p, s) \in OtherCalls
       /\ [op |-> "demo_project", name |-> p, source |-> s] \in OtherCalls
  /\ \A p \in Projects : \A op \in {"get_project", "list", "touch_project", "delete_project"} :
       To(op, p) \in OtherCalls
  /\ \A p \in Projects, t \in Targets \cup {Absent}, b \in BOOLEAN :
       [op |-> "update_project", name |-> p, target |-> t, snapshot |-> b] \in OtherCalls
  /\ \A t \in Targets : \A op \in {"add_target", "remove_target", "get_target"} :
       To(op, t) \in OtherCalls
  /\ \A c \in Providers : \A op \in {"add_catalog", "remove_catalog", "get_catalog"} :
       To(op, c) \in OtherCalls
  /\ Refusing(<<>>) \in OtherCalls /\ Refusing(<<Complete("failed")>>) \in OtherCalls
  /\ [op |-> "try", rescue |-> <<Complete("failed")>>] \in OtherCalls
  <1>1. \A s \in Sources : \A op \in {"get_source", "get_latest_snapshot", "introspect",
          "create_snapshot", "demo_source", "demo_snapshot"} : To(op, s) \in OtherCalls
    BY DEF OtherCalls, To
  <1>2. \A op \in {"get_source", "get_latest_snapshot", "load_config", "connect", "accept", "resolve",
          "bound", "annotate", "update_snapshot_schema", "error"} : Do(op) \in OtherCalls
    BY DEF OtherCalls, Do
  <1>3. \A s \in Sources, o \in Overlays \cup {Absent} :
          /\ \A b \in BOOLEAN : Add(s, o, b) \in OtherCalls
          /\ [op |-> "update_source", name |-> s, field |-> "overlay", value |-> o] \in OtherCalls
    BY DEF OtherCalls, Add
  <1>4. \A s \in Sources :
          /\ [op |-> "update_source", name |-> s, field |-> "level"] \in OtherCalls
          /\ \A b \in BOOLEAN :
               [op |-> "remove_source", name |-> s, cascade |-> b] \in OtherCalls
    BY DEF OtherCalls
  <1>5. \A p \in Projects, s \in Sources :
          /\ NewProject(p, s) \in OtherCalls
          /\ [op |-> "demo_project", name |-> p, source |-> s] \in OtherCalls
    BY DEF OtherCalls, NewProject
  <1>6. \A p \in Projects : \A op \in {"get_project", "list", "touch_project", "delete_project"} :
          To(op, p) \in OtherCalls
    BY DEF OtherCalls, To
  <1>7. \A p \in Projects, t \in Targets \cup {Absent}, b \in BOOLEAN :
          [op |-> "update_project", name |-> p, target |-> t, snapshot |-> b] \in OtherCalls
    BY DEF OtherCalls
  <1>8. \A t \in Targets : \A op \in {"add_target", "remove_target", "get_target"} :
          To(op, t) \in OtherCalls
    BY DEF OtherCalls, To
  <1>9. \A c \in Providers : \A op \in {"add_catalog", "remove_catalog", "get_catalog"} :
          To(op, c) \in OtherCalls
    BY DEF OtherCalls, To
  <1>10. Refusing(<<>>) \in OtherCalls /\ Refusing(<<Complete("failed")>>) \in OtherCalls
    BY DEF OtherCalls, Refusing
  <1>11. [op |-> "try", rescue |-> <<Complete("failed")>>] \in OtherCalls
    BY DEF OtherCalls
  <1> QED BY <1>1, <1>2, <1>3, <1>4, <1>5, <1>6, <1>7, <1>8, <1>9, <1>10, <1>11

LEMMA PlainCallIs ==
  /\ \A s \in Sources, o \in Overlays \cup {Absent} :
       /\ \A b \in BOOLEAN : Add(s, o, b) \in PlainCalls
       /\ [op |-> "update_source", name |-> s, field |-> "overlay", value |-> o] \in PlainCalls
  /\ \A s \in Sources :
       /\ To("get_source", s) \in PlainCalls
       /\ \A b \in BOOLEAN :
            [op |-> "remove_source", name |-> s, cascade |-> b] \in PlainCalls
  /\ \A p \in Projects, s \in Sources : NewProject(p, s) \in PlainCalls
  /\ \A p \in Projects : \A op \in {"get_project", "list", "touch_project", "delete_project"} :
       To(op, p) \in PlainCalls
  /\ \A p \in Projects, t \in Targets \cup {Absent}, b \in BOOLEAN :
       [op |-> "update_project", name |-> p, target |-> t, snapshot |-> b] \in PlainCalls
  /\ \A t \in Targets : \A op \in {"add_target", "remove_target", "get_target"} :
       To(op, t) \in PlainCalls
  /\ \A c \in Providers : \A op \in {"add_catalog", "remove_catalog", "get_catalog"} :
       To(op, c) \in PlainCalls
  <1> USE DEF PlainCalls, ProcessOnly, StudioOnly, SetsLevel
  <1>1. \A s \in Sources, o \in Overlays \cup {Absent} :
          /\ \A b \in BOOLEAN : Add(s, o, b) \in PlainCalls
          /\ [op |-> "update_source", name |-> s, field |-> "overlay", value |-> o] \in PlainCalls
    BY OtherCallIs DEF Add
  <1>2. \A s \in Sources :
          /\ To("get_source", s) \in PlainCalls
          /\ \A b \in BOOLEAN :
               [op |-> "remove_source", name |-> s, cascade |-> b] \in PlainCalls
    BY OtherCallIs DEF To
  <1>3. /\ \A p \in Projects, s \in Sources : NewProject(p, s) \in PlainCalls
        /\ \A p \in Projects, t \in Targets \cup {Absent}, b \in BOOLEAN :
             [op |-> "update_project", name |-> p, target |-> t, snapshot |-> b] \in PlainCalls
    BY OtherCallIs DEF NewProject
  <1>4. \A p \in Projects : \A op \in {"get_project", "list", "touch_project", "delete_project"} :
          To(op, p) \in PlainCalls
    BY OtherCallIs DEF To
  <1>5. /\ \A t \in Targets : \A op \in {"add_target", "remove_target", "get_target"} :
             To(op, t) \in PlainCalls
        /\ \A c \in Providers : \A op \in {"add_catalog", "remove_catalog", "get_catalog"} :
             To(op, c) \in PlainCalls
    BY OtherCallIs DEF To
  <1> QED BY <1>1, <1>2, <1>3, <1>4, <1>5

LEMMA LoadCallIs ==
  /\ \A p \in Projects : \A op \in {"start_load", "run", "running", "spawn", "migrate",
       "set_loaded_mapping"} : To(op, p) \in LoadCalls
  /\ \A x \in {"completed", "failed"} : Complete(x) \in LoadCalls
  BY DEF LoadCalls, To, Complete

(* What a call that is taken has to say.                                   *)
LEMMA CallSays ==
  ASSUME NEW c \in CallType
  PROVE  /\ c.op = "add_source" =>
              c.name \in Sources /\ c.overlay \in Overlays \cup {Absent} /\ c.bound \in BOOLEAN
         /\ c.op = "update_source" => /\ c.name \in Sources /\ c.field \in {"level", "overlay"}
                                      /\ c.field = "overlay" => c.value \in Overlays \cup {Absent}
         /\ c.op \in {"remove_source", "create_snapshot", "introspect", "demo_source",
                     "demo_snapshot"} =>
              c.name \in Sources
         /\ c.op \in {"create_project", "demo_project"} => c.name \in Projects /\ c.source \in Sources
         /\ c.op = "update_project" => c.name \in Projects
         /\ c.op \in {"get_project", "touch_project", "delete_project", "start_load", "run", "running",
                      "spawn", "migrate", "set_loaded_mapping"} => c.name \in Projects
         /\ c.op = "resolve_target" => c.otherwise \in Rescues
         /\ c.op = "try" => c.rescue \in Rescues
         /\ c.op = "complete_load" => c.status \in {"completed", "failed"}
  BY DEF CallType, LoadCalls, OtherCalls, Rescues

LEMMA RescuesTyped == ASSUME NEW r \in Rescues PROVE r \in Seq(CallType)
  <1>1. Complete("failed") \in CallType /\ Do("error") \in CallType
    BY OtherCallIs, LoadCallIs DEF CallType
  <1>2. <<Complete("failed")>> \in Seq(CallType) BY <1>1
  <1>3. ThreadRescue \in Seq(CallType) BY <1>1 DEF ThreadRescue
  <1>4. <<>> \in Seq(CallType) OBVIOUS
  <1> QED BY <1>2, <1>3, <1>4 DEF Rescues

(* A handler is a list of other calls, or one of the three that load.      *)
LEMMA HandlersTyped ==
  ASSUME NEW a, NEW h \in Handlers(a)
  PROVE  /\ h \in Seq(OtherCalls) \/ h \in ToolStartLoad \cup StudioLoad \cup StudioMigrate
         /\ h \in Seq(CallType)
         /\ IF a = Studio THEN h \in Seq(PlainCalls) \cup SourceSnapshot \cup StudioDemo \cup StudioLoad
                                       \cup StudioMigrate
            ELSE h \in Seq(PlainCalls) \cup SourceSnapshot \cup SourceInferFks \cup CatalogImportSource
                         \cup CatalogResyncClassifications \cup ToolStartLoad
  <1>1. ASSUME h \in SourceAdd PROVE h \in Seq(PlainCalls)
    <2>1. PICK s \in Sources, o \in Overlays \cup {Absent} :
            h = <<Add(s, o, FALSE)>>
      BY <1>1 DEF SourceAdd, Add
    <2>2. Add(s, o, FALSE) \in PlainCalls BY PlainCallIs DEF Add
    <2> QED BY <2>1, <2>2 DEF Add
  <1>2. ASSUME h \in ToolAddSource PROVE h \in Seq(PlainCalls)
    <2>1. PICK s \in Sources : h = <<Add(s, Absent, FALSE)>> BY <1>2 DEF ToolAddSource, Add
    <2>2. Add(s, Absent, FALSE) \in PlainCalls BY PlainCallIs DEF Add
    <2> QED BY <2>1, <2>2 DEF Add
  <1>3. ASSUME h \in SourceRemove PROVE h \in Seq(PlainCalls)
    <2>1. PICK s \in Sources, b \in BOOLEAN :
            h = <<[op |-> "remove_source", name |-> s, cascade |-> b]>>
      BY <1>3 DEF SourceRemove
    <2>2. [op |-> "remove_source", name |-> s, cascade |-> b] \in PlainCalls BY PlainCallIs
    <2> QED BY <2>1, <2>2
  <1>4. ASSUME h \in ToolRemoveSource PROVE h \in Seq(PlainCalls)
    <2>1. PICK s \in Sources, b \in BOOLEAN :
            h = <<[op |-> "remove_source", name |-> s, cascade |-> b]>>
      BY <1>4 DEF ToolRemoveSource
    <2>2. [op |-> "remove_source", name |-> s, cascade |-> b] \in PlainCalls BY PlainCallIs
    <2> QED BY <2>1, <2>2
  <1>5. ASSUME h \in SourceSetKeyOverlay PROVE h \in Seq(PlainCalls)
    <2>1. PICK s \in Sources, o \in Overlays \cup {Absent} :
            h = <<To("get_source", s),
                [op |-> "update_source", name |-> s, field |-> "overlay", value |-> o]>>
      BY <1>5 DEF SourceSetKeyOverlay
    <2>2. /\ To("get_source", s) \in PlainCalls
          /\ [op |-> "update_source", name |-> s, field |-> "overlay", value |-> o] \in PlainCalls
      BY PlainCallIs
    <2> QED BY <2>1, <2>2
  <1>6. ASSUME h \in SourceInferFks PROVE h \in Seq(OtherCalls)
    <2>1. PICK s \in Sources :
            h = <<To("get_source", s), To("get_latest_snapshot", s), Do("accept"),
                To("create_snapshot", s)>>
      BY <1>6 DEF SourceInferFks
    <2>2. /\ To("get_source", s) \in OtherCalls
          /\ To("get_latest_snapshot", s) \in OtherCalls
          /\ Do("accept") \in OtherCalls
          /\ To("create_snapshot", s) \in OtherCalls
      BY OtherCallIs
    <2> QED BY <2>1, <2>2
  <1>7. ASSUME h \in CatalogAdd PROVE h \in Seq(PlainCalls)
    <2>1. PICK c \in Providers : h = <<To("add_catalog", c)>> BY <1>7 DEF CatalogAdd
    <2>2. To("add_catalog", c) \in PlainCalls BY PlainCallIs
    <2> QED BY <2>1, <2>2
  <1>8. ASSUME h \in CatalogRemove PROVE h \in Seq(PlainCalls)
    <2>1. PICK c \in Providers : h = <<To("remove_catalog", c)>> BY <1>8 DEF CatalogRemove
    <2>2. To("remove_catalog", c) \in PlainCalls BY PlainCallIs
    <2> QED BY <2>1, <2>2
  <1>9. ASSUME h \in CatalogImportSource PROVE h \in Seq(OtherCalls)
    <2>1. PICK c \in Providers, s \in Sources :
            h = <<To("get_catalog", c), Do("resolve"), Add(s, Absent, TRUE)>>
      BY <1>9 DEF CatalogImportSource, Add
    <2>2. /\ To("get_catalog", c) \in OtherCalls
          /\ Do("resolve") \in OtherCalls
          /\ Add(s, Absent, TRUE) \in OtherCalls
      BY OtherCallIs DEF Add
    <2> QED BY <2>1, <2>2 DEF Add
  <1>10. ASSUME h \in ToolImportSource PROVE h \in Seq(PlainCalls)
    <2>1. PICK c \in Providers, s \in Sources :
            h = <<To("get_catalog", c), Add(s, Absent, FALSE)>>
      BY <1>10 DEF ToolImportSource, Add
    <2>2. /\ To("get_catalog", c) \in PlainCalls
          /\ Add(s, Absent, FALSE) \in PlainCalls
      BY PlainCallIs DEF Add
    <2> QED BY <2>1, <2>2 DEF Add
  <1>11. ASSUME h \in CatalogResyncClassifications PROVE h \in Seq(OtherCalls)
    <2>1. PICK c \in Providers, s \in Sources :
            h = <<To("get_source", s), Do("bound"), To("get_catalog", c), Do("resolve"),
                [op |-> "update_source", name |-> s, field |-> "level"],
                To("get_latest_snapshot", s), Do("annotate"),
                Do("update_snapshot_schema")>>
      BY <1>11 DEF CatalogResyncClassifications
    <2>2. /\ To("get_source", s) \in OtherCalls
          /\ Do("bound") \in OtherCalls
          /\ To("get_catalog", c) \in OtherCalls
          /\ Do("resolve") \in OtherCalls
          /\ [op |-> "update_source", name |-> s, field |-> "level"] \in OtherCalls
          /\ To("get_latest_snapshot", s) \in OtherCalls
          /\ Do("annotate") \in OtherCalls
          /\ Do("update_snapshot_schema") \in OtherCalls
      BY OtherCallIs
    <2> QED BY <2>1, <2>2
  <1>12. ASSUME h \in ProjectCreate PROVE h \in Seq(PlainCalls)
    <2>1. PICK p \in Projects, s \in Sources : h = <<NewProject(p, s)>> BY <1>12 DEF ProjectCreate
    <2>2. NewProject(p, s) \in PlainCalls BY PlainCallIs
    <2> QED BY <2>1, <2>2
  <1>13. ASSUME h \in ProjectStatus PROVE h \in Seq(PlainCalls)
    <2>1. PICK p \in Projects :
            h = <<To("get_project", p), To("list", p)>>
      BY <1>13 DEF ProjectStatus
    <2>2. /\ To("get_project", p) \in PlainCalls
          /\ To("list", p) \in PlainCalls
      BY PlainCallIs
    <2> QED BY <2>1, <2>2
  <1>14. ASSUME h \in ToolAddTarget PROVE h \in Seq(PlainCalls)
    <2>1. PICK t \in Targets : h = <<To("add_target", t)>> BY <1>14 DEF ToolAddTarget
    <2>2. To("add_target", t) \in PlainCalls BY PlainCallIs
    <2> QED BY <2>1, <2>2
  <1>15. ASSUME h \in StudioDemo PROVE h \in Seq(OtherCalls)
    <2>1. PICK t \in Targets, s \in Sources, p \in Projects :
            h = <<To("get_target", t), To("demo_source", s), To("demo_snapshot", s),
                [op |-> "demo_project", name |-> p, source |-> s],
                [op |-> "update_project", name |-> p, target |-> t, snapshot |-> TRUE]>>
      BY <1>15 DEF StudioDemo
    <2>2. /\ To("get_target", t) \in OtherCalls
          /\ To("demo_source", s) \in OtherCalls
          /\ To("demo_snapshot", s) \in OtherCalls
          /\ [op |-> "demo_project", name |-> p, source |-> s] \in OtherCalls
          /\ [op |-> "update_project", name |-> p, target |-> t, snapshot |-> TRUE] \in OtherCalls
      BY OtherCallIs
    <2> QED BY <2>1, <2>2
  <1>16. ASSUME h \in SourceSnapshot PROVE h \in Seq(OtherCalls)
    <2>1. PICK s \in Sources : h = <<To("get_source", s)>> \o Capture(s) BY <1>16 DEF SourceSnapshot
    <2>2. /\ To("get_source", s) \in OtherCalls /\ To("introspect", s) \in OtherCalls
          /\ To("create_snapshot", s) \in OtherCalls
      BY OtherCallIs
    <2>3. <<To("get_source", s)>> \in Seq(OtherCalls) /\ Capture(s) \in Seq(OtherCalls)
      BY <2>2 DEF Capture
    <2> QED BY <2>1, <2>3
  <1>17. ASSUME h \in StudioSources PROVE h \in Seq(PlainCalls) \cup SourceSnapshot
    <2>1. CASE \E s \in Sources : h = <<Add(s, Absent, FALSE)>>
      <3>1. PICK s \in Sources : h = <<Add(s, Absent, FALSE)>>
        BY <2>1 DEF Add
      <3>2. Add(s, Absent, FALSE) \in PlainCalls BY PlainCallIs DEF Add
      <3> QED BY <3>1, <3>2 DEF Add
    <2>2. CASE \E s \in Sources, b \in BOOLEAN :
            h = <<[op |-> "remove_source", name |-> s, cascade |-> b]>>
      <3>1. PICK s \in Sources, b \in BOOLEAN :
              h = <<[op |-> "remove_source", name |-> s, cascade |-> b]>>
        BY <2>2
      <3>2. [op |-> "remove_source", name |-> s, cascade |-> b] \in PlainCalls BY PlainCallIs
      <3> QED BY <3>1, <3>2
    <2> QED BY <1>17, <2>1, <2>2 DEF StudioSources, Add
  <1>18. ASSUME h \in StudioProjects PROVE h \in Seq(PlainCalls)
    <2>1. CASE \E p \in Projects, s \in Sources : h = <<NewProject(p, s)>>
      <3>1. PICK p \in Projects, s \in Sources : h = <<NewProject(p, s)>>
        BY <2>1
      <3>2. NewProject(p, s) \in PlainCalls BY PlainCallIs
      <3> QED BY <3>1, <3>2
    <2>2. CASE \E p \in Projects, t \in Targets \cup {Absent} :
            h = <<To("get_project", p),
                [op |-> "update_project", name |-> p, target |-> t, snapshot |-> FALSE]>>
      <3>1. PICK p \in Projects, t \in Targets \cup {Absent} :
              h = <<To("get_project", p),
                [op |-> "update_project", name |-> p, target |-> t, snapshot |-> FALSE]>> BY <2>2
      <3>2. /\ To("get_project", p) \in PlainCalls
            /\ [op |-> "update_project", name |-> p, target |-> t, snapshot |-> FALSE] \in PlainCalls
        BY PlainCallIs
      <3> QED BY <3>1, <3>2
    <2>3. CASE \E p \in Projects : h = <<To("delete_project", p)>>
      <3>1. PICK p \in Projects : h = <<To("delete_project", p)>>
        BY <2>3
      <3>2. To("delete_project", p) \in PlainCalls BY PlainCallIs
      <3> QED BY <3>1, <3>2
    <2>4. CASE \E p \in Projects : h = <<To("get_project", p), To("touch_project", p)>>
      <3>1. PICK p \in Projects : h = <<To("get_project", p), To("touch_project", p)>>
        BY <2>4
      <3>2. To("get_project", p) \in PlainCalls /\ To("touch_project", p) \in PlainCalls BY PlainCallIs
      <3> QED BY <3>1, <3>2
    <2> QED BY <1>18, <2>1, <2>2, <2>3, <2>4 DEF StudioProjects
  <1>19. ASSUME h \in StudioTargets PROVE h \in Seq(PlainCalls)
    <2>1. CASE \E t \in Targets, op \in {"add_target", "remove_target", "get_target"} :
            h = <<To(op, t)>>
      <3>1. PICK t \in Targets, op \in {"add_target", "remove_target", "get_target"} :
              h = <<To(op, t)>>
        BY <2>1
      <3>2. To(op, t) \in PlainCalls BY PlainCallIs
      <3> QED BY <3>1, <3>2
    <2> QED BY <1>19, <2>1 DEF StudioTargets
  <1>20. ASSUME h \in StudioCatalogs PROVE h \in Seq(PlainCalls)
    <2>1. CASE \E c \in Providers, op \in {"add_catalog", "remove_catalog"} : h = <<To(op, c)>>
      <3>1. PICK c \in Providers, op \in {"add_catalog", "remove_catalog"} : h = <<To(op, c)>>
        BY <2>1
      <3>2. To(op, c) \in PlainCalls BY PlainCallIs
      <3> QED BY <3>1, <3>2
    <2>2. CASE \E c \in Providers, s \in Sources :
            h = <<To("get_catalog", c), Add(s, Absent, FALSE)>>
      <3>1. PICK c \in Providers, s \in Sources :
              h = <<To("get_catalog", c), Add(s, Absent, FALSE)>>
        BY <2>2 DEF Add
      <3>2. To("get_catalog", c) \in PlainCalls /\ Add(s, Absent, FALSE) \in PlainCalls
        BY PlainCallIs DEF Add
      <3> QED BY <3>1, <3>2 DEF Add
    <2> QED BY <1>20, <2>1, <2>2 DEF StudioCatalogs, Add
  <1>21. ASSUME h \in ToolStartLoad \cup StudioLoad \cup StudioMigrate PROVE h \in Seq(CallType)
    <2>1. /\ \A p \in Projects : \A op \in {"get_project", "list", "start_load", "run", "spawn", "migrate",
                                            "set_loaded_mapping"} : To(op, p) \in CallType
          /\ \A op \in {"get_source", "get_latest_snapshot", "load_config", "connect"} :
               Do(op) \in CallType
          /\ Refusing(<<Complete("failed")>>) \in CallType /\ Refusing(<<>>) \in CallType
          /\ Complete("completed") \in CallType
          /\ [op |-> "try", rescue |-> <<Complete("failed")>>] \in CallType
      BY OtherCallIs, LoadCallIs DEF CallType
    <2>2. CASE h \in ToolStartLoad
      <3>1. PICK p \in Projects :
              h = <<To("get_project", p), Do("get_source"), Do("get_latest_snapshot"), Do("load_config"),
                    To("start_load", p), [op |-> "try", rescue |-> <<Complete("failed")>>],
                    To("run", p), Complete("completed")>>
        BY <2>2 DEF ToolStartLoad
      <3>2. /\ To("get_project", p) \in CallType
            /\ Do("get_source") \in CallType
            /\ Do("get_latest_snapshot") \in CallType
            /\ Do("load_config") \in CallType
            /\ To("start_load", p) \in CallType
            /\ [op |-> "try", rescue |-> <<Complete("failed")>>] \in CallType
            /\ To("run", p) \in CallType
            /\ Complete("completed") \in CallType
        BY <2>1
      <3> QED BY <3>1, <3>2
    <2>3. CASE h \in StudioLoad
      <3>1. PICK p \in Projects :
              h = <<To("get_project", p), Do("get_source"), Do("get_latest_snapshot"), Do("load_config"),
                    To("start_load", p), Refusing(<<Complete("failed")>>), Do("connect"),
                    To("spawn", p)>>
        BY <2>3 DEF StudioLoad
      <3>2. /\ To("get_project", p) \in CallType
            /\ Do("get_source") \in CallType
            /\ Do("get_latest_snapshot") \in CallType
            /\ Do("load_config") \in CallType
            /\ To("start_load", p) \in CallType
            /\ Refusing(<<Complete("failed")>>) \in CallType
            /\ Do("connect") \in CallType
            /\ To("spawn", p) \in CallType
        BY <2>1
      <3> QED BY <3>1, <3>2
    <2>4. CASE h \in StudioMigrate
      <3>1. PICK p \in Projects :
              h = <<To("get_project", p), Do("get_latest_snapshot"), Do("load_config"), Refusing(<<>>),
                    To("list", p), To("migrate", p), To("set_loaded_mapping", p)>>
        BY <2>4 DEF StudioMigrate
      <3>2. /\ To("get_project", p) \in CallType
            /\ Do("get_latest_snapshot") \in CallType
            /\ Do("load_config") \in CallType
            /\ Refusing(<<>>) \in CallType
            /\ To("list", p) \in CallType
            /\ To("migrate", p) \in CallType
            /\ To("set_loaded_mapping", p) \in CallType
        BY <2>1
      <3> QED BY <3>1, <3>2
    <2> QED BY <1>21, <2>2, <2>3, <2>4
  <1>22. IF a = Studio THEN h \in Seq(PlainCalls) \cup SourceSnapshot \cup StudioDemo \cup StudioLoad
                                    \cup StudioMigrate
         ELSE h \in Seq(PlainCalls) \cup SourceSnapshot \cup SourceInferFks \cup CatalogImportSource
                \cup CatalogResyncClassifications \cup ToolStartLoad
    <2>1. CASE a = Studio BY <2>1, <1>15, <1>17, <1>18, <1>19, <1>20 DEF Handlers
    <2>2. CASE a # Studio
      BY <2>2, <1>1, <1>2, <1>3, <1>4, <1>5, <1>7, <1>8, <1>10, <1>12, <1>13, <1>14
      DEF Handlers, ToolIntrospect
    <2> QED BY <2>1, <2>2
  <1>23. Seq(PlainCalls) \subseteq Seq(OtherCalls) /\ Seq(OtherCalls) \subseteq Seq(CallType)
    BY DEF CallType, PlainCalls
  <1>24. h \in Seq(OtherCalls) \/ h \in ToolStartLoad \cup StudioLoad \cup StudioMigrate
    BY <1>6, <1>9, <1>11, <1>15, <1>16, <1>22, <1>23
  <1> QED BY <1>21, <1>22, <1>23, <1>24

(***************************************************************************)
(* Catalogs whose projects have their sources                              *)
(***************************************************************************)

LEMMA SoundWithSource ==
  ASSUME NEW f, Sound(f), NEW s \in Sources, NEW v \in SourceConfig
  PROVE  Sound([f EXCEPT !.sources[s] = v])
  <1> DEFINE c == [f EXCEPT !.sources[s] = v]
  <1>1. /\ DOMAIN c = CatalogFields /\ c.projects = f.projects
        /\ c.sources = [f.sources EXCEPT ![s] = v]
    BY DEF Sound, CatalogFields
  <1>2. v # Absent BY CatalogAssumption
  <1> HIDE DEF c
  <1>3. c.sources \in [Sources -> SourceConfig \cup {Absent}] BY <1>1 DEF Sound
  <1>4. Homes(c) BY <1>1, <1>2 DEF Sound, Homes
  <1>5. Sound(c) BY <1>1, <1>3, <1>4 DEF Sound
  <1> QED BY <1>5 DEF c

LEMMA SoundElsewhere ==
  ASSUME NEW f, Sound(f), NEW v
  PROVE  /\ Sound([f EXCEPT !.snapshots = v]) /\ Sound([f EXCEPT !.history = v])
         /\ Sound([f EXCEPT !.targets = v]) /\ Sound([f EXCEPT !.providers = v])
  BY DEF Sound, CatalogFields, Homes

LEMMA SoundWithProject ==
  ASSUME NEW f, Sound(f), NEW p \in Projects, NEW v,
         v # Absent => DOMAIN v = ProjectFields /\ v.source \in Sources /\ f.sources[v.source] # Absent
  PROVE  Sound([f EXCEPT !.projects[p] = v])
  <1> DEFINE c == [f EXCEPT !.projects[p] = v]
  <1>1. /\ DOMAIN c = CatalogFields /\ c.sources = f.sources
        /\ c.projects = [f.projects EXCEPT ![p] = v]
    BY DEF Sound, CatalogFields
  <1> HIDE DEF c
  <1>2. DOMAIN c.projects = Projects /\ Homes(c) BY <1>1 DEF Sound, Homes
  <1>3. Sound(c) BY <1>1, <1>2 DEF Sound
  <1> QED BY <1>3 DEF c

LEMMA SoundWithoutSource ==
  ASSUME Sound(file), NEW s \in Sources
  PROVE  Sound(WithoutSource(s))
  <1> DEFINE c == WithoutSource(s)
  <1>1. /\ DOMAIN c = CatalogFields
        /\ c.sources = [file.sources EXCEPT ![s] = Absent]
        /\ c.projects = [p \in Projects |->
                           IF p \in DependentProjects(s) THEN Absent ELSE file.projects[p]]
    BY DEF Sound, CatalogFields, WithoutSource
  <1> HIDE DEF c
  <1>2. c.sources \in [Sources -> SourceConfig \cup {Absent}] BY <1>1 DEF Sound
  <1>3. Homes(c)
    <2> SUFFICES ASSUME NEW p \in Projects, c.projects[p] # Absent
                 PROVE  DOMAIN c.projects[p] = ProjectFields /\ c.projects[p].source \in Sources
                          /\ c.sources[c.projects[p].source] # Absent
      BY DEF Homes
    <2>1. c.projects[p] = file.projects[p] /\ p \notin DependentProjects(s) BY <1>1
    <2>2. file.projects[p].source # s BY <2>1 DEF DependentProjects
    <2> QED BY <1>1, <2>1, <2>2 DEF Sound, Homes
  <1>4. Sound(c) BY <1>1, <1>2, <1>3 DEF Sound
  <1> QED BY <1>4 DEF c

(***************************************************************************)
(* The two kinds of step                                                   *)
(***************************************************************************)

LEMMA Popped ==
  ASSUME Lists, NEW a \in Actors, todo[a] # <<>>
  PROVE  /\ Call(a) \in CallType /\ Tail(todo[a]) \in Seq(CallType)
         /\ rescue[a] \in Rescues /\ rescue[a] \in Seq(CallType)
  <1>1. todo[a] \in Seq(CallType) /\ rescue[a] \in Rescues BY DEF Lists
  <1> QED BY <1>1, RescuesTyped DEF Call

(* Nobody else is disturbed.                                               *)
LEMMA OthersMine ==
  ASSUME NEW b \in Actors, Mine(b),
         todo'[b] = todo[b], mem'[b] = mem[b], base'[b] = base[b], copy'[b] = copy[b],
         saving'[b] = saving[b]
  PROVE  Mine(b)'
  BY DEF Mine, Founding, Call

(* A step that does not begin to save.                                     *)
LEMMA NoSaveStep ==
  ASSUME HomesInv, NEW a \in Actors, saving[a] = "no", base[a] = Absent,
         file' = file, NoSave,
         NEW l \in Seq(CallType), todo' = [todo EXCEPT ![a] = l],
         NEW r \in Rescues, rescue' = [rescue EXCEPT ![a] = r],
         NEW m, Memory(m), mem' = [mem EXCEPT ![a] = m]
  PROVE  HomesInv'
  <1>1. Lists' BY DEF HomesInv, Lists
  <1>2. Places' BY DEF HomesInv, Places, NoSave
  <1>3. ASSUME NEW b \in Actors PROVE Mine(b)'
    <2>1. CASE b # a
      <3>1. todo'[b] = todo[b] /\ mem'[b] = mem[b] BY <2>1 DEF HomesInv, Lists, Places
      <3>2. base'[b] = base[b] /\ copy'[b] = copy[b] /\ saving'[b] = saving[b] BY DEF NoSave
      <3> QED BY <3>1, <3>2, OthersMine DEF HomesInv
    <2>2. CASE b = a
      <3>1. mem'[b] = m /\ saving'[b] = "no" /\ base'[b] = Absent
        BY <2>2 DEF NoSave, HomesInv, Places
      <3> QED BY <3>1 DEF Mine, Memory
    <2> QED BY <2>1, <2>2
  <1>4. Readable(file)' => Sound(file)' BY DEF HomesInv, Readable
  <1> QED BY <1>1, <1>2, <1>3, <1>4 DEF HomesInv

(* A step that settles what will be written.                               *)
LEMMA SaveStep ==
  ASSUME HomesInv, NEW a \in Actors, todo[a] # <<>>,
         file' = file, rescue' = rescue, Return(a),
         NEW c, Sound(c), copy' = [copy EXCEPT ![a] = c],
         saving' = [saving EXCEPT ![a] = "truncate"],
         base' = [base EXCEPT ![a] = base'[a]],
         NEW m, Memory(m), mem' = [mem EXCEPT ![a] = m]
  PROVE  HomesInv'
  <1>1. Lists'
    <2>1. Tail(todo[a]) \in Seq(CallType) BY Popped DEF HomesInv
    <2> QED BY <2>1 DEF HomesInv, Lists, Return, Then
  <1>2. Places' BY DEF HomesInv, Places
  <1>3. ASSUME NEW b \in Actors PROVE Mine(b)'
    <2>1. CASE b # a
      <3>1. todo'[b] = todo[b] /\ mem'[b] = mem[b]
        BY <2>1 DEF HomesInv, Lists, Places, Return, Then
      <3>2. base'[b] = base[b] /\ copy'[b] = copy[b] /\ saving'[b] = saving[b]
        BY <2>1 DEF HomesInv, Places
      <3> QED BY <3>1, <3>2, OthersMine DEF HomesInv
    <2>2. CASE b = a
      <3>1. mem'[b] = m /\ saving'[b] = "truncate" /\ copy'[b] = c
        BY <2>2 DEF HomesInv, Places
      <3> QED BY <3>1 DEF Mine, Memory
    <2> QED BY <2>1, <2>2
  <1>4. Readable(file)' => Sound(file)' BY DEF HomesInv, Readable
  <1> QED BY <1>1, <1>2, <1>3, <1>4 DEF HomesInv

(* Only create_project reads the file in a step of its own.                *)
LEMMA NotFounding ==
  ASSUME HomesInv, NEW a \in Actors, NEW op, Calls(a, op), op # "create_project"
  PROVE  saving[a] = "no" /\ base[a] = Absent /\ todo[a] # <<>>
  BY DEF HomesInv, Mine, Founding, Calls, Call

(***************************************************************************)
(* The methods of a manager                                                *)
(***************************************************************************)

(* What becomes of the lists when a step ends one call.                    *)
LEMMA Endings ==
  ASSUME HomesInv, NEW a \in Actors, todo[a] # <<>>
  PROVE  /\ Return(a) => todo' = [todo EXCEPT ![a] = Tail(todo[a])]
         /\ Stop(a) => todo' = [todo EXCEPT ![a] = <<>>]
         /\ Raise(a) => todo' = [todo EXCEPT ![a] = rescue[a]] /\ rescue' = [rescue EXCEPT ![a] = <<>>]
         /\ rescue = [rescue EXCEPT ![a] = rescue[a]]
         /\ mem = [mem EXCEPT ![a] = mem[a]]
         /\ Tail(todo[a]) \in Seq(CallType) /\ <<>> \in Seq(CallType) /\ rescue[a] \in Seq(CallType)
         /\ rescue[a] \in Rescues /\ <<>> \in Rescues
         /\ Memory(mem[a])
  <1>1. Tail(todo[a]) \in Seq(CallType) /\ rescue[a] \in Rescues /\ rescue[a] \in Seq(CallType)
    BY Popped DEF HomesInv
  <1>2. rescue = [rescue EXCEPT ![a] = rescue[a]] BY DEF HomesInv, Lists
  <1>3. mem = [mem EXCEPT ![a] = mem[a]]
    BY DEF HomesInv, Places
  <1>4. Memory(mem[a]) BY DEF HomesInv, Mine
  <1>5. <<>> \in Seq(CallType) OBVIOUS
  <1> QED BY <1>1, <1>2, <1>3, <1>4, <1>5 DEF Return, Stop, Raise, Then, Rescues

(* A step that ends a call and saves nothing.                              *)
LEMMA EndStep ==
  ASSUME HomesInv, NEW a \in Actors, NEW op, Calls(a, op), op # "create_project", file' = file, NoSave,
         \/ (Return(a) \/ Stop(a)) /\ UNCHANGED rescue
         \/ Raise(a),
         NEW m, Memory(m), mem' = [mem EXCEPT ![a] = m]
  PROVE  HomesInv'
  <1>0. saving[a] = "no" /\ base[a] = Absent /\ todo[a] # <<>> BY NotFounding
  <1>1. \E l \in Seq(CallType) : \E r \in Rescues :
          todo' = [todo EXCEPT ![a] = l] /\ rescue' = [rescue EXCEPT ![a] = r]
    <2>1. CASE Return(a) /\ UNCHANGED rescue
      <3>1. rescue' = [rescue EXCEPT ![a] = rescue[a]] /\ rescue[a] \in Rescues BY <1>0, <2>1, Endings
      <3>2. \E l \in Seq(CallType) : todo' = [todo EXCEPT ![a] = l] BY <1>0, <2>1, Endings
      <3> QED BY <3>1, <3>2
    <2>2. CASE Stop(a) /\ UNCHANGED rescue
      <3>1. rescue' = [rescue EXCEPT ![a] = rescue[a]] /\ rescue[a] \in Rescues BY <1>0, <2>2, Endings
      <3>2. \E l \in Seq(CallType) : todo' = [todo EXCEPT ![a] = l] BY <1>0, <2>2, Endings
      <3> QED BY <3>1, <3>2
    <2>3. CASE Raise(a) BY <1>0, <2>3, Endings
    <2> QED BY <2>1, <2>2, <2>3
  <1> QED BY <1>0, <1>1, NoSaveStep

LEMMA SaveHomes ==
  ASSUME HomesInv, NEW a \in Actors, todo[a] # <<>>, file' = file, rescue' = rescue,
         NEW c, Sound(c), Save(a, c), NEW m, Memory(m), mem' = [mem EXCEPT ![a] = m]
  PROVE  HomesInv'
  <1>1. base' = [base EXCEPT ![a] = base'[a]] BY DEF Save, HomesInv, Places
  <1>2. /\ copy' = [copy EXCEPT ![a] = c] /\ Return(a)
        /\ saving' = [saving EXCEPT ![a] = "truncate"]
    BY DEF Save
  <1> QED BY <1>1, <1>2, SaveStep

(* The same memory, or what has just been read.                            *)
LEMMA SameMemory ==
  ASSUME HomesInv, NEW a \in Actors
  PROVE  /\ Memory(mem[a]) /\ mem = [mem EXCEPT ![a] = mem[a]]
         /\ \A v : /\ Memory([mem[a] EXCEPT !.source = v]) /\ Memory([mem[a] EXCEPT !.snapshot = v])
                   /\ Memory([mem[a] EXCEPT !.project = v])
                   /\ v \in BOOLEAN => Memory([mem[a] EXCEPT !.accept = v])
                   /\ Memory([mem[a] EXCEPT !.load = v])
                   /\ v \in Levels => Memory([mem[a] EXCEPT !.level = v])
         /\ \A v, w : Memory([mem[a] EXCEPT !.mapping = v, !.dry = w])
  <1>1. Memory(mem[a]) /\ mem = [mem EXCEPT ![a] = mem[a]] BY DEF HomesInv, Mine, Places
  <1> QED BY <1>1 DEF Memory, MemFields

LEMMA FileSound ==
  ASSUME HomesInv, NEW a \in Actors, NEW op, Reads(a, op)
  PROVE  /\ Sound(file) /\ Calls(a, op) /\ saving[a] = "no" /\ todo[a] # <<>> /\ Call(a).op = op
         /\ Call(a) \in CallType
  <1>1. Calls(a, op) /\ Sound(file) BY DEF HomesInv, Reads
  <1>2. saving[a] = "no" /\ todo[a] # <<>> /\ Call(a).op = op BY <1>1 DEF Calls, Call
  <1>3. Call(a) \in CallType BY <1>2, Popped DEF HomesInv
  <1> QED BY <1>1, <1>2, <1>3

LEMMA SourcesStep ==
  ASSUME HomesInv, NEW a \in Actors,
         GetSource(a) \/ AddSource(a) \/ UpdateSource(a) \/ RemoveSource(a)
  PROVE  HomesInv'
  <1>1. CASE GetSource(a)
    <2>1. Calls(a, "get_source") /\ file' = file /\ NoSave /\ rescue' = rescue
      BY <1>1 DEF GetSource, Reads, Kept
    <2>2. \E m : Memory(m) /\ mem' = [mem EXCEPT ![a] = m] BY <1>1, SameMemory DEF GetSource, Learn
    <2>3. Return(a) \/ Stop(a) BY <1>1 DEF GetSource
    <2> QED BY <2>1, <2>2, <2>3, EndStep
  <1>2. CASE AddSource(a)
    <2>1. Reads(a, "add_source") /\ file' = file /\ mem' = mem BY <1>2 DEF AddSource, Kept
    <2>2. Sound(file) /\ Calls(a, "add_source") /\ todo[a] # <<>> BY <2>1, FileSound
    <2>3. Call(a) \in CallType /\ Call(a).op = "add_source" BY <2>1, FileSound
    <2>4. CASE Raise(a) /\ NoSave BY <2>1, <2>2, <2>4, SameMemory, EndStep
    <2>5. CASE ~(Raise(a) /\ NoSave)
      <3> DEFINE v == [level |-> mem[a].level, overlay |-> Call(a).overlay, bound |-> Call(a).bound]
      <3>1. PICK c : c = [file EXCEPT !.sources[Call(a).name] = v] OBVIOUS
      <3>2. Save(a, c) /\ rescue' = rescue BY <1>2, <2>5, <3>1 DEF AddSource
      <3>3. Call(a).name \in Sources /\ v \in SourceConfig
        BY <2>3, CallSays, SameMemory DEF SourceConfig, Memory
      <3>4. Sound(c) BY <2>2, <3>1, <3>3, SoundWithSource
      <3> QED BY <2>1, <2>2, <3>2, <3>4, SameMemory, SaveHomes
    <2> QED BY <2>4, <2>5
  <1>3. CASE UpdateSource(a)
    <2>1. Reads(a, "update_source") /\ file' = file /\ mem' = mem BY <1>3 DEF UpdateSource, Kept
    <2>2. Sound(file) /\ Calls(a, "update_source") /\ todo[a] # <<>> BY <2>1, FileSound
    <2>3. Call(a) \in CallType /\ Call(a).op = "update_source" BY <2>1, FileSound
    <2>4. CASE Raise(a) /\ NoSave BY <2>1, <2>2, <2>4, SameMemory, EndStep
    <2>5. CASE ~(Raise(a) /\ NoSave)
      <3>0. PICK s : s = file.sources[Call(a).name] OBVIOUS
      <3>1. PICK v : v = IF Call(a).field = "level" THEN [s EXCEPT !.level = mem[a].level]
                         ELSE [s EXCEPT !.overlay = Call(a).value]
        OBVIOUS
      <3>2. PICK c : c = [file EXCEPT !.sources[Call(a).name] = v] OBVIOUS
      <3>3. s # Absent /\ Save(a, c) /\ rescue' = rescue
        BY <1>3, <2>5, <3>0, <3>1, <3>2 DEF UpdateSource
      <3>4. /\ Call(a).name \in Sources /\ Call(a).field \in {"level", "overlay"}
            /\ Call(a).field = "overlay" => Call(a).value \in Overlays \cup {Absent}
        BY <2>3, CallSays
      <3>5. s \in SourceConfig BY <2>2, <3>0, <3>3, <3>4 DEF Sound
      <3>6. v \in SourceConfig BY <3>1, <3>4, <3>5, SameMemory DEF SourceConfig, Memory
      <3>7. Sound(c) BY <2>2, <3>2, <3>4, <3>6, SoundWithSource
      <3> QED BY <2>1, <2>2, <3>3, <3>7, SameMemory, SaveHomes
    <2> QED BY <2>4, <2>5
  <1>4. CASE RemoveSource(a)
    <2>1. Reads(a, "remove_source") /\ file' = file /\ mem' = mem BY <1>4 DEF RemoveSource, Kept
    <2>2. Sound(file) /\ Calls(a, "remove_source") /\ todo[a] # <<>> BY <2>1, FileSound
    <2>3. Call(a) \in CallType /\ Call(a).op = "remove_source" BY <2>1, FileSound
    <2>4. CASE (Stop(a) /\ UNCHANGED rescue /\ NoSave) \/ (Raise(a) /\ NoSave)
      BY <2>1, <2>2, <2>4, SameMemory, EndStep
    <2>5. CASE ~((Stop(a) /\ UNCHANGED rescue /\ NoSave) \/ (Raise(a) /\ NoSave))
      <3>1. PICK c : c = WithoutSource(Call(a).name) OBVIOUS
      <3>2. Save(a, c) /\ rescue' = rescue BY <1>4, <2>5, <3>1 DEF RemoveSource
      <3>3. Call(a).name \in Sources BY <2>3, CallSays
      <3>4. Sound(c) BY <2>2, <3>1, <3>3, SoundWithoutSource
      <3> QED BY <2>1, <2>2, <3>2, <3>4, SameMemory, SaveHomes
    <2> QED BY <2>4, <2>5
  <1> QED BY <1>1, <1>2, <1>3, <1>4

LEMMA SnapshotsStep ==
  ASSUME HomesInv, NEW a \in Actors,
         GetLatestSnapshot(a) \/ CreateSnapshot(a) \/ UpdateSnapshotSchema(a)
  PROVE  HomesInv'
  <1>1. CASE GetLatestSnapshot(a)
    <2>1. Calls(a, "get_latest_snapshot") /\ file' = file /\ NoSave /\ rescue' = rescue
      BY <1>1 DEF GetLatestSnapshot, Reads, Kept
    <2>2. \E m : Memory(m) /\ mem' = [mem EXCEPT ![a] = m]
      BY <1>1, SameMemory DEF GetLatestSnapshot, Learn
    <2>3. Return(a) \/ Stop(a) BY <1>1 DEF GetLatestSnapshot
    <2> QED BY <2>1, <2>2, <2>3, EndStep
  <1>2. CASE CreateSnapshot(a)
    <2>1. Reads(a, "create_snapshot") /\ file' = file /\ rescue' = rescue
      BY <1>2 DEF CreateSnapshot
    <2>2. Sound(file) /\ todo[a] # <<>> BY <2>1, FileSound
    <2>3. PICK n : /\ Save(a, [file EXCEPT !.snapshots = @ \cup {n}])
                   /\ mem' = [mem EXCEPT ![a] = [mem[a] EXCEPT !.snapshot = n]]
      BY <1>2 DEF CreateSnapshot, Learn
    <2>4. PICK c : c = [file EXCEPT !.snapshots = @ \cup {n}] OBVIOUS
    <2>5. Sound(c) /\ Save(a, c) BY <2>2, <2>3, <2>4, SoundElsewhere
    <2> QED BY <2>1, <2>2, <2>3, <2>5, SameMemory, SaveHomes
  <1>3. CASE UpdateSnapshotSchema(a)
    <2>1. Reads(a, "update_snapshot_schema") /\ file' = file /\ mem' = mem
      BY <1>3 DEF UpdateSnapshotSchema
    <2>2. Sound(file) /\ Calls(a, "update_snapshot_schema") /\ todo[a] # <<>> BY <2>1, FileSound
    <2>3. \/ Raise(a) /\ NoSave
          \/ (\E c : Sound(c) /\ Save(a, c)) /\ UNCHANGED rescue
      BY <1>3, <2>2, SoundElsewhere DEF UpdateSnapshotSchema
    <2>4. CASE Raise(a) /\ NoSave BY <2>1, <2>2, <2>4, SameMemory, EndStep
    <2>5. CASE (\E c : Sound(c) /\ Save(a, c)) /\ UNCHANGED rescue
      BY <2>1, <2>2, <2>5, SameMemory, SaveHomes
    <2> QED BY <2>3, <2>4, <2>5
  <1> QED BY <1>1, <1>2, <1>3

LEMMA ProjectsStep ==
  ASSUME HomesInv, NEW a \in Actors,
         GetProject(a) \/ UpdateProject(a) \/ TouchProject(a) \/ DeleteProject(a) \/ SetLoadedMapping(a)
  PROVE  HomesInv'
  <1>1. CASE GetProject(a)
    <2>1. Calls(a, "get_project") /\ file' = file /\ NoSave /\ rescue' = rescue
      BY <1>1 DEF GetProject, Reads, Kept
    <2>2. \E m : Memory(m) /\ mem' = [mem EXCEPT ![a] = m] BY <1>1, SameMemory DEF GetProject, Learn
    <2>3. Return(a) \/ Stop(a) BY <1>1 DEF GetProject
    <2> QED BY <2>1, <2>2, <2>3, EndStep
  <1>2. CASE UpdateProject(a)
    <2>1. Reads(a, "update_project") /\ file' = file /\ mem' = mem BY <1>2 DEF UpdateProject, Kept
    <2>2. Sound(file) /\ Calls(a, "update_project") /\ todo[a] # <<>> BY <2>1, FileSound
    <2>3. Call(a).name \in Projects BY <2>1, FileSound, CallSays
    <2>4. CASE Raise(a) /\ NoSave BY <2>1, <2>2, <2>4, SameMemory, EndStep
    <2>5. CASE ~(Raise(a) /\ NoSave)
      <3>1. PICK p : p = file.projects[Call(a).name] OBVIOUS
      <3>2. PICK q : q = IF Call(a).snapshot THEN [p EXCEPT !.snapshot = mem[a].snapshot.id] ELSE p
        OBVIOUS
      <3>3. PICK v : v = [q EXCEPT !.target = Call(a).target] OBVIOUS
      <3>4. PICK c : c = [file EXCEPT !.projects[Call(a).name] = v] OBVIOUS
      <3>5. p # Absent /\ Save(a, c) /\ rescue' = rescue
        BY <1>2, <2>5, <3>1, <3>2, <3>3, <3>4 DEF UpdateProject
      <3>6. /\ DOMAIN p = ProjectFields /\ p.source \in Sources
            /\ file.sources[p.source] # Absent
        BY <2>2, <2>3, <3>1, <3>5 DEF Sound, Homes
      <3>7. DOMAIN v = ProjectFields /\ v.source = p.source BY <3>2, <3>3, <3>6 DEF ProjectFields
      <3>8. Sound(c) BY <2>2, <2>3, <3>4, <3>6, <3>7, SoundWithProject
      <3> QED BY <2>1, <2>2, <3>5, <3>8, SameMemory, SaveHomes
    <2> QED BY <2>4, <2>5
  <1>3. CASE TouchProject(a)
    <2>1. Reads(a, "touch_project") /\ file' = file /\ mem' = mem /\ rescue' = rescue
      BY <1>3 DEF TouchProject, Same, Kept
    <2>2. Sound(file) /\ Calls(a, "touch_project") /\ todo[a] # <<>> BY <2>1, FileSound
    <2>3. (Return(a) /\ NoSave) \/ Save(a, file) BY <1>3 DEF TouchProject
    <2>4. CASE Return(a) /\ NoSave BY <2>1, <2>2, <2>4, SameMemory, EndStep
    <2>5. CASE Save(a, file)
      <3>1. PICK c : c = file OBVIOUS
      <3>2. Sound(c) /\ Save(a, c) BY <2>2, <2>5, <3>1
      <3> QED BY <2>1, <2>2, <3>2, SameMemory, SaveHomes
    <2> QED BY <2>3, <2>4, <2>5
  <1>4. CASE DeleteProject(a)
    <2>1. Reads(a, "delete_project") /\ file' = file /\ mem' = mem /\ rescue' = rescue
      BY <1>4 DEF DeleteProject, Same, Kept
    <2>2. Sound(file) /\ Calls(a, "delete_project") /\ todo[a] # <<>> BY <2>1, FileSound
    <2>3. Call(a).name \in Projects BY <2>1, FileSound, CallSays
    <2>4. CASE Stop(a) /\ NoSave BY <2>1, <2>2, <2>4, SameMemory, EndStep
    <2>5. CASE ~(Stop(a) /\ NoSave)
      <3>1. PICK h : h = {r \in file.history : r.project # Call(a).name} OBVIOUS
      <3>2. PICK d : d = [file EXCEPT !.projects[Call(a).name] = Absent] OBVIOUS
      <3>3. PICK c : c = [d EXCEPT !.history = h] OBVIOUS
      <3>4. c = [file EXCEPT !.projects[Call(a).name] = Absent,
                             !.history = {r \in @ : r.project # Call(a).name}]
        BY <2>2, <3>1, <3>2, <3>3 DEF Sound, CatalogFields
      <3>5. Save(a, c) BY <1>4, <2>5, <3>4 DEF DeleteProject
      <3>6. Sound(d) BY <2>2, <2>3, <3>2, SoundWithProject
      <3>7. Sound(c) BY <3>3, <3>6, SoundElsewhere
      <3> QED BY <2>1, <2>2, <3>5, <3>7, SameMemory, SaveHomes
    <2> QED BY <2>4, <2>5
  <1>5. CASE SetLoadedMapping(a)
    <2>1. Reads(a, "set_loaded_mapping") /\ file' = file /\ mem' = mem /\ rescue' = rescue
      BY <1>5 DEF SetLoadedMapping, Same, Kept
    <2>2. Sound(file) /\ Calls(a, "set_loaded_mapping") /\ todo[a] # <<>> BY <2>1, FileSound
    <2>3. Call(a).name \in Projects BY <2>1, FileSound, CallSays
    <2>4. CASE Return(a) /\ NoSave BY <2>1, <2>2, <2>4, SameMemory, EndStep
    <2>5. CASE ~(Return(a) /\ NoSave)
      <3>1. PICK p : p = file.projects[Call(a).name] OBVIOUS
      <3>2. PICK v : v = [p EXCEPT !.loaded = mem[a].mapping] OBVIOUS
      <3>3. PICK c : c = [file EXCEPT !.projects[Call(a).name] = v] OBVIOUS
      <3>4. c = [file EXCEPT !.projects[Call(a).name].loaded = mem[a].mapping] BY <3>1, <3>2, <3>3
      <3>5. p # Absent /\ Save(a, c) BY <1>5, <2>5, <3>1, <3>4 DEF SetLoadedMapping
      <3>6. /\ DOMAIN p = ProjectFields /\ p.source \in Sources
            /\ file.sources[p.source] # Absent
        BY <2>2, <2>3, <3>1, <3>5 DEF Sound, Homes
      <3>7. DOMAIN v = ProjectFields /\ v.source = p.source BY <3>2, <3>6 DEF ProjectFields
      <3>8. Sound(c) BY <2>2, <2>3, <3>3, <3>6, <3>7, SoundWithProject
      <3> QED BY <2>1, <2>2, <3>5, <3>8, SameMemory, SaveHomes
    <2> QED BY <2>4, <2>5
  <1> QED BY <1>1, <1>2, <1>3, <1>4, <1>5

(* create_project looks for the source in the file it will write back: the *)
(* second reading is only for the snapshot.                                *)
LEMMA CreateProjectStep ==
  ASSUME HomesInv, NEW a \in Actors, CreateProject(a)
  PROVE  HomesInv'
  <1>1. /\ Reads(a, "create_project") /\ file' = file /\ mem' = mem
    BY DEF CreateProject, Kept
  <1>2. /\ Sound(file) /\ todo[a] # <<>> /\ saving[a] = "no" /\ Call(a).op = "create_project"
        /\ Call(a) \in CallType
    BY <1>1, FileSound
  <1>3. Call(a).name \in Projects /\ Call(a).source \in Sources BY <1>2, CallSays
  <1>4. CASE base[a] = Absent /\ file.sources[Call(a).source] = Absent
    <2>1. Raise(a) /\ NoSave BY <1>4 DEF CreateProject
    <2>2. todo' = [todo EXCEPT ![a] = rescue[a]] /\ rescue' = [rescue EXCEPT ![a] = <<>>]
          /\ rescue[a] \in Seq(CallType) /\ <<>> \in Rescues /\ Memory(mem[a])
          /\ mem' = [mem EXCEPT ![a] = mem[a]]
      BY <1>1, <1>2, <2>1, Endings
    <2> QED BY <1>1, <1>2, <1>4, <2>1, <2>2, NoSaveStep
  <1>5. CASE base[a] = Absent /\ file.sources[Call(a).source] # Absent
    <2>1. base' = [base EXCEPT ![a] = file] /\ UNCHANGED <<todo, rescue, copy, saving>>
      BY <1>5 DEF CreateProject
    <2>2. Lists' BY <2>1 DEF HomesInv, Lists
    <2>3. Places' BY <1>1, <2>1 DEF HomesInv, Places
    <2>4. ASSUME NEW b \in Actors PROVE Mine(b)'
      <3>1. CASE b # a
        <4>1. todo'[b] = todo[b] /\ mem'[b] = mem[b] /\ copy'[b] = copy[b] /\ saving'[b] = saving[b]
              /\ base'[b] = base[b]
          BY <1>1, <2>1, <3>1 DEF HomesInv, Places
        <4> QED BY <4>1, OthersMine DEF HomesInv
      <3>2. CASE b = a
        <4>1. /\ base'[b] = file /\ todo'[b] = todo[a] /\ mem'[b] = mem[a] /\ saving'[b] = "no"
          BY <1>1, <1>2, <2>1, <3>2 DEF HomesInv, Places
        <4>2. Founding(b)' BY <1>2, <1>5, <3>2, <4>1 DEF Founding, Call
        <4> QED BY <3>2, <4>1, <4>2 DEF HomesInv, Mine
      <3> QED BY <3>1, <3>2
    <2> QED BY <1>1, <1>2, <2>2, <2>3, <2>4 DEF HomesInv
  <1>6. CASE base[a] # Absent
    <2>1. Founding(a) BY <1>2, <1>6 DEF HomesInv, Mine
    <2>2. PICK x : x = (IF Latest(Call(a).source) = Absent THEN 0 ELSE Latest(Call(a).source).id) OBVIOUS
    <2>3. PICK v : v = [source |-> Call(a).source, snapshot |-> x, target |-> Absent, loaded |-> Absent]
      OBVIOUS
    <2>4. PICK c : c = [base[a] EXCEPT !.projects[Call(a).name] = v] OBVIOUS
    <2>5. /\ copy' = [copy EXCEPT ![a] = c] /\ saving' = [saving EXCEPT ![a] = "truncate"]
          /\ Return(a) /\ UNCHANGED <<rescue, base>>
      BY <1>6, <2>2, <2>3, <2>4 DEF CreateProject
    <2>6. Sound(c)
      <3>1. DOMAIN v = ProjectFields /\ v.source = Call(a).source BY <2>3 DEF ProjectFields
      <3>2. Sound(base[a]) /\ base[a].sources[Call(a).source] # Absent BY <2>1 DEF Founding
      <3> QED BY <1>3, <2>4, <3>1, <3>2, SoundWithProject
    <2>7. base' = [base EXCEPT ![a] = base'[a]] BY <2>5 DEF HomesInv, Places
    <2> QED BY <1>1, <1>2, <2>5, <2>6, <2>7, SaveStep, SameMemory
  <1> QED BY <1>4, <1>5, <1>6

LEMMA LoadsStep ==
  ASSUME HomesInv, NEW a \in Actors, StartLoad(a) \/ CompleteLoad(a)
  PROVE  HomesInv'
  <1>1. CASE StartLoad(a)
    <2>1. Reads(a, "start_load") /\ file' = file /\ rescue' = rescue BY <1>1 DEF StartLoad, Kept
    <2>2. Sound(file) /\ todo[a] # <<>> BY <2>1, FileSound
    <2>3. PICK n : /\ Save(a, [file EXCEPT !.history = @ \cup {n}])
                   /\ mem' = [mem EXCEPT ![a] = [mem[a] EXCEPT !.load = clock]]
      BY <1>1 DEF StartLoad, Learn
    <2>4. PICK c : c = [file EXCEPT !.history = @ \cup {n}] OBVIOUS
    <2>5. Sound(c) /\ Save(a, c) BY <2>2, <2>3, <2>4, SoundElsewhere
    <2> QED BY <2>1, <2>2, <2>3, <2>5, SameMemory, SaveHomes
  <1>2. CASE CompleteLoad(a)
    <2>1. Reads(a, "complete_load") /\ file' = file /\ mem' = mem BY <1>2 DEF CompleteLoad, Kept
    <2>2. Sound(file) /\ Calls(a, "complete_load") /\ todo[a] # <<>> BY <2>1, FileSound
    <2>3. PICK h : h = {IF IsMyLoad(a, r) THEN [r EXCEPT !.status = Call(a).status] ELSE r :
                          r \in file.history}
      OBVIOUS
    <2>4. PICK c : c = [file EXCEPT !.history = h] OBVIOUS
    <2>5. (Save(a, c) /\ UNCHANGED rescue) \/ (Raise(a) /\ NoSave) BY <1>2, <2>3, <2>4 DEF CompleteLoad
    <2>6. CASE Raise(a) /\ NoSave BY <2>1, <2>2, <2>6, SameMemory, EndStep
    <2>7. CASE Save(a, c) /\ UNCHANGED rescue
      <3>1. Sound(c) BY <2>2, <2>4, SoundElsewhere
      <3> QED BY <2>1, <2>2, <2>7, <3>1, SameMemory, SaveHomes
    <2> QED BY <2>5, <2>6, <2>7
  <1> QED BY <1>1, <1>2

LEMMA EntriesStep ==
  ASSUME HomesInv, NEW a \in Actors, GetEntry(a) \/ AddEntry(a) \/ RemoveEntry(a)
  PROVE  HomesInv'
  <1>0. Memory(mem[a]) /\ (mem' = mem => mem' = [mem EXCEPT ![a] = mem[a]]) BY SameMemory
  <1>1. CASE GetEntry(a)
    <2>1. file' = file /\ mem' = mem /\ rescue' = rescue /\ NoSave BY <1>1 DEF GetEntry, Same, Kept
    <2>2. Return(a) \/ Stop(a) BY <1>1 DEF GetEntry
    <2>3. Calls(a, "get_target") \/ Calls(a, "get_catalog") \/ Calls(a, "list")
      BY <1>1 DEF GetEntry, Reads
    <2> QED BY <1>0, <2>1, <2>2, <2>3, EndStep
  <1>2. CASE AddEntry(a)
    <2>1. file' = file /\ mem' = mem BY <1>2 DEF AddEntry, Kept
    <2>2. PICK op \in {"add_target", "add_catalog"} :
            /\ Reads(a, op)
            /\ \/ Raise(a) /\ NoSave
               \/ /\ \E v : \/ Save(a, [file EXCEPT !.targets = v])
                            \/ Save(a, [file EXCEPT !.providers = v])
                  /\ rescue' = rescue
      BY <1>2 DEF AddEntry
    <2>3. Sound(file) /\ Calls(a, op) /\ todo[a] # <<>> BY <2>2, FileSound
    <2>4. CASE Raise(a) /\ NoSave BY <1>0, <2>1, <2>2, <2>3, <2>4, EndStep
    <2>5. CASE ~(Raise(a) /\ NoSave)
      <3>1. PICK c : Sound(c) /\ Save(a, c) BY <2>2, <2>3, <2>5, SoundElsewhere
      <3> QED BY <1>0, <2>1, <2>2, <2>3, <2>5, <3>1, SaveHomes
    <2> QED BY <2>4, <2>5
  <1>3. CASE RemoveEntry(a)
    <2>1. file' = file /\ mem' = mem /\ rescue' = rescue BY <1>3 DEF RemoveEntry, Same, Kept
    <2>2. PICK op \in {"remove_target", "remove_catalog"} :
            /\ Reads(a, op)
            /\ \/ Stop(a) /\ NoSave
               \/ \E v : \/ Save(a, [file EXCEPT !.targets = v])
                         \/ Save(a, [file EXCEPT !.providers = v])
      BY <1>3 DEF RemoveEntry
    <2>3. Sound(file) /\ Calls(a, op) /\ todo[a] # <<>> BY <2>2, FileSound
    <2>4. CASE Stop(a) /\ NoSave BY <1>0, <2>1, <2>2, <2>3, <2>4, EndStep
    <2>5. CASE ~(Stop(a) /\ NoSave)
      <3>1. PICK c : Sound(c) /\ Save(a, c) BY <2>2, <2>3, <2>5, SoundElsewhere
      <3> QED BY <1>0, <2>1, <2>3, <3>1, SaveHomes
    <2> QED BY <2>4, <2>5
  <1> QED BY <1>1, <1>2, <1>3

(* Whichever copy is written, it is sound; what two writers mix is not     *)
(* read, and neither is the file before it is written.                     *)
LEMMA FileStep ==
  ASSUME HomesInv, NEW a \in Actors, Truncate(a) \/ Write(a) \/ ReadTorn(a)
  PROVE  HomesInv'
  <1>1. CASE Truncate(a)
    <2>1. /\ saving[a] = "truncate" /\ file' = Empty /\ saving' = [saving EXCEPT ![a] = "write"]
          /\ UNCHANGED <<todo, rescue, mem, base, copy>>
      BY <1>1 DEF Truncate
    <2>2. ASSUME NEW b \in Actors PROVE Mine(b)'
      <3>1. CASE b # a
        <4>1. saving'[b] = saving[b] BY <2>1, <3>1 DEF HomesInv, Places
        <4> QED BY <2>1, <4>1, OthersMine DEF HomesInv
      <3>2. CASE b = a
        <4>1. saving'[b] = "write" BY <2>1, <3>2 DEF HomesInv, Places
        <4>2. Memory(mem[b]) /\ Sound(copy[b]) BY <2>1, <3>2 DEF HomesInv, Mine
        <4> QED BY <2>1, <4>1, <4>2 DEF Mine
      <3> QED BY <3>1, <3>2
    <2>3. Lists' BY <2>1 DEF HomesInv, Lists
    <2>4. Places' BY <2>1 DEF HomesInv, Places
    <2>5. ~Readable(file)' BY <2>1 DEF Readable
    <2> QED BY <2>2, <2>3, <2>4, <2>5 DEF HomesInv
  <1>2. CASE Write(a)
    <2>1. /\ saving[a] = "write" /\ file' \in {copy[a], Mixed} /\ saving' = [saving EXCEPT ![a] = "no"]
          /\ copy' = [copy EXCEPT ![a] = Absent] /\ base' = [base EXCEPT ![a] = Absent]
          /\ UNCHANGED <<todo, rescue>>
          /\ mem' = mem \/ mem' = [mem EXCEPT ![a] = [Blank EXCEPT !.load = mem[a].load]]
      BY <1>2 DEF Write, Learn
    <2>2. Memory([Blank EXCEPT !.load = mem[a].load])
      BY CatalogAssumption DEF Memory, MemFields, Blank
    <2>3. PICK m : Memory(m) /\ mem' = [mem EXCEPT ![a] = m] BY <2>1, <2>2, SameMemory
    <2>4. ASSUME NEW b \in Actors PROVE Mine(b)'
      <3>1. CASE b # a
        <4>1. saving'[b] = saving[b] /\ copy'[b] = copy[b] /\ base'[b] = base[b] /\ mem'[b] = mem[b]
          BY <2>1, <2>3, <3>1 DEF HomesInv, Places
        <4> QED BY <2>1, <4>1, OthersMine DEF HomesInv
      <3>2. CASE b = a
        <4>1. saving'[b] = "no" /\ base'[b] = Absent /\ mem'[b] = m
          BY <2>1, <2>3, <3>2 DEF HomesInv, Places
        <4> QED BY <2>3, <4>1 DEF Mine, Memory
      <3> QED BY <3>1, <3>2
    <2>5. Lists' BY <2>1 DEF HomesInv, Lists
    <2>6. Places' BY <2>1, <2>3 DEF HomesInv, Places
    <2>7. Readable(file)' => Sound(file)'
      <3>1. Sound(copy[a]) BY <2>1 DEF HomesInv, Mine
      <3>2. CASE file' = copy[a] BY <3>1, <3>2 DEF Sound, Homes
      <3>3. CASE file' = Mixed BY <3>3 DEF Readable
      <3> QED BY <2>1, <3>2, <3>3
    <2> QED BY <2>4, <2>5, <2>6, <2>7 DEF HomesInv
  <1>3. CASE ReadTorn(a)
    <2>1. /\ \E op \in Methods : Calls(a, op)
          /\ Raise(a) /\ base' = [base EXCEPT ![a] = Absent]
          /\ UNCHANGED <<file, mem, copy, saving>>
      BY <1>3 DEF ReadTorn
    <2>2. saving[a] = "no" /\ todo[a] # <<>> BY <2>1 DEF Calls
    <2>3. /\ todo' = [todo EXCEPT ![a] = rescue[a]] /\ rescue' = [rescue EXCEPT ![a] = <<>>]
          /\ rescue[a] \in Seq(CallType) /\ <<>> \in Rescues
      BY <2>1, <2>2, Endings
    <2>4. ASSUME NEW b \in Actors PROVE Mine(b)'
      <3>1. CASE b # a
        <4>1. todo'[b] = todo[b] /\ base'[b] = base[b]
          BY <2>1, <2>3, <3>1 DEF HomesInv, Places, Lists
        <4> QED BY <2>1, <4>1, OthersMine DEF HomesInv
      <3>2. CASE b = a
        <4>1. base'[b] = Absent /\ saving'[b] = "no" BY <2>1, <2>2, <3>2 DEF HomesInv, Places
        <4> QED BY <2>1, <4>1 DEF Mine, HomesInv
      <3> QED BY <3>1, <3>2
    <2>5. Lists' BY <2>3 DEF HomesInv, Lists
    <2>6. Places' BY <2>1 DEF HomesInv, Places
    <2>7. Readable(file)' => Sound(file)' BY <2>1 DEF HomesInv, Readable
    <2> QED BY <2>4, <2>5, <2>6, <2>7 DEF HomesInv
  <1> QED BY <1>1, <1>2, <1>3

LEMMA MethodStep ==
  ASSUME HomesInv, NEW a \in Actors, Method(a)
  PROVE  HomesInv'
  BY SourcesStep, SnapshotsStep, ProjectsStep, CreateProjectStep, LoadsStep, EntriesStep, FileStep
  DEF Method

(***************************************************************************)
(* What handlers do between their calls                                    *)
(***************************************************************************)

LEMMA BeginStep ==
  ASSUME HomesInv, NEW a \in Actors, Begin(a)
  PROVE  HomesInv'
  <1>1. /\ Free(a) /\ file' = file /\ NoSave
        /\ \E h \in Handlers(a) : todo' = [todo EXCEPT ![a] = h]
        /\ mem' = [mem EXCEPT ![a] = Blank] /\ rescue' = [rescue EXCEPT ![a] = <<>>]
    BY DEF Begin, Then, Learn, NoSave
  <1>2. saving[a] = "no" /\ base[a] = Absent BY <1>1 DEF Free, HomesInv, Mine, Founding
  <1>3. PICK h \in Handlers(a) : todo' = [todo EXCEPT ![a] = h] BY <1>1
  <1>4. h \in Seq(CallType) BY HandlersTyped
  <1>5. Memory(Blank) BY CatalogAssumption DEF Memory, MemFields, Blank
  <1>6. <<>> \in Rescues BY DEF Rescues
  <1> QED BY <1>1, <1>2, <1>3, <1>4, <1>5, <1>6, NoSaveStep

(* The steps that go on with the list, or end it.                          *)
LEMMA GoOnStep ==
  ASSUME HomesInv, NEW a \in Actors,
         \/ Introspect(a) \/ Accept(a) \/ Resolve(a) \/ Annotate(a) \/ LoadConfig(a)
         \/ Connect(a) \/ TellError(a) \/ Migrate(a)
  PROVE  HomesInv'
  <1>1. /\ \E op \in {"introspect", "accept", "bound", "resolve", "annotate", "load_config", "connect",
                      "error", "migrate"} : Calls(a, op)
        /\ Return(a) \/ Stop(a)
    BY DEF Introspect, Accept, Resolve, Annotate, LoadConfig, Connect, TellError, Migrate
  <1>2. file' = file /\ NoSave /\ rescue' = rescue
    BY DEF Introspect, Accept, Resolve, Annotate, LoadConfig, Connect, TellError, Migrate, Quiet, Still,
           NoSave
  <1>3. \E m : Memory(m) /\ mem' = [mem EXCEPT ![a] = m]
    <2>1. CASE Introspect(a) BY <2>1, SameMemory DEF Introspect, Learn
    <2>2. CASE Accept(a) BY <2>2, SameMemory DEF Accept, Learn
    <2>3. CASE Resolve(a) BY <2>3, SameMemory DEF Resolve, Learn
    <2>4. CASE Annotate(a) BY <2>4, SameMemory DEF Annotate, Learn
    <2>5. CASE LoadConfig(a) BY <2>5, SameMemory DEF LoadConfig, Learn
    <2>6. CASE Connect(a) \/ TellError(a) \/ Migrate(a)
      BY <2>6, SameMemory DEF Connect, TellError, Migrate
    <2> QED BY <2>1, <2>2, <2>3, <2>4, <2>5, <2>6
  <1>4. PICK op \in {"introspect", "accept", "bound", "resolve", "annotate", "load_config", "connect",
                     "error", "migrate"} : Calls(a, op)
    BY <1>1
  <1>5. op # "create_project" OBVIOUS
  <1> QED BY <1>1, <1>2, <1>3, <1>4, <1>5, EndStep

LEMMA BranchStep ==
  ASSUME HomesInv, NEW a \in Actors, ResolveTarget(a) \/ Try(a) \/ Run(a)
  PROVE  HomesInv'
  <1>0. Memory(mem[a]) /\ (mem' = mem => mem' = [mem EXCEPT ![a] = mem[a]]) BY SameMemory
  <1>1. CASE ResolveTarget(a)
    <2>1. /\ Reads(a, "resolve_target") /\ mem' = mem /\ rescue' = rescue /\ file' = file /\ NoSave
          /\ Return(a) \/ Then(a, Call(a).otherwise)
      BY <1>1 DEF ResolveTarget, Quiet, Still, NoSave
    <2>2. Calls(a, "resolve_target") /\ Call(a) \in CallType /\ Call(a).op = "resolve_target"
      BY <2>1, FileSound
    <2>3. CASE Return(a) BY <1>0, <2>1, <2>2, <2>3, EndStep
    <2>4. CASE Then(a, Call(a).otherwise)
      <3>1. Call(a).otherwise \in Rescues BY <2>2, CallSays
      <3>2. PICK l : l = Call(a).otherwise OBVIOUS
      <3>3. l \in Seq(CallType) BY <3>1, <3>2, RescuesTyped
      <3>4. todo' = [todo EXCEPT ![a] = l] BY <2>4, <3>2 DEF Then
      <3>5. saving[a] = "no" /\ base[a] = Absent /\ todo[a] # <<>> BY <2>2, NotFounding
      <3>6. rescue[a] \in Rescues /\ rescue' = [rescue EXCEPT ![a] = rescue[a]]
        BY <2>1, <3>5, Endings
      <3> QED BY <1>0, <2>1, <3>3, <3>4, <3>5, <3>6, NoSaveStep
    <2> QED BY <2>1, <2>3, <2>4
  <1>2. CASE Try(a)
    <2>1. /\ Calls(a, "try") /\ Return(a) /\ rescue' = [rescue EXCEPT ![a] = Call(a).rescue]
          /\ mem' = mem /\ file' = file /\ NoSave
      BY <1>2 DEF Try, Still, NoSave
    <2>2. saving[a] = "no" /\ base[a] = Absent /\ todo[a] # <<>> BY <2>1, NotFounding
    <2>3. Call(a) \in CallType /\ Call(a).op = "try" BY <2>1, <2>2, Popped DEF Calls, Call, HomesInv
    <2>4. Call(a).rescue \in Rescues BY <2>3, CallSays
    <2>5. todo' = [todo EXCEPT ![a] = Tail(todo[a])] /\ Tail(todo[a]) \in Seq(CallType)
      BY <2>1, <2>2, Endings
    <2> QED BY <1>0, <2>1, <2>2, <2>4, <2>5, NoSaveStep
  <1>3. CASE Run(a)
    <2>1. /\ Calls(a, "run") \/ Calls(a, "running")
          /\ mem' = mem /\ file' = file /\ NoSave
          /\ \/ Return(a) /\ rescue' = rescue
             \/ Raise(a)
             \/ /\ Calls(a, "run") /\ rescue' = rescue
                /\ Then(a, <<To("running", Call(a).name)>> \o Tail(todo[a]))
      BY <1>3 DEF Run, Still, NoSave
    <2>2. CASE (Return(a) /\ rescue' = rescue) \/ Raise(a) BY <1>0, <2>1, <2>2, EndStep
    <2>3. CASE /\ Calls(a, "run") /\ rescue' = rescue
               /\ Then(a, <<To("running", Call(a).name)>> \o Tail(todo[a]))
      <3>1. saving[a] = "no" /\ base[a] = Absent /\ todo[a] # <<>> BY <2>3, NotFounding
      <3>2. Call(a) \in CallType /\ Call(a).op = "run" BY <2>3, <3>1, Popped DEF Calls, Call, HomesInv
      <3>3. Call(a).name \in Projects BY <3>2, CallSays
      <3>4. To("running", Call(a).name) \in CallType BY <3>3, LoadCallIs DEF CallType
      <3>5. /\ Tail(todo[a]) \in Seq(CallType) /\ rescue[a] \in Rescues
            /\ rescue' = [rescue EXCEPT ![a] = rescue[a]]
        BY <2>3, <3>1, Endings
      <3>6. PICK l : l = <<To("running", Call(a).name)>> \o Tail(todo[a]) OBVIOUS
      <3>7. l \in Seq(CallType) BY <3>4, <3>5, <3>6
      <3>8. todo' = [todo EXCEPT ![a] = l] BY <2>3, <3>6 DEF Then
      <3> QED BY <1>0, <2>1, <3>1, <3>5, <3>7, <3>8, NoSaveStep
    <2> QED BY <2>1, <2>2, <2>3
  <1> QED BY <1>1, <1>2, <1>3

(* The handler leaves the rest to the thread, which had nothing to do.     *)
LEMMA SpawnStep ==
  ASSUME HomesInv, NEW a \in Actors, Spawn(a)
  PROVE  HomesInv'
  <1>0. Thread \in Actors BY ClientsAssumption
  <1>1. /\ Calls(a, "spawn") /\ Free(Thread)
        /\ todo' = [todo EXCEPT ![a] = Tail(@), ![Thread] = ThreadCalls(Call(a).name, mem[a].dry)]
        /\ rescue' = [rescue EXCEPT ![Thread] = ThreadRescue]
        /\ mem' = [mem EXCEPT ![Thread] = mem[a], ![a] = Blank]
        /\ UNCHANGED <<file, base, copy, saving>>
    BY DEF Spawn, Still
  <1>2. saving[a] = "no" /\ base[a] = Absent /\ todo[a] # <<>> BY <1>1, NotFounding
  <1>3. saving[Thread] = "no" /\ base[Thread] = Absent
    BY <1>0, <1>1 DEF Free, HomesInv, Mine, Founding
  <1>4. Call(a).name \in Projects
    <2>1. Call(a) \in CallType /\ Call(a).op = "spawn" BY <1>1, <1>2, Popped DEF Calls, Call, HomesInv
    <2> QED BY <2>1, CallSays
  <1>5. Memory(mem[a]) BY DEF HomesInv, Mine
  <1>6. Memory(Blank) BY CatalogAssumption DEF Memory, MemFields, Blank
  <1>7. ThreadCalls(Call(a).name, mem[a].dry) \in Seq(CallType)
    <2>1. To("run", Call(a).name) \in CallType /\ Complete("completed") \in CallType
          /\ To("set_loaded_mapping", Call(a).name) \in CallType
      BY <1>4, LoadCallIs DEF CallType
    <2>2. <<To("run", Call(a).name), Complete("completed")>> \in Seq(CallType) BY <2>1
    <2>3. (IF mem[a].dry THEN <<>> ELSE <<To("set_loaded_mapping", Call(a).name)>>) \in Seq(CallType)
      BY <2>1
    <2> QED BY <2>2, <2>3 DEF ThreadCalls
  <1>8. Lists'
    <2>1. Tail(todo[a]) \in Seq(CallType) BY <1>2, Popped DEF HomesInv
    <2>2. ThreadRescue \in Rescues BY DEF Rescues
    <2>3. PICK l : l = ThreadCalls(Call(a).name, mem[a].dry) OBVIOUS
    <2> QED BY <1>1, <1>7, <2>1, <2>2, <2>3 DEF HomesInv, Lists
  <1>9. Places' BY <1>1 DEF HomesInv, Places
  <1>10. ASSUME NEW b \in Actors PROVE Mine(b)'
    <2>1. CASE b # a /\ b # Thread
      <3>1. todo'[b] = todo[b] /\ mem'[b] = mem[b] BY <1>1, <2>1 DEF HomesInv, Lists, Places
      <3> QED BY <1>1, <3>1, OthersMine DEF HomesInv
    <2>2. CASE b = a \/ b = Thread
      <3>1. mem'[b] = mem[a] \/ mem'[b] = Blank BY <1>1, <2>2 DEF HomesInv, Places
      <3> QED BY <1>1, <1>2, <1>3, <1>5, <1>6, <2>2, <3>1 DEF Mine, Memory
    <2> QED BY <2>1, <2>2
  <1>11. Readable(file)' => Sound(file)' BY <1>1 DEF HomesInv, Readable
  <1> QED BY <1>8, <1>9, <1>10, <1>11 DEF HomesInv

LEMMA DemoStep ==
  ASSUME HomesInv, NEW a \in Actors, DemoSource(a) \/ DemoSnapshot(a) \/ DemoProject(a)
  PROVE  HomesInv'
  <1>1. PICK op \in {"demo_source", "demo_snapshot", "demo_project"} : Reads(a, op)
    BY DEF DemoSource, DemoSnapshot, DemoProject
  <1>2. /\ saving[a] = "no" /\ todo[a] # <<>> /\ Call(a).op = op /\ Call(a) \in CallType
        /\ base[a] = Absent
    BY <1>1, FileSound, NotFounding
  <1>3. file' = file /\ NoSave /\ rescue' = rescue
    BY DEF DemoSource, DemoSnapshot, DemoProject, Quiet, Still, NoSave
  <1>4. PICK m : Memory(m) /\ mem' = [mem EXCEPT ![a] = m]
    BY SameMemory DEF DemoSource, DemoSnapshot, DemoProject, Learn
  <1>5. /\ Tail(todo[a]) \in Seq(CallType) /\ rescue[a] \in Rescues
        /\ rescue' = [rescue EXCEPT ![a] = rescue[a]]
    BY <1>2, <1>3, Endings
  <1>6. \E l \in Seq(CallType) : todo' = [todo EXCEPT ![a] = l]
    <2>1. CASE DemoSource(a)
      <3>1. Call(a).op = "demo_source" BY <2>1, FileSound DEF DemoSource
      <3>2. Call(a).name \in Sources BY <1>2, <3>1, CallSays
      <3>3. DemoOverlay \in Overlays BY CatalogAssumption DEF DemoOverlay
      <3>4. /\ Add(Call(a).name, DemoOverlay, FALSE) \in CallType
            /\ [op |-> "update_source", name |-> Call(a).name, field |-> "overlay",
                value |-> DemoOverlay] \in CallType
        BY <3>2, <3>3, OtherCallIs DEF CallType, Add
      <3>5. PICK c \in CallType : Then(a, <<c>> \o Tail(todo[a])) BY <2>1, <3>4 DEF DemoSource, Add
      <3>6. <<c>> \o Tail(todo[a]) \in Seq(CallType) BY <1>5
      <3> QED BY <3>5, <3>6 DEF Then
    <2>2. CASE DemoSnapshot(a)
      <3>1. Call(a).op = "demo_snapshot" BY <2>2, FileSound DEF DemoSnapshot
      <3>2. Call(a).name \in Sources BY <1>2, <3>1, CallSays
      <3>3. /\ To("get_source", Call(a).name) \in CallType /\ To("introspect", Call(a).name) \in CallType
            /\ To("create_snapshot", Call(a).name) \in CallType
        BY <3>2, OtherCallIs DEF CallType
      <3>4. PICK k : k = Capture(Call(a).name) OBVIOUS
      <3>5. k \in Seq(CallType) BY <3>3, <3>4 DEF Capture
      <3>6. Return(a) \/ Then(a, k \o Tail(todo[a])) BY <2>2, <3>4 DEF DemoSnapshot
      <3>7. k \o Tail(todo[a]) \in Seq(CallType) BY <1>5, <3>5
      <3> QED BY <1>5, <3>6, <3>7 DEF Then, Return
    <2>3. CASE DemoProject(a)
      <3>1. Call(a).op = "demo_project" BY <2>3, FileSound DEF DemoProject
      <3>2. Call(a).name \in Projects /\ Call(a).source \in Sources BY <1>2, <3>1, CallSays
      <3>3. NewProject(Call(a).name, Call(a).source) \in CallType
        BY <3>2, OtherCallIs DEF CallType
      <3>4. PICK c : c = NewProject(Call(a).name, Call(a).source) OBVIOUS
      <3>5. Then(a, <<c>> \o Tail(todo[a])) \/ Then(a, Tail(todo[a])) \/ Then(a, <<>>)
        BY <2>3, <3>4 DEF DemoProject
      <3>6. <<c>> \o Tail(todo[a]) \in Seq(CallType) /\ <<>> \in Seq(CallType) BY <1>5, <3>3, <3>4
      <3> QED BY <1>5, <3>5, <3>6 DEF Then
    <2> QED BY <2>1, <2>2, <2>3
  <1> QED BY <1>2, <1>3, <1>4, <1>5, <1>6, NoSaveStep

(***************************************************************************)
(* Crashes, followers, and the theorem                                     *)
(***************************************************************************)

LEMMA CrashStep ==
  ASSUME HomesInv, NEW a \in Actors, Crash(a)
  PROVE  HomesInv'
  <1> DEFINE gone == IF a = Studio THEN {Studio, Thread} ELSE {a}
  <1>1. /\ file' = file
        /\ todo' = [b \in Actors |-> IF b \in gone THEN <<>> ELSE todo[b]]
        /\ saving' = [b \in Actors |-> IF b \in gone THEN "no" ELSE saving[b]]
        /\ base' = [b \in Actors |-> IF b \in gone THEN Absent ELSE base[b]]
        /\ copy' = [b \in Actors |-> IF b \in gone THEN Absent ELSE copy[b]]
        /\ mem' = [b \in Actors |-> IF b \in gone THEN Blank ELSE mem[b]]
        /\ rescue' = [b \in Actors |-> IF b \in gone THEN <<>> ELSE rescue[b]]
    BY DEF Crash
  <1> HIDE DEF gone
  <1>2. Lists' BY <1>1 DEF HomesInv, Lists, Rescues
  <1>3. Places' BY <1>1 DEF HomesInv, Places
  <1>4. ASSUME NEW b \in Actors PROVE Mine(b)'
    <2>1. CASE b \in gone
      <3>1. Memory(Blank) BY CatalogAssumption DEF Memory, MemFields, Blank
      <3>2. mem'[b] = Blank /\ saving'[b] = "no" /\ base'[b] = Absent BY <1>1, <2>1
      <3> QED BY <3>1, <3>2 DEF Mine, Memory
    <2>2. CASE b \notin gone BY <1>1, <2>2, OthersMine DEF HomesInv
    <2> QED BY <2>1, <2>2
  <1>5. Readable(file)' => Sound(file)' BY <1>1 DEF HomesInv, Readable
  <1> QED BY <1>2, <1>3, <1>4, <1>5 DEF HomesInv

LEMMA HomesStay ==
  ASSUME HomesInv, UNCHANGED <<file, todo, rescue, mem, base, copy, saving>>
  PROVE  HomesInv'
  <1>1. ASSUME NEW b \in Actors PROVE Mine(b)' BY OthersMine DEF HomesInv
  <1>2. Lists' BY DEF HomesInv, Lists
  <1>3. Places' BY DEF HomesInv, Places
  <1>4. Readable(file)' => Sound(file)' BY DEF HomesInv, Readable
  <1> QED BY <1>1, <1>2, <1>3, <1>4 DEF HomesInv

LEMMA InitHomes == ASSUME Init PROVE HomesInv
  <1>1. Lists BY DEF Init, Lists, Rescues
  <1>2. Places BY DEF Init, Places
  <1>3. ASSUME NEW a \in Actors PROVE Mine(a)
    <2>1. Memory(Blank) BY CatalogAssumption DEF Memory, MemFields, Blank
    <2> QED BY <2>1 DEF Init, Mine
  <1>4. Sound(NewCatalog) BY CatalogAssumption DEF Sound, CatalogFields, NewCatalog, Homes
  <1>5. Sound(Stocked)
    <2>1. PICK first \in Sources : first = CHOOSE s \in Sources : TRUE BY CatalogAssumption
    <2>2. /\ DOMAIN Stocked = CatalogFields
          /\ Stocked.sources = [s \in Sources |->
               IF s = first THEN [level |-> 0, overlay |-> Absent, bound |-> TRUE] ELSE Absent]
          /\ Stocked.projects = [p \in Projects |->
               [source |-> first, snapshot |-> 1, target |-> CHOOSE t \in Targets : TRUE,
                loaded |-> Absent]]
      BY <2>1 DEF Stocked, CatalogFields
    <2>3. [level |-> 0, overlay |-> Absent, bound |-> TRUE] \in SourceConfig
      BY CatalogAssumption DEF SourceConfig
    <2>4. [level |-> 0, overlay |-> Absent, bound |-> TRUE] # Absent BY <2>3, CatalogAssumption
    <2>5. Stocked.sources \in [Sources -> SourceConfig \cup {Absent}] BY <2>2, <2>3
    <2>6. Homes(Stocked) BY <2>2, <2>4 DEF Homes, ProjectFields
    <2> QED BY <2>2, <2>5, <2>6 DEF Sound
  <1>6. Sound(file) BY <1>4, <1>5 DEF Init
  <1> QED BY <1>1, <1>2, <1>3, <1>6 DEF HomesInv

LEMMA NextHomes == ASSUME HomesInv, [Next]_vars PROVE HomesInv'
  <1>1. ASSUME NEW a \in Actors, Begin(a) PROVE HomesInv' BY <1>1, BeginStep
  <1>2. ASSUME NEW a \in Actors, Step(a) PROVE HomesInv'
    BY <1>2, MethodStep, GoOnStep, BranchStep, SpawnStep, DemoStep DEF Step
  <1>3. ASSUME NEW a \in Actors, Crash(a) PROVE HomesInv' BY <1>3, CrashStep
  <1>4. CASE Poll BY <1>4, HomesStay DEF Poll
  <1>5. CASE Follow BY <1>5, HomesStay DEF Follow, Followed, catalogVars
  <1>6. CASE Stream
    <2>1. CASE StreamTakes BY <2>1, HomesStay DEF StreamTakes, Followed, catalogVars
    <2>2. CASE StreamLooks BY <2>2, HomesStay DEF StreamLooks
    <2> QED BY <1>6, <2>1, <2>2 DEF Stream
  <1>7. CASE UNCHANGED vars BY <1>7, HomesStay DEF vars, catalogVars
  <1> QED BY <1>1, <1>2, <1>3, <1>4, <1>5, <1>6, <1>7 DEF Next

(* A project that can be read has its source (remove_source refuses or     *)
(* cascades, create_project looks for it), whatever managers, crashes and  *)
(* torn writes make of the file.                                           *)
THEOREM ProjectsKeepSources == Spec => []ProjectsHaveSources
  <1>1. Init => HomesInv BY InitHomes
  <1>2. HomesInv /\ [Next]_vars => HomesInv' BY NextHomes
  <1>3. HomesInv => ProjectsHaveSources BY DEF HomesInv, Sound, Homes, ProjectsHaveSources
  <1> QED BY <1>1, <1>2, <1>3, PTL DEF Spec

(***************************************************************************)
(* What the records say                                                    *)
(***************************************************************************)

OfLoad(c) == c.op \in {"start_load", "run", "running", "spawn", "migrate", "set_loaded_mapping"}
OfDemo(c) == c.op \in {"demo_source", "demo_snapshot", "demo_project"}
Runs(c) == c.op \in {"run", "running"}
Completed(c) == c.op = "complete_load" /\ c.status = "completed"
Sets(c) == c.op = "set_loaded_mapping"

(* Calls that put nothing on record as loaded.                             *)
Harmless == OtherCalls \cup {Complete("failed")}

(* The lists that load: each call about a load comes after what it needs,  *)
(* all are about one project.                                              *)
Chain(a, l) ==
  /\ \A i \in DOMAIN l :
       /\ ~OfDemo(l[i])
       /\ l[i].op = "spawn" => i = Len(l)
       /\ l[i].op = "load_config" => a # Thread
       /\ i > 1 /\ Completed(l[i]) => Runs(l[i - 1])
       /\ i > 1 /\ Sets(l[i]) => l[i - 1].op = "migrate" \/ (Completed(l[i - 1]) /\ a = Thread)
  /\ \A i, j \in DOMAIN l : OfLoad(l[i]) /\ OfLoad(l[j]) => l[i].name = l[j].name
Flow(a, l) == l \in Seq(Harmless) \/ Chain(a, l)

(* What has returned, for what is about to be recorded; prj has the        *)
(* project of each load that was ever started.                             *)
HasReturned(m, p) == \E r \in returned : r.project = p /\ r.mapping = m.mapping /\ ~r.dry
Ready(a, l, m, prj) ==
  /\ m.load \in Nat /\ m.load < clock
  /\ l # <<>> =>
       /\ Completed(l[1]) => \E r \in returned : r.load = m.load /\ r.project = prj[m.load]
       /\ Sets(l[1]) => HasReturned(m, l[1].name)
       /\ Len(l) > 1 /\ Completed(l[1]) /\ Sets(l[2]) => HasReturned(m, l[2].name)
  /\ \A i \in DOMAIN l :
       /\ Runs(l[i]) \/ l[i].op = "spawn" =>
            prj[m.load] = l[i].name \/ \E j \in DOMAIN l : j < i /\ l[j].op = "start_load"
       /\ a = Thread /\ Sets(l[i]) => ~m.dry

(* A catalog that somebody holds says nothing untrue of loads.             *)
Told(c, prj) ==
  /\ c.history \subseteq LoadRecord
  /\ \A r \in c.history :
       /\ r.id < clock /\ prj[r.id] = r.project
       /\ r.status = "completed" => \E l \in returned : l.load = r.id /\ l.project = r.project
  /\ \A p \in Projects : c.projects[p] # Absent /\ c.projects[p].loaded # Absent =>
       \E l \in returned : l.project = p /\ l.mapping = c.projects[p].loaded /\ ~l.dry

Telling(a, prj) ==
  /\ saving[a] # "no" => Told(copy[a], prj)
  /\ saving[a] = "no" /\ base[a] # Absent => Told(base[a], prj)
  /\ Flow(a, todo[a]) /\ Ready(a, todo[a], mem[a], prj)
TrueInv(prj) ==
  /\ clock \in Nat /\ prj \in [Nat -> Projects \cup {Absent}]
  /\ Readable(file) => Told(file, prj)
  /\ \A a \in Actors : Telling(a, prj)

(* What a step may do to the project of a load, and to what has returned.  *)
Grown(prj, q) ==
  /\ q \in [Nat -> Projects \cup {Absent}] /\ \A n \in Nat : n < clock => q[n] = prj[n]
  /\ returned \subseteq returned' /\ clock' \in Nat /\ clock <= clock'

-------------------------------------------------------------------------------

LEMMA HarmlessIs ==
  /\ \A c \in Harmless : ~OfLoad(c) /\ ~Completed(c)
  /\ OtherCalls \subseteq Harmless /\ Seq(OtherCalls) \subseteq Seq(Harmless)
  /\ Harmless \subseteq CallType
  <1>1. \A c \in OtherCalls : ~OfLoad(c) /\ ~Completed(c)
    BY DEF OtherCalls, OfLoad, Completed
  <1>2. ~OfLoad(Complete("failed")) /\ ~Completed(Complete("failed"))
    BY DEF OfLoad, Completed, Complete
  <1>3. OtherCalls \subseteq Harmless BY DEF Harmless
  <1>4. Seq(OtherCalls) \subseteq Seq(Harmless) BY <1>3
  <1>5. Harmless \subseteq CallType BY LoadCallIs DEF Harmless, CallType
  <1> QED BY <1>1, <1>2, <1>3, <1>4, <1>5 DEF Harmless

LEMMA RescuesHarmless == ASSUME NEW r \in Rescues PROVE r \in Seq(Harmless)
  <1>1. Complete("failed") \in Harmless /\ Do("error") \in Harmless
    BY OtherCallIs DEF Harmless
  <1>2. <<Complete("failed")>> \in Seq(Harmless) BY <1>1
  <1>3. ThreadRescue \in Seq(Harmless) BY <1>1 DEF ThreadRescue
  <1>4. <<>> \in Seq(Harmless) OBVIOUS
  <1> QED BY <1>2, <1>3, <1>4 DEF Rescues

(* A list of harmless calls asks for nothing.                              *)
LEMMA ReadyHarmless ==
  ASSUME NEW a, NEW l \in Seq(Harmless), NEW m, m.load \in Nat, m.load < clock, NEW prj
  PROVE  Flow(a, l) /\ Ready(a, l, m, prj)
  <1>1. \A i \in DOMAIN l : ~OfLoad(l[i]) /\ ~Completed(l[i])
    BY HarmlessIs
  <1>2. \A i \in DOMAIN l : ~Runs(l[i]) /\ l[i].op # "spawn" /\ ~Sets(l[i])
    BY <1>1 DEF OfLoad, Runs, Sets
  <1>3. l # <<>> => 1 \in DOMAIN l OBVIOUS
  <1>4. Len(l) > 1 => 2 \in DOMAIN l OBVIOUS
  <1> QED BY <1>1, <1>2, <1>3, <1>4 DEF Flow, Ready

(* Going on with the list.                                                 *)
LEMMA TailIs ==
  ASSUME NEW S, NEW l \in Seq(S), l # <<>>
  PROVE  /\ Tail(l) \in Seq(S) /\ Len(l) > 0 /\ Len(Tail(l)) = Len(l) - 1
         /\ \A i \in DOMAIN Tail(l) : i + 1 \in DOMAIN l /\ Tail(l)[i] = l[i + 1] /\ i \in Nat \ {0}
         /\ \A i \in DOMAIN l : i > 1 => i - 1 \in DOMAIN Tail(l)
         /\ Head(l) = l[1] /\ DOMAIN l = 1 .. Len(l) /\ 1 \in DOMAIN l /\ Len(l) \in Nat
  OBVIOUS

LEMMA ChainTail ==
  ASSUME NEW a, NEW l \in Seq(CallType), l # <<>>, Chain(a, l)
  PROVE  Chain(a, Tail(l))
  <1>1. \A i \in DOMAIN Tail(l) : i + 1 \in DOMAIN l /\ Tail(l)[i] = l[i + 1] /\ i \in Nat \ {0}
    BY TailIs
  <1>2. Len(Tail(l)) = Len(l) - 1 /\ Len(l) \in Nat BY TailIs
  <1>3. ASSUME NEW i \in DOMAIN Tail(l)
        PROVE  /\ ~OfDemo(Tail(l)[i])
               /\ Tail(l)[i].op = "spawn" => i = Len(Tail(l))
               /\ Tail(l)[i].op = "load_config" => a # Thread
    BY <1>1, <1>2 DEF Chain
  <1>4. ASSUME NEW i \in DOMAIN Tail(l), i > 1
        PROVE  /\ Completed(Tail(l)[i]) => Runs(Tail(l)[i - 1])
               /\ Sets(Tail(l)[i]) => \/ Tail(l)[i - 1].op = "migrate"
                                      \/ Completed(Tail(l)[i - 1]) /\ a = Thread
    <2>1. i - 1 \in DOMAIN Tail(l) /\ i \in Nat BY <1>4, TailIs
    <2>2. Tail(l)[i] = l[i + 1] /\ Tail(l)[i - 1] = l[i] /\ i + 1 \in DOMAIN l /\ (i + 1) - 1 = i
      BY <1>1, <2>1
    <2>3. i + 1 > 1 BY <2>1, <1>4
    <2> QED BY <2>2, <2>3 DEF Chain
  <1>5. \A i, j \in DOMAIN Tail(l) :
          OfLoad(Tail(l)[i]) /\ OfLoad(Tail(l)[j]) => Tail(l)[i].name = Tail(l)[j].name
    BY <1>1 DEF Chain
  <1> QED BY <1>3, <1>4, <1>5 DEF Chain

LEMMA FlowTail ==
  ASSUME NEW a, NEW l \in Seq(CallType), l # <<>>, Flow(a, l)
  PROVE  Flow(a, Tail(l))
  <1>1. CASE l \in Seq(Harmless)
    <2>1. Tail(l) \in Seq(Harmless) BY <1>1
    <2> QED BY <2>1 DEF Flow
  <1>2. CASE Chain(a, l) BY <1>2, ChainTail DEF Flow
  <1> QED BY <1>1, <1>2 DEF Flow

(* A call that neither loads nor migrates leaves the rest as ready as it   *)
(* was.                                                                    *)
LEMMA ReadyTail ==
  ASSUME NEW a, NEW l \in Seq(CallType), l # <<>>, Flow(a, l), NEW m, NEW prj, Ready(a, l, m, prj),
         NEW k, k.load = m.load,
         (k.mapping = m.mapping /\ k.dry = m.dry) \/ l[1].op = "load_config",
         ~Runs(l[1]), l[1].op # "start_load", l[1].op # "migrate"
  PROVE  Flow(a, Tail(l)) /\ Ready(a, Tail(l), k, prj)
  <1>0. k.load \in Nat /\ k.load < clock BY DEF Ready
  <1>1. CASE l \in Seq(Harmless)
    <2>1. Tail(l) \in Seq(Harmless) BY <1>1
    <2> QED BY <1>0, <2>1, ReadyHarmless
  <1>2. CASE Chain(a, l)
    <2> DEFINE t == Tail(l)
    <2>1. /\ \A i \in DOMAIN t : i + 1 \in DOMAIN l /\ t[i] = l[i + 1] /\ i \in Nat \ {0}
          /\ \A i \in DOMAIN l : i > 1 => i - 1 \in DOMAIN t
          /\ Len(t) = Len(l) - 1 /\ Len(l) \in Nat /\ DOMAIN l = 1 .. Len(l) /\ DOMAIN t = 1 .. Len(t)
      BY TailIs
    <2>2. t # <<>> => 1 \in DOMAIN t /\ 2 \in DOMAIN l /\ t[1] = l[2]
      <3>1. t \in Seq(CallType) BY TailIs
      <3>2. ASSUME t # <<>> PROVE 1 \in DOMAIN t BY <3>1, <3>2
      <3> QED BY <2>1, <3>2
    <2> HIDE DEF t
    <2>3. t # <<>> => ~Completed(t[1])
      <3> SUFFICES ASSUME t # <<>>, Completed(l[2]) PROVE FALSE BY <2>2
      <3>1. Runs(l[2 - 1]) BY <1>2, <2>2 DEF Chain
      <3> QED BY <3>1
    <2>4. ASSUME t # <<>>, Sets(t[1])
          PROVE  a = Thread /\ HasReturned(k, t[1].name)
      <3>1. l[2 - 1].op = "migrate" \/ (Completed(l[2 - 1]) /\ a = Thread) BY <1>2, <2>2, <2>4 DEF Chain
      <3>2. Completed(l[1]) /\ a = Thread BY <3>1
      <3>3. Len(l) > 1 BY <2>1, <2>2, <2>4
      <3>4. HasReturned(m, l[2].name) BY <2>2, <2>4, <3>2, <3>3 DEF Ready
      <3>5. k.mapping = m.mapping BY <3>2 DEF Completed
      <3> QED BY <2>2, <2>4, <3>2, <3>4, <3>5 DEF HasReturned
    <2>5. ASSUME NEW i \in DOMAIN t, Runs(t[i]) \/ t[i].op = "spawn"
          PROVE  prj[k.load] = t[i].name \/ \E j \in DOMAIN t : j < i /\ t[j].op = "start_load"
      <3>1. i + 1 \in DOMAIN l /\ t[i] = l[i + 1] /\ i \in Nat BY <2>1
      <3>2. \/ prj[m.load] = l[i + 1].name
            \/ \E j \in DOMAIN l : j < i + 1 /\ l[j].op = "start_load"
        BY <2>5, <3>1 DEF Ready
      <3>3. ASSUME NEW j \in DOMAIN l, j < i + 1, l[j].op = "start_load"
            PROVE  \E n \in DOMAIN t : n < i /\ t[n].op = "start_load"
        <4>1. j \in Nat /\ j > 1 BY <2>1, <3>3
        <4>2. j - 1 \in DOMAIN t /\ j - 1 < i /\ t[j - 1] = l[(j - 1) + 1] /\ (j - 1) + 1 = j
          BY <2>1, <3>1, <3>3, <4>1
        <4> QED BY <3>3, <4>2
      <3> QED BY <3>1, <3>2, <3>3
    <2>6. ASSUME NEW i \in DOMAIN t, a = Thread, Sets(t[i]) PROVE ~k.dry
      <3>1. i + 1 \in DOMAIN l /\ t[i] = l[i + 1] BY <2>1
      <3>2. ~m.dry BY <2>6, <3>1 DEF Ready
      <3>3. 1 \in DOMAIN l BY <2>1, <3>1
      <3>4. l[1].op # "load_config" BY <1>2, <2>6, <3>3 DEF Chain
      <3> QED BY <3>2, <3>4
    <2>7. Ready(a, t, k, prj) BY <1>0, <2>3, <2>4, <2>5, <2>6 DEF Ready
    <2> QED BY <2>7, FlowTail DEF t
  <1> QED BY <1>1, <1>2 DEF Flow

LEMMA ToldStay ==
  ASSUME NEW c, NEW prj, NEW q, clock \in Nat, Told(c, prj), Grown(prj, q)
  PROVE  Told(c, q)'
  <1>1. c.history \subseteq LoadRecord BY DEF Told
  <1>2. ASSUME NEW r \in c.history
        PROVE  /\ r.id < clock' /\ q[r.id] = r.project
               /\ r.status = "completed" => \E l \in returned' : l.load = r.id /\ l.project = r.project
    <2>1. r.id \in Nat BY <1>1 DEF LoadRecord
    <2>2. r.id < clock /\ prj[r.id] = r.project BY DEF Told
    <2>3. q[r.id] = prj[r.id] /\ r.id < clock' BY <2>1, <2>2 DEF Grown
    <2> QED BY <2>2, <2>3 DEF Told, Grown
  <1>3. \A p \in Projects : c.projects[p] # Absent /\ c.projects[p].loaded # Absent =>
          \E l \in returned' : l.project = p /\ l.mapping = c.projects[p].loaded /\ ~l.dry
    BY DEF Told, Grown
  <1> QED BY <1>1, <1>2, <1>3 DEF Told

LEMMA ReadyStay ==
  ASSUME NEW a, NEW l \in Seq(CallType), NEW m, NEW prj, NEW q, clock \in Nat,
         Ready(a, l, m, prj), Grown(prj, q)
  PROVE  Ready(a, l, m, q)'
  <1>1. m.load \in Nat /\ m.load < clock /\ q[m.load] = prj[m.load] BY DEF Ready, Grown
  <1>2. m.load < clock' BY <1>1 DEF Grown
  <1>3. \A p : HasReturned(m, p) => \E r \in returned' : r.project = p /\ r.mapping = m.mapping /\ ~r.dry
    BY DEF HasReturned, Grown
  <1>4. ASSUME l # <<>>
        PROVE  /\ Completed(l[1]) => \E r \in returned' : r.load = m.load /\ r.project = q[m.load]
               /\ Sets(l[1]) => \E r \in returned' : r.project = l[1].name /\ r.mapping = m.mapping /\ ~r.dry
               /\ Len(l) > 1 /\ Completed(l[1]) /\ Sets(l[2]) =>
                    \E r \in returned' : r.project = l[2].name /\ r.mapping = m.mapping /\ ~r.dry
    BY <1>1, <1>3, <1>4 DEF Ready, Grown
  <1>5. \A i \in DOMAIN l :
          /\ Runs(l[i]) \/ l[i].op = "spawn" =>
               q[m.load] = l[i].name \/ \E j \in DOMAIN l : j < i /\ l[j].op = "start_load"
          /\ a = Thread /\ Sets(l[i]) => ~m.dry
    BY <1>1 DEF Ready
  <1> QED BY <1>1, <1>2, <1>4, <1>5 DEF Ready, HasReturned

LEMMA OthersTelling ==
  ASSUME HomesInv, clock \in Nat, NEW prj, NEW q, Grown(prj, q), NEW b \in Actors, Telling(b, prj),
         todo'[b] = todo[b], mem'[b] = mem[b], base'[b] = base[b], copy'[b] = copy[b],
         saving'[b] = saving[b]
  PROVE  Telling(b, q)'
  <1>1. PICK c, d, l, m : c = copy[b] /\ d = base[b] /\ l = todo[b] /\ m = mem[b] OBVIOUS
  <1>2. l \in Seq(CallType) BY <1>1 DEF HomesInv, Lists
  <1>3. Ready(b, l, m, prj) /\ Flow(b, l) BY <1>1 DEF Telling
  <1>4. Ready(b, l, m, q)' BY <1>2, <1>3, ReadyStay
  <1>5. Told(c, prj) => Told(c, q)' BY ToldStay
  <1>6. Told(d, prj) => Told(d, q)' BY ToldStay
  <1>7. Ready(b, todo[b], mem[b], q)' BY <1>1, <1>4 DEF Ready, HasReturned
  <1>8. Told(copy[b], prj) => Told(copy[b], q)' BY <1>1, <1>5 DEF Told
  <1>9. Told(base[b], prj) => Told(base[b], q)' BY <1>1, <1>6 DEF Told
  <1> QED BY <1>3, <1>1, <1>7, <1>8, <1>9 DEF Telling

LEMMA FileTold ==
  ASSUME clock \in Nat, NEW prj, NEW q, Grown(prj, q), file' = file, Readable(file) => Told(file, prj)
  PROVE  Readable(file)' => Told(file, q)'
  <1>1. PICK f : f = file OBVIOUS
  <1>2. Told(f, prj) => Told(f, q)' BY ToldStay
  <1>3. Readable(file)' => Told(f, prj) BY <1>1 DEF Readable
  <1> QED BY <1>1, <1>2, <1>3 DEF Told

(* A step that does not begin to save.                                     *)
LEMMA TrueNoSave ==
  ASSUME HomesInv, NEW prj, TrueInv(prj), NEW q, Grown(prj, q), NEW a \in Actors,
         saving[a] = "no", base[a] = Absent, file' = file, NoSave,
         NEW l \in Seq(CallType), todo' = [todo EXCEPT ![a] = l],
         NEW m, mem' = [mem EXCEPT ![a] = m],
         Flow(a, l), Ready(a, l, m, q)'
  PROVE  TrueInv(q)'
  <1>0. clock \in Nat BY DEF TrueInv
  <1>1. clock' \in Nat /\ q \in [Nat -> Projects \cup {Absent}] BY DEF Grown
  <1>2. Readable(file)' => Told(file, q)' BY <1>0, FileTold DEF TrueInv
  <1>3. ASSUME NEW b \in Actors PROVE Telling(b, q)'
    <2>1. CASE b # a
      <3>1. todo'[b] = todo[b] /\ mem'[b] = mem[b] BY <2>1 DEF HomesInv, Lists, Places
      <3>2. base'[b] = base[b] /\ copy'[b] = copy[b] /\ saving'[b] = saving[b] BY DEF NoSave
      <3> QED BY <1>0, <3>1, <3>2, OthersTelling DEF TrueInv
    <2>2. CASE b = a
      <3>1. todo'[b] = l /\ mem'[b] = m /\ saving'[b] = "no" /\ base'[b] = Absent
        BY <2>2 DEF NoSave, HomesInv, Places, Lists
      <3>2. Ready(b, todo[b], mem[b], q)' BY <2>2, <3>1 DEF Ready, HasReturned
      <3>3. Flow(b, todo[b])' BY <2>2, <3>1 DEF Flow, Chain
      <3> QED BY <3>1, <3>2, <3>3 DEF Telling
    <2> QED BY <2>1, <2>2
  <1> QED BY <1>1, <1>2, <1>3 DEF TrueInv

(* A step that settles what will be written.                               *)
LEMMA TrueSave ==
  ASSUME HomesInv, NEW prj, TrueInv(prj), NEW q, Grown(prj, q), NEW a \in Actors, file' = file,
         NEW c, Told(c, q)', copy' = [copy EXCEPT ![a] = c],
         saving' = [saving EXCEPT ![a] = "truncate"],
         base' = [base EXCEPT ![a] = base'[a]],
         NEW m, mem' = [mem EXCEPT ![a] = m],
         NEW l \in Seq(CallType), todo' = [todo EXCEPT ![a] = l],
         Flow(a, l), Ready(a, l, m, q)'
  PROVE  TrueInv(q)'
  <1>0. clock \in Nat BY DEF TrueInv
  <1>1. clock' \in Nat /\ q \in [Nat -> Projects \cup {Absent}] BY DEF Grown
  <1>2. Readable(file)' => Told(file, q)' BY <1>0, FileTold DEF TrueInv
  <1>3. ASSUME NEW b \in Actors PROVE Telling(b, q)'
    <2>1. CASE b # a
      <3>1. todo'[b] = todo[b] /\ mem'[b] = mem[b]
        BY <2>1 DEF HomesInv, Lists, Places
      <3>2. base'[b] = base[b] /\ copy'[b] = copy[b] /\ saving'[b] = saving[b]
        BY <2>1 DEF HomesInv, Places
      <3> QED BY <1>0, <3>1, <3>2, OthersTelling DEF TrueInv
    <2>2. CASE b = a
      <3>1. mem'[b] = m /\ saving'[b] = "truncate" /\ copy'[b] = c /\ todo'[b] = l
        BY <2>2 DEF HomesInv, Places, Lists
      <3>2. Ready(b, todo[b], mem[b], q)' BY <2>2, <3>1 DEF Ready, HasReturned
      <3>3. Flow(b, todo[b])' BY <2>2, <3>1 DEF Flow, Chain
      <3>4. Told(copy[b], q)' BY <3>1 DEF Told
      <3> QED BY <3>1, <3>2, <3>3, <3>4 DEF Telling
    <2> QED BY <2>1, <2>2
  <1> QED BY <1>1, <1>2, <1>3 DEF TrueInv

(* The calls about a load, of which three look at nobody's records.        *)
Routine(c) == ~Runs(c) /\ c.op # "start_load" /\ c.op # "migrate"

LEMMA NoGrowth ==
  ASSUME NEW prj, TrueInv(prj), returned' = returned, clock' \in Nat, clock <= clock'
  PROVE  Grown(prj, prj)
  BY DEF TrueInv, Grown

(* A step that ends a call and saves nothing.                              *)
LEMMA TrueEnd ==
  ASSUME HomesInv, NEW prj, TrueInv(prj), NEW a \in Actors, NEW op, Calls(a, op), base[a] = Absent,
         file' = file, NoSave, clock' = clock, returned' = returned,
         (Routine(Call(a)) /\ Return(a)) \/ \E r \in Rescues : Then(a, r),
         NEW m, mem' = [mem EXCEPT ![a] = m], m.load = mem[a].load,
         (m.mapping = mem[a].mapping /\ m.dry = mem[a].dry) \/ op = "load_config"
  PROVE  TrueInv(prj)'
  <1>0. saving[a] = "no" /\ todo[a] # <<>> BY DEF Calls
  <1>1. Grown(prj, prj) BY NoGrowth DEF TrueInv
  <1>2. PICK l : l = todo[a] OBVIOUS
  <1>3. l \in Seq(CallType) /\ l # <<>> /\ l[1] = Call(a) /\ l[1].op = op
    <2>1. l \in Seq(CallType) /\ l # <<>> BY <1>0, <1>2 DEF HomesInv, Lists
    <2>2. Head(l) = l[1] BY <2>1
    <2> QED BY <1>2, <2>1, <2>2 DEF Call, Calls
  <1>4. PICK n : n = mem[a] OBVIOUS
  <1>5. Flow(a, l) /\ Ready(a, l, n, prj) BY <1>2, <1>4 DEF TrueInv, Telling
  <1>6. n.load \in Nat /\ n.load < clock /\ clock \in Nat BY <1>5 DEF Ready, TrueInv
  <1>7. CASE Routine(Call(a)) /\ Return(a)
    <2>1. Flow(a, Tail(l)) /\ Ready(a, Tail(l), m, prj)
      BY <1>3, <1>4, <1>5, <1>7, ReadyTail DEF Routine
    <2>2. PICK t : t = Tail(l) OBVIOUS
    <2>3. t \in Seq(CallType) BY <1>3, <2>2
    <2>4. Ready(a, t, m, prj)' BY <1>1, <1>6, <2>1, <2>2, <2>3, ReadyStay
    <2>5. todo' = [todo EXCEPT ![a] = t] BY <1>2, <1>7, <2>2 DEF Return, Then
    <2> QED BY <1>0, <1>1, <2>1, <2>2, <2>3, <2>4, <2>5, TrueNoSave
  <1>8. CASE \E r \in Rescues : Then(a, r)
    <2>1. PICK t \in Rescues : todo' = [todo EXCEPT ![a] = t] BY <1>8 DEF Then
    <2>2. t \in Seq(Harmless) /\ t \in Seq(CallType) BY RescuesHarmless, RescuesTyped
    <2>3. Flow(a, t) /\ Ready(a, t, m, prj) BY <1>4, <1>6, <2>2, ReadyHarmless
    <2>4. Ready(a, t, m, prj)' BY <1>1, <1>6, <2>2, <2>3, ReadyStay
    <2> QED BY <1>0, <1>1, <2>1, <2>2, <2>3, <2>4, TrueNoSave
  <1> QED BY <1>7, <1>8

(* A step that ends a routine call and settles what will be written.       *)
LEMMA TrueSaveEnd ==
  ASSUME HomesInv, NEW prj, TrueInv(prj), NEW a \in Actors, NEW op, Calls(a, op),
         Routine(Call(a)), Return(a), file' = file, clock' \in Nat, clock <= clock',
         returned' = returned,
         NEW c, Told(c, prj), copy' = [copy EXCEPT ![a] = c],
         saving' = [saving EXCEPT ![a] = "truncate"], base' = [base EXCEPT ![a] = base'[a]],
         NEW m, mem' = [mem EXCEPT ![a] = m], m.load = mem[a].load,
         m.mapping = mem[a].mapping, m.dry = mem[a].dry
  PROVE  TrueInv(prj)'
  <1>0. saving[a] = "no" /\ todo[a] # <<>> BY DEF Calls
  <1>1. Grown(prj, prj) BY NoGrowth
  <1>2. PICK l : l = todo[a] OBVIOUS
  <1>3. l \in Seq(CallType) /\ l # <<>> /\ l[1] = Call(a) /\ l[1].op = op
    <2>1. l \in Seq(CallType) /\ l # <<>> BY <1>0, <1>2 DEF HomesInv, Lists
    <2>2. Head(l) = l[1] BY <2>1
    <2> QED BY <1>2, <2>1, <2>2 DEF Call, Calls
  <1>4. PICK n : n = mem[a] OBVIOUS
  <1>5. Flow(a, l) /\ Ready(a, l, n, prj) /\ clock \in Nat BY <1>2, <1>4 DEF TrueInv, Telling
  <1>6. Flow(a, Tail(l)) /\ Ready(a, Tail(l), m, prj)
    BY <1>3, <1>4, <1>5, ReadyTail DEF Routine
  <1>7. PICK t : t = Tail(l) OBVIOUS
  <1>8. t \in Seq(CallType) BY <1>3, <1>7
  <1>9. Ready(a, t, m, prj)' BY <1>1, <1>5, <1>6, <1>7, <1>8, ReadyStay
  <1>10. todo' = [todo EXCEPT ![a] = t] BY <1>2, <1>7 DEF Return, Then
  <1>11. Told(c, prj)' BY <1>1, <1>5, ToldStay
  <1> QED BY <1>1, <1>6, <1>7, <1>8, <1>9, <1>10, <1>11, TrueSave

(* A catalog that says of loads nothing another did not.                   *)
Inherits(c, f) ==
  /\ c.history \subseteq f.history
  /\ \A p \in Projects : c.projects[p] # Absent /\ c.projects[p].loaded # Absent =>
       f.projects[p] # Absent /\ c.projects[p].loaded = f.projects[p].loaded

LEMMA ToldInherits ==
  ASSUME NEW c, NEW f, Inherits(c, f), NEW prj, Told(f, prj)
  PROVE  Told(c, prj)
  BY DEF Inherits, Told

LEMMA InheritsElsewhere ==
  ASSUME NEW f, Sound(f), NEW v
  PROVE  /\ Inherits([f EXCEPT !.sources = v], f) /\ Inherits([f EXCEPT !.snapshots = v], f)
         /\ Inherits([f EXCEPT !.targets = v], f) /\ Inherits([f EXCEPT !.providers = v], f)
         /\ Inherits(f, f)
  BY DEF Sound, CatalogFields, Inherits

LEMMA InheritsProject ==
  ASSUME NEW f, Sound(f), NEW p \in Projects, NEW v,
         v # Absent /\ v.loaded # Absent => f.projects[p] # Absent /\ v.loaded = f.projects[p].loaded
  PROVE  Inherits([f EXCEPT !.projects[p] = v], f)
  <1> DEFINE c == [f EXCEPT !.projects[p] = v]
  <1>1. c.history = f.history /\ c.projects = [f.projects EXCEPT ![p] = v] BY DEF Sound, CatalogFields
  <1> HIDE DEF c
  <1>2. Inherits(c, f) BY <1>1 DEF Sound, Inherits
  <1> QED BY <1>2 DEF c

LEMMA InheritsWithoutSource ==
  ASSUME Sound(file), NEW s
  PROVE  Inherits(WithoutSource(s), file)
  <1> DEFINE c == WithoutSource(s)
  <1>1. /\ c.history \subseteq file.history
        /\ c.projects = [p \in Projects |->
                           IF p \in DependentProjects(s) THEN Absent ELSE file.projects[p]]
    BY DEF Sound, CatalogFields, WithoutSource
  <1> HIDE DEF c
  <1>2. Inherits(c, file) BY <1>1 DEF Inherits
  <1> QED BY <1>2 DEF c

(* What an actor remembers of its load.                                    *)
SameLoad(a, m) == m.load = mem[a].load /\ m.mapping = mem[a].mapping /\ m.dry = mem[a].dry

LEMMA SameLoadIs ==
  ASSUME HomesInv, NEW a \in Actors
  PROVE  /\ SameLoad(a, mem[a])
         /\ \A v : /\ SameLoad(a, [mem[a] EXCEPT !.source = v])
                   /\ SameLoad(a, [mem[a] EXCEPT !.snapshot = v])
                   /\ SameLoad(a, [mem[a] EXCEPT !.project = v])
                   /\ SameLoad(a, [mem[a] EXCEPT !.accept = v])
                   /\ SameLoad(a, [mem[a] EXCEPT !.level = v])
                   /\ [mem[a] EXCEPT !.load = v].mapping = mem[a].mapping
                   /\ [mem[a] EXCEPT !.load = v].dry = mem[a].dry
                   /\ [mem[a] EXCEPT !.load = v].load = v
         /\ \A v, w : [mem[a] EXCEPT !.mapping = v, !.dry = w].load = mem[a].load
  <1>1. Memory(mem[a]) BY DEF HomesInv, Mine
  <1> QED BY <1>1 DEF Memory, MemFields, SameLoad

(* The methods that have nothing to say of loads: what they write, they    *)
(* have read.                                                              *)
Inheriting(a) ==
  \E op : /\ Reads(a, op) /\ op # "create_project" /\ Routine(Call(a)) /\ file' = file
          /\ \E m : SameLoad(a, m) /\ mem' = [mem EXCEPT ![a] = m]
          /\ \/ /\ NoSave /\ clock' = clock
                /\ Return(a) \/ \E r \in Rescues : Then(a, r)
             \/ /\ clock' \in {clock, clock + 1}
                /\ \E c : Inherits(c, file) /\ Save(a, c)

LEMMA Ways ==
  ASSUME HomesInv, NEW a \in Actors, todo[a] # <<>>
  PROVE  /\ Stop(a) => \E r \in Rescues : Then(a, r)
         /\ Raise(a) => \E r \in Rescues : Then(a, r)
         /\ mem' = mem => \E m : SameLoad(a, m) /\ mem' = [mem EXCEPT ![a] = m]
         /\ \A c : Save(a, c) => base' = [base EXCEPT ![a] = base'[a]]
  <1>1. <<>> \in Rescues /\ rescue[a] \in Rescues BY Endings
  <1>2. mem = [mem EXCEPT ![a] = mem[a]] /\ SameLoad(a, mem[a]) BY SameMemory, SameLoadIs
  <1>3. \A c : Save(a, c) => base' = [base EXCEPT ![a] = base'[a]] BY DEF Save, HomesInv, Places
  <1>4. Stop(a) => \E r \in Rescues : Then(a, r) BY <1>1 DEF Stop
  <1>5. Raise(a) => \E r \in Rescues : Then(a, r) BY <1>1 DEF Raise
  <1>6. mem' = mem => \E m : SameLoad(a, m) /\ mem' = [mem EXCEPT ![a] = m] BY <1>2
  <1> QED BY <1>3, <1>4, <1>5, <1>6

LEMMA SourcesInherit ==
  ASSUME HomesInv, NEW a \in Actors,
         GetSource(a) \/ AddSource(a) \/ UpdateSource(a) \/ RemoveSource(a)
  PROVE  Inheriting(a)
  <1>1. PICK op \in {"get_source", "add_source", "update_source", "remove_source"} : Reads(a, op)
    BY DEF GetSource, AddSource, UpdateSource, RemoveSource
  <1>2. Sound(file) /\ todo[a] # <<>> /\ Call(a).op = op BY <1>1, FileSound
  <1>3. Routine(Call(a)) BY <1>2 DEF Routine, Runs
  <1>4. file' = file /\ clock' = clock
    BY DEF GetSource, AddSource, UpdateSource, RemoveSource, Kept
  <1>5. \E m : SameLoad(a, m) /\ mem' = [mem EXCEPT ![a] = m]
    <2>1. CASE GetSource(a)
      <3>1. \/ mem' = mem
            \/ \E v : mem' = [mem EXCEPT ![a] = [mem[a] EXCEPT !.source = v]]
        BY <2>1 DEF GetSource, Learn
      <3> QED BY <1>2, <3>1, Ways, SameLoadIs
    <2>2. CASE AddSource(a) \/ UpdateSource(a) \/ RemoveSource(a)
      BY <1>2, <2>2, Ways DEF AddSource, UpdateSource, RemoveSource
    <2> QED BY <2>1, <2>2
  <1>6. \/ NoSave /\ (Return(a) \/ \E r \in Rescues : Then(a, r))
        \/ \E c : Inherits(c, file) /\ Save(a, c)
    <2>1. CASE GetSource(a) BY <1>2, <2>1, Ways DEF GetSource
    <2>2. CASE AddSource(a)
      <3>1. PICK v : \/ Raise(a) /\ NoSave
                     \/ Save(a, [file EXCEPT !.sources = v])
        BY <2>2 DEF AddSource
      <3> QED BY <1>2, <3>1, Ways, InheritsElsewhere
    <2>3. CASE UpdateSource(a)
      <3>1. PICK v : \/ Raise(a) /\ NoSave
                     \/ Save(a, [file EXCEPT !.sources = v])
        BY <2>3 DEF UpdateSource
      <3> QED BY <1>2, <3>1, Ways, InheritsElsewhere
    <2>4. CASE RemoveSource(a)
      <3>1. \/ Stop(a) /\ NoSave
            \/ Raise(a) /\ NoSave
            \/ Save(a, WithoutSource(Call(a).name))
        BY <2>4 DEF RemoveSource
      <3> QED BY <1>2, <3>1, Ways, InheritsWithoutSource
    <2> QED BY <2>1, <2>2, <2>3, <2>4
  <1> QED BY <1>1, <1>3, <1>4, <1>5, <1>6 DEF Inheriting

LEMMA SnapshotsInherit ==
  ASSUME HomesInv, NEW a \in Actors,
         GetLatestSnapshot(a) \/ CreateSnapshot(a) \/ UpdateSnapshotSchema(a)
  PROVE  Inheriting(a)
  <1>1. PICK op \in {"get_latest_snapshot", "create_snapshot", "update_snapshot_schema"} : Reads(a, op)
    BY DEF GetLatestSnapshot, CreateSnapshot, UpdateSnapshotSchema
  <1>2. Sound(file) /\ todo[a] # <<>> /\ Call(a).op = op BY <1>1, FileSound
  <1>3. Routine(Call(a)) BY <1>2 DEF Routine, Runs
  <1>4. CASE GetLatestSnapshot(a)
    <2>1. file' = file /\ clock' = clock /\ NoSave BY <1>4 DEF GetLatestSnapshot, Kept
    <2>2. \E m : SameLoad(a, m) /\ mem' = [mem EXCEPT ![a] = m]
      <3>1. \/ mem' = mem
            \/ \E v : mem' = [mem EXCEPT ![a] = [mem[a] EXCEPT !.snapshot = v]]
        BY <1>4 DEF GetLatestSnapshot, Learn
      <3> QED BY <1>2, <3>1, Ways, SameLoadIs
    <2>3. Return(a) \/ \E r \in Rescues : Then(a, r) BY <1>2, <1>4, Ways DEF GetLatestSnapshot
    <2> QED BY <1>1, <1>3, <2>1, <2>2, <2>3 DEF Inheriting
  <1>5. CASE CreateSnapshot(a)
    <2>1. PICK n : /\ Save(a, [file EXCEPT !.snapshots = @ \cup {n}])
                   /\ mem' = [mem EXCEPT ![a] = [mem[a] EXCEPT !.snapshot = n]]
                   /\ clock' = clock + 1 /\ file' = file
      BY <1>5 DEF CreateSnapshot, Learn
    <2>2. \E c : Inherits(c, file) /\ Save(a, c) BY <1>2, <2>1, InheritsElsewhere
    <2>3. \E m : SameLoad(a, m) /\ mem' = [mem EXCEPT ![a] = m] BY <2>1, SameLoadIs
    <2> QED BY <1>1, <1>3, <2>1, <2>2, <2>3 DEF Inheriting
  <1>6. CASE UpdateSnapshotSchema(a)
    <2>1. file' = file /\ clock' = clock /\ mem' = mem BY <1>6 DEF UpdateSnapshotSchema
    <2>2. PICK v : \/ Raise(a) /\ NoSave
                   \/ Save(a, [file EXCEPT !.snapshots = v])
      BY <1>6 DEF UpdateSnapshotSchema
    <2>3. \/ NoSave /\ (Return(a) \/ \E r \in Rescues : Then(a, r))
          \/ \E c : Inherits(c, file) /\ Save(a, c)
      BY <1>2, <2>2, Ways, InheritsElsewhere
    <2>4. \E m : SameLoad(a, m) /\ mem' = [mem EXCEPT ![a] = m] BY <1>2, <2>1, Ways
    <2> QED BY <1>1, <1>3, <2>1, <2>3, <2>4 DEF Inheriting
  <1> QED BY <1>4, <1>5, <1>6

LEMMA ProjectsInherit ==
  ASSUME HomesInv, NEW a \in Actors,
         GetProject(a) \/ UpdateProject(a) \/ TouchProject(a) \/ DeleteProject(a)
  PROVE  Inheriting(a)
  <1>1. PICK op \in {"get_project", "update_project", "touch_project", "delete_project"} : Reads(a, op)
    BY DEF GetProject, UpdateProject, TouchProject, DeleteProject
  <1>2. Sound(file) /\ todo[a] # <<>> /\ Call(a).op = op /\ Call(a) \in CallType BY <1>1, FileSound
  <1>3. Routine(Call(a)) /\ Call(a).name \in Projects BY <1>2, CallSays DEF Routine, Runs
  <1>4. file' = file /\ clock' = clock
    BY DEF GetProject, UpdateProject, TouchProject, DeleteProject, Same, Kept
  <1>5. \E m : SameLoad(a, m) /\ mem' = [mem EXCEPT ![a] = m]
    <2>1. CASE GetProject(a)
      <3>1. \/ mem' = mem
            \/ \E v : mem' = [mem EXCEPT ![a] = [mem[a] EXCEPT !.project = v]]
        BY <2>1 DEF GetProject, Learn
      <3> QED BY <1>2, <3>1, Ways, SameLoadIs
    <2>2. CASE UpdateProject(a) \/ TouchProject(a) \/ DeleteProject(a)
      BY <1>2, <2>2, Ways DEF UpdateProject, TouchProject, DeleteProject, Same
    <2> QED BY <2>1, <2>2
  <1>6. \/ NoSave /\ (Return(a) \/ \E r \in Rescues : Then(a, r))
        \/ \E c : Inherits(c, file) /\ Save(a, c)
    <2>1. CASE GetProject(a) BY <1>2, <2>1, Ways DEF GetProject
    <2>2. CASE UpdateProject(a)
      <3>1. CASE Raise(a) /\ NoSave BY <1>2, <3>1, Ways
      <3>2. CASE ~(Raise(a) /\ NoSave)
        <4>1. PICK p : p = file.projects[Call(a).name] OBVIOUS
        <4>2. PICK q : q = IF Call(a).snapshot THEN [p EXCEPT !.snapshot = mem[a].snapshot.id] ELSE p
          OBVIOUS
        <4>3. PICK v : v = [q EXCEPT !.target = Call(a).target] OBVIOUS
        <4>4. PICK c : c = [file EXCEPT !.projects[Call(a).name] = v] OBVIOUS
        <4>5. p # Absent /\ Save(a, c)
          BY <2>2, <3>2, <4>1, <4>2, <4>3, <4>4 DEF UpdateProject
        <4>6. DOMAIN p = ProjectFields BY <1>2, <1>3, <4>1, <4>5 DEF Sound, Homes
        <4>7. v.loaded = p.loaded BY <4>2, <4>3, <4>6 DEF ProjectFields
        <4>8. Inherits(c, file) BY <1>2, <1>3, <4>1, <4>4, <4>5, <4>7, InheritsProject
        <4> QED BY <4>5, <4>8
      <3> QED BY <3>1, <3>2
    <2>3. CASE TouchProject(a)
      <3>1. (Return(a) /\ NoSave) \/ Save(a, file) BY <2>3 DEF TouchProject
      <3> QED BY <1>2, <3>1, InheritsElsewhere
    <2>4. CASE DeleteProject(a)
      <3>1. CASE Stop(a) /\ NoSave BY <1>2, <3>1, Ways
      <3>2. CASE ~(Stop(a) /\ NoSave)
        <4>1. PICK c : c = [file EXCEPT !.projects[Call(a).name] = Absent,
                                        !.history = {r \in @ : r.project # Call(a).name}]
          OBVIOUS
        <4>2. Save(a, c) BY <2>4, <3>2, <4>1 DEF DeleteProject
        <4>3. /\ c.history \subseteq file.history
              /\ c.projects = [file.projects EXCEPT ![Call(a).name] = Absent]
          BY <1>2, <4>1 DEF Sound, CatalogFields
        <4>4. Inherits(c, file) BY <1>2, <4>3 DEF Inherits, Sound
        <4> QED BY <4>2, <4>4
      <3> QED BY <3>1, <3>2
    <2> QED BY <2>1, <2>2, <2>3, <2>4
  <1> QED BY <1>1, <1>3, <1>4, <1>5, <1>6 DEF Inheriting

LEMMA EntriesInherit ==
  ASSUME HomesInv, NEW a \in Actors, GetEntry(a) \/ AddEntry(a) \/ RemoveEntry(a)
  PROVE  Inheriting(a)
  <1>0. file' = file /\ clock' = clock /\ mem' = mem
    BY DEF GetEntry, AddEntry, RemoveEntry, Same, Kept
  <1>1. PICK op \in {"get_target", "get_catalog", "list", "add_target", "add_catalog", "remove_target",
                     "remove_catalog"} :
          /\ Reads(a, op)
          /\ \/ NoSave /\ (Return(a) \/ Stop(a) \/ Raise(a))
             \/ \E v : \/ Save(a, [file EXCEPT !.targets = v])
                       \/ Save(a, [file EXCEPT !.providers = v])
    <2>1. CASE GetEntry(a) BY <2>1 DEF GetEntry
    <2>2. CASE AddEntry(a) BY <2>2 DEF AddEntry
    <2>3. CASE RemoveEntry(a) BY <2>3 DEF RemoveEntry
    <2> QED BY <2>1, <2>2, <2>3
  <1>2. Sound(file) /\ todo[a] # <<>> /\ Call(a).op = op BY <1>1, FileSound
  <1>3. Routine(Call(a)) BY <1>2 DEF Routine, Runs
  <1>4. \E m : SameLoad(a, m) /\ mem' = [mem EXCEPT ![a] = m] BY <1>0, <1>2, Ways
  <1>5. \/ NoSave /\ (Return(a) \/ \E r \in Rescues : Then(a, r))
        \/ \E c : Inherits(c, file) /\ Save(a, c)
    BY <1>1, <1>2, Ways, InheritsElsewhere
  <1> QED BY <1>0, <1>1, <1>3, <1>4, <1>5 DEF Inheriting

LEMMA InheritingTrue ==
  ASSUME HomesInv, NEW prj, TrueInv(prj), NEW a \in Actors, Inheriting(a), returned' = returned
  PROVE  TrueInv(prj)'
  <1>1. PICK op : /\ Reads(a, op) /\ op # "create_project" /\ Routine(Call(a)) /\ file' = file
                  /\ \E m : SameLoad(a, m) /\ mem' = [mem EXCEPT ![a] = m]
                  /\ \/ /\ NoSave /\ clock' = clock
                        /\ Return(a) \/ \E r \in Rescues : Then(a, r)
                     \/ /\ clock' \in {clock, clock + 1}
                        /\ \E c : Inherits(c, file) /\ Save(a, c)
    BY DEF Inheriting
  <1>2. Calls(a, op) /\ todo[a] # <<>> /\ base[a] = Absent BY <1>1, FileSound, NotFounding
  <1>3. PICK m : SameLoad(a, m) /\ mem' = [mem EXCEPT ![a] = m] BY <1>1
  <1>4. m.load = mem[a].load /\ m.mapping = mem[a].mapping /\ m.dry = mem[a].dry BY <1>3 DEF SameLoad
  <1>5. CASE /\ NoSave /\ clock' = clock
             /\ Return(a) \/ \E r \in Rescues : Then(a, r)
    BY <1>1, <1>2, <1>3, <1>4, <1>5, TrueEnd
  <1>6. CASE /\ clock' \in {clock, clock + 1}
             /\ \E c : Inherits(c, file) /\ Save(a, c)
    <2>1. PICK c : Inherits(c, file) /\ Save(a, c) BY <1>6
    <2>2. PICK f : f = file OBVIOUS
    <2>3. Told(f, prj) BY <1>1, <2>2 DEF TrueInv, Reads
    <2>4. Told(c, prj) BY <2>1, <2>2, <2>3, ToldInherits
    <2>5. /\ copy' = [copy EXCEPT ![a] = c] /\ saving' = [saving EXCEPT ![a] = "truncate"]
          /\ Return(a)
      BY <2>1 DEF Save
    <2>6. base' = [base EXCEPT ![a] = base'[a]] BY <1>2, <2>1, Ways
    <2>7. clock' \in Nat /\ clock <= clock' BY <1>6 DEF TrueInv
    <2> QED BY <1>1, <1>2, <1>3, <1>4, <2>4, <2>5, <2>6, <2>7, TrueSaveEnd
  <1> QED BY <1>1, <1>5, <1>6

LEMMA CreateProjectTrue ==
  ASSUME HomesInv, NEW prj, TrueInv(prj), NEW a \in Actors, CreateProject(a), returned' = returned
  PROVE  TrueInv(prj)'
  <1>1. /\ Reads(a, "create_project") /\ file' = file /\ mem' = mem /\ clock' = clock
    BY DEF CreateProject, Kept
  <1>2. /\ Sound(file) /\ todo[a] # <<>> /\ saving[a] = "no" /\ Call(a).op = "create_project"
        /\ Call(a) \in CallType /\ Calls(a, "create_project")
    BY <1>1, FileSound
  <1>3. Call(a).name \in Projects /\ Call(a).source \in Sources BY <1>2, CallSays
  <1>4. PICK m : m = mem[a] OBVIOUS
  <1>5. mem' = [mem EXCEPT ![a] = m] BY <1>1, <1>4, SameMemory
  <1>6. CASE base[a] = Absent /\ file.sources[Call(a).source] = Absent
    <2>1. Raise(a) /\ NoSave BY <1>6 DEF CreateProject
    <2>2. \E r \in Rescues : Then(a, r) BY <1>2, <2>1, Ways
    <2> QED BY <1>1, <1>2, <1>4, <1>5, <1>6, <2>1, <2>2, TrueEnd
  <1>7. CASE base[a] = Absent /\ file.sources[Call(a).source] # Absent
    <2>1. base' = [base EXCEPT ![a] = file] /\ UNCHANGED <<todo, copy, saving>>
      BY <1>7 DEF CreateProject
    <2>2. Grown(prj, prj) /\ clock \in Nat BY <1>1, NoGrowth DEF TrueInv
    <2>3. Readable(file)' => Told(file, prj)' BY <1>1, <2>2, FileTold DEF TrueInv
    <2>4. ASSUME NEW b \in Actors PROVE Telling(b, prj)'
      <3>1. CASE b # a
        <4>1. todo'[b] = todo[b] /\ mem'[b] = mem[b] /\ copy'[b] = copy[b] /\ saving'[b] = saving[b]
              /\ base'[b] = base[b]
          BY <1>1, <2>1, <3>1 DEF HomesInv, Places
        <4> QED BY <2>2, <4>1, OthersTelling DEF TrueInv
      <3>2. CASE b = a
        <4>1. PICK l : l = todo[a] OBVIOUS
        <4>2. /\ base'[b] = file' /\ todo'[b] = l /\ mem'[b] = m /\ saving'[b] = "no"
          BY <1>1, <1>2, <1>4, <2>1, <3>2, <4>1 DEF HomesInv, Places
        <4>3. Readable(file)' BY <1>1 DEF Reads, Readable
        <4>4. Told(base[b], prj)' BY <2>3, <4>2, <4>3 DEF Told
        <4>5. l \in Seq(CallType) /\ Flow(a, l) /\ Ready(a, l, m, prj)
          BY <1>4, <4>1 DEF TrueInv, Telling, HomesInv, Lists
        <4>6. Ready(a, l, m, prj)' BY <2>2, <4>5, ReadyStay
        <4>7. Ready(b, todo[b], mem[b], prj)' BY <3>2, <4>2, <4>6 DEF Ready, HasReturned
        <4>8. Flow(b, todo[b])' BY <3>2, <4>2, <4>5 DEF Flow, Chain
        <4> QED BY <4>2, <4>4, <4>7, <4>8 DEF Telling
      <3> QED BY <3>1, <3>2
    <2> QED BY <1>1, <2>2, <2>3, <2>4 DEF TrueInv
  <1>8. CASE base[a] # Absent
    <2>1. Founding(a) BY <1>2, <1>8 DEF HomesInv, Mine
    <2>2. PICK x : x = (IF Latest(Call(a).source) = Absent THEN 0 ELSE Latest(Call(a).source).id) OBVIOUS
    <2>3. PICK v : v = [source |-> Call(a).source, snapshot |-> x, target |-> Absent, loaded |-> Absent]
      OBVIOUS
    <2>4. PICK f : f = base[a] OBVIOUS
    <2>5. PICK c : c = [f EXCEPT !.projects[Call(a).name] = v] OBVIOUS
    <2>6. /\ copy' = [copy EXCEPT ![a] = c] /\ saving' = [saving EXCEPT ![a] = "truncate"]
          /\ Return(a) /\ base' = base
      BY <1>8, <2>2, <2>3, <2>4, <2>5 DEF CreateProject
    <2>7. Sound(f) /\ Told(f, prj) BY <1>2, <1>8, <2>1, <2>4 DEF Founding, TrueInv, Telling
    <2>8. Inherits(c, f) BY <1>3, <2>3, <2>5, <2>7, InheritsProject
    <2>9. Told(c, prj) BY <2>7, <2>8, ToldInherits
    <2>10. base' = [base EXCEPT ![a] = base'[a]] BY <2>6 DEF HomesInv, Places
    <2>11. clock' \in Nat /\ clock <= clock' BY <1>1 DEF TrueInv
    <2>12. Routine(Call(a)) BY <1>2 DEF Routine, Runs
    <2> QED BY <1>1, <1>2, <1>4, <1>5, <2>6, <2>9, <2>10, <2>11, <2>12, TrueSaveEnd
  <1> QED BY <1>6, <1>7, <1>8

(* The call an actor is about to make is the first of its list.            *)
LEMMA FirstIs ==
  ASSUME HomesInv, NEW prj, TrueInv(prj), NEW a \in Actors, todo[a] # <<>>,
         NEW l, l = todo[a], NEW m, m = mem[a]
  PROVE  /\ l \in Seq(CallType) /\ l # <<>> /\ l[1] = Call(a) /\ 1 \in DOMAIN l
         /\ Flow(a, l) /\ Ready(a, l, m, prj) /\ clock \in Nat
         /\ \A t : Return(a) /\ t = Tail(l) => todo' = [todo EXCEPT ![a] = t]
  <1>1. l \in Seq(CallType) /\ l # <<>> BY DEF HomesInv, Lists
  <1>2. Head(l) = l[1] /\ 1 \in DOMAIN l BY <1>1
  <1>3. Flow(a, l) /\ Ready(a, l, m, prj) /\ clock \in Nat BY DEF TrueInv, Telling
  <1>4. \A t : Return(a) /\ t = Tail(l) => todo' = [todo EXCEPT ![a] = t] BY DEF Return, Then
  <1> QED BY <1>1, <1>2, <1>3, <1>4 DEF Call

(* Only a load that has returned is recorded as completed.                 *)
LEMMA CompleteLoadTrue ==
  ASSUME HomesInv, NEW prj, TrueInv(prj), NEW a \in Actors, CompleteLoad(a), returned' = returned
  PROVE  TrueInv(prj)'
  <1>1. Reads(a, "complete_load") /\ file' = file /\ mem' = mem /\ clock' = clock
    BY DEF CompleteLoad, Kept
  <1>2. /\ Sound(file) /\ Calls(a, "complete_load") /\ todo[a] # <<>> /\ base[a] = Absent
        /\ Call(a) \in CallType /\ Call(a).op = "complete_load"
    BY <1>1, FileSound, NotFounding
  <1>3. Call(a).status \in {"completed", "failed"} /\ Routine(Call(a))
    BY <1>2, CallSays DEF Routine, Runs
  <1>4. PICK m : m = mem[a] OBVIOUS
  <1>5. mem' = [mem EXCEPT ![a] = m] BY <1>1, <1>4, SameMemory
  <1>6. PICK h : h = {IF IsMyLoad(a, r) THEN [r EXCEPT !.status = Call(a).status] ELSE r :
                        r \in file.history}
    OBVIOUS
  <1>7. PICK c : c = [file EXCEPT !.history = h] OBVIOUS
  <1>8. (Save(a, c) /\ UNCHANGED rescue) \/ (Raise(a) /\ NoSave) BY <1>6, <1>7 DEF CompleteLoad
  <1>9. CASE Raise(a) /\ NoSave
    <2>1. \E r \in Rescues : Then(a, r) BY <1>2, <1>9, Ways
    <2> QED BY <1>1, <1>2, <1>4, <1>5, <1>9, <2>1, TrueEnd
  <1>10. CASE Save(a, c) /\ UNCHANGED rescue
    <2>1. PICK f : f = file OBVIOUS
    <2>2. Told(f, prj) /\ Sound(f) BY <1>1, <1>2, <2>1 DEF TrueInv, Reads
    <2>3. c.history = h /\ c.projects = f.projects BY <1>2, <1>7, <2>1 DEF Sound, CatalogFields
    <2>4. PICK x : x = Call(a).status OBVIOUS
    <2>5. x = "completed" => \E r \in returned : r.load = m.load /\ r.project = prj[m.load]
      <3>1. PICK l : l = todo[a] OBVIOUS
      <3>2. l # <<>> /\ l[1] = Call(a) /\ Ready(a, l, m, prj) BY <1>2, <1>4, <3>1, FirstIs
      <3> QED BY <1>2, <2>4, <3>2 DEF Ready, Completed
    <2>6. ASSUME NEW n \in h
          PROVE  /\ n \in LoadRecord /\ n.id < clock /\ prj[n.id] = n.project
                 /\ n.status = "completed" => \E l \in returned : l.load = n.id /\ l.project = n.project
      <3>1. PICK r \in f.history : n = IF r.id = m.load THEN [r EXCEPT !.status = x] ELSE r
        BY <1>4, <1>6, <2>1, <2>4 DEF IsMyLoad
      <3>2. /\ r \in LoadRecord /\ r.id < clock /\ prj[r.id] = r.project
            /\ r.status = "completed" => \E l \in returned : l.load = r.id /\ l.project = r.project
        BY <2>2 DEF Told
      <3>3. CASE r.id = m.load
        <4>1. /\ n \in LoadRecord /\ n.id = r.id /\ n.project = r.project /\ n.status = x
          BY <1>3, <2>4, <3>1, <3>2, <3>3 DEF LoadRecord, Statuses
        <4> QED BY <2>5, <3>2, <3>3, <4>1
      <3>4. CASE r.id # m.load BY <3>1, <3>2, <3>4
      <3> QED BY <3>3, <3>4
    <2>7. Told(c, prj) BY <2>2, <2>3, <2>6 DEF Told
    <2>8. /\ copy' = [copy EXCEPT ![a] = c] /\ saving' = [saving EXCEPT ![a] = "truncate"]
          /\ Return(a)
      BY <1>10 DEF Save
    <2>9. base' = [base EXCEPT ![a] = base'[a]] BY <1>2, <1>10, Ways
    <2>10. clock' \in Nat /\ clock <= clock' BY <1>1 DEF TrueInv
    <2> QED BY <1>1, <1>2, <1>3, <1>4, <1>5, <2>7, <2>8, <2>9, <2>10, TrueSaveEnd
  <1> QED BY <1>8, <1>9, <1>10

(* Only what has been written is recorded as loaded.                       *)
LEMMA SetLoadedMappingTrue ==
  ASSUME HomesInv, NEW prj, TrueInv(prj), NEW a \in Actors, SetLoadedMapping(a), returned' = returned
  PROVE  TrueInv(prj)'
  <1>1. Reads(a, "set_loaded_mapping") /\ file' = file /\ mem' = mem /\ clock' = clock
    BY DEF SetLoadedMapping, Same, Kept
  <1>2. /\ Sound(file) /\ Calls(a, "set_loaded_mapping") /\ todo[a] # <<>> /\ base[a] = Absent
        /\ Call(a) \in CallType /\ Call(a).op = "set_loaded_mapping"
    BY <1>1, FileSound, NotFounding
  <1>3. Call(a).name \in Projects /\ Routine(Call(a)) BY <1>2, CallSays DEF Routine, Runs
  <1>4. PICK m : m = mem[a] OBVIOUS
  <1>5. mem' = [mem EXCEPT ![a] = m] BY <1>1, <1>4, SameMemory
  <1>6. CASE Return(a) /\ NoSave BY <1>1, <1>2, <1>3, <1>4, <1>5, <1>6, TrueEnd
  <1>7. CASE ~(Return(a) /\ NoSave)
    <2>1. PICK f, n : f = file /\ n = Call(a).name OBVIOUS
    <2>2. PICK p : p = f.projects[n] OBVIOUS
    <2>3. PICK v : v = [p EXCEPT !.loaded = m.mapping] OBVIOUS
    <2>4. PICK c : c = [f EXCEPT !.projects[n] = v] OBVIOUS
    <2>5. c = [file EXCEPT !.projects[Call(a).name].loaded = mem[a].mapping]
      BY <1>4, <2>1, <2>2, <2>3, <2>4
    <2>6. p # Absent /\ Save(a, c) BY <1>7, <2>1, <2>2, <2>5 DEF SetLoadedMapping
    <2>7. Told(f, prj) /\ Sound(f) BY <1>1, <1>2, <2>1 DEF TrueInv, Reads
    <2>8. n \in Projects /\ DOMAIN p = ProjectFields BY <1>3, <2>1, <2>2, <2>6, <2>7 DEF Sound, Homes
    <2>9. v.loaded = m.mapping BY <2>3, <2>8 DEF ProjectFields
    <2>10. c.history = f.history /\ c.projects = [f.projects EXCEPT ![n] = v] /\ DOMAIN f.projects = Projects
      BY <2>4, <2>7 DEF Sound, CatalogFields
    <2>11. HasReturned(m, n)
      <3>1. PICK l : l = todo[a] OBVIOUS
      <3>2. l # <<>> /\ l[1] = Call(a) /\ Ready(a, l, m, prj) BY <1>2, <1>4, <3>1, FirstIs
      <3> QED BY <1>2, <2>1, <3>2 DEF Ready, Sets
    <2>12. Told(c, prj)
      <3>1. ASSUME NEW x \in Projects, c.projects[x] # Absent, c.projects[x].loaded # Absent
            PROVE  \E r \in returned : r.project = x /\ r.mapping = c.projects[x].loaded /\ ~r.dry
        <4>1. CASE x = n BY <2>9, <2>10, <2>11, <4>1 DEF HasReturned
        <4>2. CASE x # n BY <2>7, <2>10, <3>1, <4>2 DEF Told
        <4> QED BY <4>1, <4>2
      <3> QED BY <2>7, <2>10, <3>1 DEF Told
    <2>13. /\ copy' = [copy EXCEPT ![a] = c] /\ saving' = [saving EXCEPT ![a] = "truncate"]
           /\ Return(a)
      BY <2>6 DEF Save
    <2>14. base' = [base EXCEPT ![a] = base'[a]] BY <1>2, <2>6, Ways
    <2>15. clock' \in Nat /\ clock <= clock' BY <1>1 DEF TrueInv
    <2> QED BY <1>1, <1>2, <1>3, <1>4, <1>5, <2>12, <2>13, <2>14, <2>15, TrueSaveEnd
  <1> QED BY <1>6, <1>7

(* A load that starts has an id no catalog knows.                          *)
LEMMA StartLoadTrue ==
  ASSUME HomesInv, NEW prj, TrueInv(prj), NEW a \in Actors, StartLoad(a), returned' = returned
  PROVE  \E q : TrueInv(q)'
  <1>1. /\ Reads(a, "start_load") /\ file' = file /\ clock' = clock + 1
        /\ mem' = [mem EXCEPT ![a] = [mem[a] EXCEPT !.load = clock]]
    BY DEF StartLoad, Kept, Learn
  <1>2. /\ Sound(file) /\ Calls(a, "start_load") /\ todo[a] # <<>> /\ base[a] = Absent
        /\ Call(a) \in CallType /\ Call(a).op = "start_load"
    BY <1>1, FileSound, NotFounding
  <1>3. PICK n \in Projects : n = Call(a).name BY <1>2, CallSays
  <1>4. PICK q : q = [prj EXCEPT ![clock] = n] OBVIOUS
  <1>5. PICK f : f = file OBVIOUS
  <1>6. PICK k : k = [id |-> clock, project |-> n, status |-> "running"] OBVIOUS
  <1>7. PICK c : c = [f EXCEPT !.history = f.history \cup {k}] OBVIOUS
  <1>8. Save(a, c) BY <1>3, <1>5, <1>6, <1>7 DEF StartLoad
  <1>9. clock \in Nat /\ prj \in [Nat -> Projects \cup {Absent}] BY DEF TrueInv
  <1>10. Grown(prj, q) BY <1>1, <1>4, <1>9 DEF Grown
  <1>11. q[clock] = n BY <1>4, <1>9
  <1>12. Told(c, q)'
    <2>1. Told(f, prj) /\ Sound(f) BY <1>1, <1>2, <1>5 DEF TrueInv, Reads
    <2>2. Told(f, q)' BY <1>9, <1>10, <2>1, ToldStay
    <2>3. c.history = f.history \cup {k} /\ c.projects = f.projects
      BY <1>7, <2>1 DEF Sound, CatalogFields
    <2>4. k \in LoadRecord /\ k.id < clock' /\ q[k.id] = k.project /\ k.status # "completed"
      BY <1>1, <1>6, <1>9, <1>11 DEF LoadRecord, Statuses
    <2> QED BY <2>2, <2>3, <2>4 DEF Told
  <1>13. PICK l, o, m, t :
           l = todo[a] /\ o = mem[a] /\ m = [o EXCEPT !.load = clock] /\ t = Tail(l)
    OBVIOUS
  <1>14. /\ l \in Seq(CallType) /\ l # <<>> /\ l[1] = Call(a) /\ 1 \in DOMAIN l
         /\ Flow(a, l) /\ Ready(a, l, o, prj)
         /\ (Return(a) => todo' = [todo EXCEPT ![a] = t])
    BY <1>2, <1>13, FirstIs
  <1>15. m.load = clock /\ m.mapping = o.mapping /\ m.dry = o.dry /\ mem' = [mem EXCEPT ![a] = m]
    BY <1>1, <1>13, SameLoadIs
  <1>16. OfLoad(l[1]) /\ ~Runs(l[1]) /\ ~Completed(l[1])
         /\ l[1].op # "migrate" /\ l[1].op # "load_config" /\ l[1].op = "start_load" /\ l[1].name = n
    BY <1>2, <1>3, <1>14 DEF OfLoad, Runs, Completed
  <1>17. Chain(a, l)
    <2>1. l \notin Seq(Harmless) BY <1>14, <1>16, HarmlessIs
    <2> QED BY <1>14, <2>1 DEF Flow
  <1>18. t \in Seq(CallType) /\ Flow(a, t) BY <1>13, <1>14, FlowTail
  <1>19. Ready(a, t, m, q)'
    <2>1. /\ \A i \in DOMAIN t : i + 1 \in DOMAIN l /\ t[i] = l[i + 1] /\ i \in Nat \ {0}
          /\ Len(t) = Len(l) - 1 /\ Len(l) \in Nat /\ DOMAIN l = 1 .. Len(l)
      BY <1>13, <1>14, TailIs
    <2>2. ASSUME t # <<>> PROVE ~Completed(t[1]) /\ ~Sets(t[1])
      <3>1. 1 \in DOMAIN t BY <1>18, <2>2
      <3>2. t[1] = l[2] /\ 2 \in DOMAIN l BY <2>1, <3>1
      <3>3. /\ Completed(l[2]) => Runs(l[2 - 1])
            /\ Sets(l[2]) => l[2 - 1].op = "migrate" \/ Completed(l[2 - 1])
        BY <1>17, <3>2 DEF Chain
      <3> QED BY <1>16, <3>2, <3>3
    <2>3. ASSUME NEW i \in DOMAIN t, Runs(t[i]) \/ t[i].op = "spawn" PROVE q[m.load] = t[i].name
      <3>1. OfLoad(t[i]) BY <2>3 DEF OfLoad, Runs
      <3>2. t[i].name = l[1].name BY <1>14, <1>16, <1>17, <2>1, <3>1 DEF Chain
      <3> QED BY <1>11, <1>15, <1>16, <3>2
    <2>4. ASSUME NEW i \in DOMAIN t, a = Thread, Sets(t[i]) PROVE ~m.dry
      <3>1. ~o.dry BY <1>14, <2>1, <2>4 DEF Ready
      <3> QED BY <1>15, <3>1
    <2>5. m.load \in Nat /\ m.load < clock' BY <1>1, <1>9, <1>15
    <2> QED BY <2>2, <2>3, <2>4, <2>5 DEF Ready
  <1>20. /\ copy' = [copy EXCEPT ![a] = c] /\ saving' = [saving EXCEPT ![a] = "truncate"]
         /\ Return(a)
    BY <1>8 DEF Save
  <1>21. base' = [base EXCEPT ![a] = base'[a]] BY <1>2, <1>8, Ways
  <1>22. TrueInv(q)'
    BY <1>1, <1>10, <1>12, <1>14, <1>15, <1>18, <1>19, <1>20, <1>21, TrueSave
  <1> QED BY <1>22

(* Whichever copy is written says nothing untrue.                          *)
LEMMA FileTrue ==
  ASSUME HomesInv, NEW prj, TrueInv(prj), NEW a \in Actors, Truncate(a) \/ Write(a) \/ ReadTorn(a),
         returned' = returned
  PROVE  TrueInv(prj)'
  <1>0. clock' = clock /\ clock \in Nat /\ prj \in [Nat -> Projects \cup {Absent}]
    BY DEF Truncate, Write, ReadTorn, TrueInv
  <1>1. Grown(prj, prj) BY <1>0, NoGrowth
  <1>2. PICK l, m, c : l = todo[a] /\ m = mem[a] /\ c = copy[a] OBVIOUS
  <1>3. l \in Seq(CallType) /\ Flow(a, l) /\ Ready(a, l, m, prj)
    BY <1>2 DEF TrueInv, Telling, HomesInv, Lists
  <1>4. Ready(a, l, m, prj)' BY <1>0, <1>1, <1>3, ReadyStay
  <1>5. CASE Truncate(a)
    <2>1. /\ saving[a] = "truncate" /\ file' = Empty /\ saving' = [saving EXCEPT ![a] = "write"]
          /\ UNCHANGED <<todo, rescue, mem, base, copy>>
      BY <1>5 DEF Truncate
    <2>2. ASSUME NEW b \in Actors PROVE Telling(b, prj)'
      <3>1. CASE b # a
        <4>1. saving'[b] = saving[b] BY <2>1, <3>1 DEF HomesInv, Places
        <4> QED BY <1>0, <1>1, <2>1, <4>1, OthersTelling DEF TrueInv
      <3>2. CASE b = a
        <4>1. saving'[b] = "write" /\ copy'[b] = c /\ todo'[b] = l /\ mem'[b] = m
          BY <1>2, <2>1, <3>2 DEF HomesInv, Places
        <4>2. Told(c, prj) BY <1>2, <2>1 DEF TrueInv, Telling
        <4>3. Told(c, prj)' BY <1>0, <1>1, <4>2, ToldStay
        <4>4. Told(copy[b], prj)' BY <4>1, <4>3 DEF Told
        <4>5. Ready(b, todo[b], mem[b], prj)' BY <1>4, <3>2, <4>1 DEF Ready, HasReturned
        <4>6. Flow(b, todo[b])' BY <1>3, <3>2, <4>1 DEF Flow, Chain
        <4> QED BY <4>1, <4>4, <4>5, <4>6 DEF Telling
      <3> QED BY <3>1, <3>2
    <2>3. ~Readable(file)' BY <2>1 DEF Readable
    <2> QED BY <1>0, <2>2, <2>3 DEF TrueInv
  <1>6. CASE Write(a)
    <2>1. /\ saving[a] = "write" /\ file' \in {c, Mixed} /\ saving' = [saving EXCEPT ![a] = "no"]
          /\ copy' = [copy EXCEPT ![a] = Absent] /\ base' = [base EXCEPT ![a] = Absent]
          /\ UNCHANGED <<todo, rescue>>
          /\ mem' = mem \/ (l = <<>> /\ mem' = [mem EXCEPT ![a] = [Blank EXCEPT !.load = m.load]])
      BY <1>2, <1>6 DEF Write, Learn
    <2>2. PICK k : /\ mem' = [mem EXCEPT ![a] = k]
                   /\ k = m \/ (l = <<>> /\ k = [Blank EXCEPT !.load = m.load])
      BY <1>2, <2>1, SameMemory
    <2>3. k = m \/ (l = <<>> /\ k.load = m.load) BY <2>2 DEF Blank
    <2>4. Ready(a, l, k, prj)' BY <1>4, <2>3 DEF Ready
    <2>5. ASSUME NEW b \in Actors PROVE Telling(b, prj)'
      <3>1. CASE b # a
        <4>1. saving'[b] = saving[b] /\ copy'[b] = copy[b] /\ base'[b] = base[b] /\ mem'[b] = mem[b]
              /\ todo'[b] = todo[b]
          BY <2>1, <2>2, <3>1 DEF HomesInv, Places
        <4> QED BY <1>0, <1>1, <4>1, OthersTelling DEF TrueInv
      <3>2. CASE b = a
        <4>1. saving'[b] = "no" /\ base'[b] = Absent /\ mem'[b] = k /\ todo'[b] = l
          BY <1>2, <2>1, <2>2, <3>2 DEF HomesInv, Places
        <4>2. Ready(b, todo[b], mem[b], prj)' BY <2>4, <3>2, <4>1 DEF Ready, HasReturned
        <4>3. Flow(b, todo[b])' BY <1>3, <3>2, <4>1 DEF Flow, Chain
        <4> QED BY <4>1, <4>2, <4>3 DEF Telling
      <3> QED BY <3>1, <3>2
    <2>6. Readable(file)' => Told(file, prj)'
      <3>1. Told(c, prj) BY <1>2, <2>1 DEF TrueInv, Telling
      <3>2. Told(c, prj)' BY <1>0, <1>1, <3>1, ToldStay
      <3>3. CASE file' = c BY <3>2, <3>3 DEF Told
      <3>4. CASE file' = Mixed BY <3>4 DEF Readable
      <3> QED BY <2>1, <3>3, <3>4
    <2> QED BY <1>0, <2>5, <2>6 DEF TrueInv
  <1>7. CASE ReadTorn(a)
    <2>1. /\ \E op \in Methods : Calls(a, op)
          /\ Raise(a) /\ base' = [base EXCEPT ![a] = Absent]
          /\ UNCHANGED <<file, mem, copy, saving>>
      BY <1>7 DEF ReadTorn
    <2>2. saving[a] = "no" /\ todo[a] # <<>> BY <2>1 DEF Calls
    <2>3. PICK t \in Rescues : todo' = [todo EXCEPT ![a] = t] BY <2>1, <2>2, Ways DEF Then
    <2>4. t \in Seq(Harmless) /\ t \in Seq(CallType) BY RescuesHarmless, RescuesTyped
    <2>5. Flow(a, t) /\ Ready(a, t, m, prj)
      <3>1. m.load \in Nat /\ m.load < clock BY <1>3 DEF Ready
      <3> QED BY <2>4, <3>1, ReadyHarmless
    <2>6. Ready(a, t, m, prj)' BY <1>0, <1>1, <2>4, <2>5, ReadyStay
    <2>7. ASSUME NEW b \in Actors PROVE Telling(b, prj)'
      <3>1. CASE b # a
        <4>1. todo'[b] = todo[b] /\ base'[b] = base[b]
          BY <2>1, <2>3, <3>1 DEF HomesInv, Places, Lists
        <4> QED BY <1>0, <1>1, <2>1, <4>1, OthersTelling DEF TrueInv
      <3>2. CASE b = a
        <4>1. base'[b] = Absent /\ saving'[b] = "no" /\ todo'[b] = t /\ mem'[b] = m
          BY <1>2, <2>1, <2>2, <2>3, <3>2 DEF HomesInv, Places, Lists
        <4>2. Ready(b, todo[b], mem[b], prj)' BY <2>6, <3>2, <4>1 DEF Ready, HasReturned
        <4>3. Flow(b, todo[b])' BY <2>5, <3>2, <4>1 DEF Flow, Chain
        <4> QED BY <4>1, <4>2, <4>3 DEF Telling
      <3> QED BY <3>1, <3>2
    <2>8. Readable(file)' => Told(file, prj)' BY <1>0, <1>1, <2>1, FileTold DEF TrueInv
    <2> QED BY <1>0, <2>7, <2>8 DEF TrueInv
  <1> QED BY <1>5, <1>6, <1>7

LEMMA MethodTrue ==
  ASSUME HomesInv, NEW prj, TrueInv(prj), NEW a \in Actors, Method(a), returned' = returned
  PROVE  \E q : TrueInv(q)'
  <1>1. CASE Inheriting(a) BY <1>1, InheritingTrue
  <1>2. CASE CreateProject(a) BY <1>2, CreateProjectTrue
  <1>3. CASE StartLoad(a) BY <1>3, StartLoadTrue
  <1>4. CASE CompleteLoad(a) BY <1>4, CompleteLoadTrue
  <1>5. CASE SetLoadedMapping(a) BY <1>5, SetLoadedMappingTrue
  <1>6. CASE Truncate(a) \/ Write(a) \/ ReadTorn(a) BY <1>6, FileTrue
  <1> QED BY <1>1, <1>2, <1>3, <1>4, <1>5, <1>6, SourcesInherit, SnapshotsInherit, ProjectsInherit,
             EntriesInherit DEF Method

(* Steps between the calls that are no load.                               *)
LEMMA GoOnTrue ==
  ASSUME HomesInv, NEW prj, TrueInv(prj), NEW a \in Actors,
         \/ Introspect(a) \/ Accept(a) \/ Resolve(a) \/ Annotate(a) \/ LoadConfig(a)
         \/ Connect(a) \/ TellError(a) \/ ResolveTarget(a) \/ Try(a)
         \/ Migrate(a) /\ Stop(a) /\ UNCHANGED returned
  PROVE  TrueInv(prj)'
  <1>1. PICK op \in {"introspect", "accept", "bound", "resolve", "annotate", "load_config", "connect",
                     "error", "resolve_target", "try", "migrate"} :
          /\ Calls(a, op)
          /\ \/ Return(a) /\ op # "migrate"
             \/ Stop(a)
             \/ op = "resolve_target" /\ Then(a, Call(a).otherwise)
    BY DEF Introspect, Accept, Resolve, Annotate, LoadConfig, Connect, TellError, ResolveTarget, Try,
           Migrate, Reads
  <1>2. file' = file /\ NoSave /\ clock' = clock /\ returned' = returned
    BY DEF Introspect, Accept, Resolve, Annotate, LoadConfig, Connect, TellError, ResolveTarget, Try,
           Migrate, Quiet, Still, NoSave
  <1>3. base[a] = Absent /\ todo[a] # <<>> /\ Call(a).op = op /\ Call(a) \in CallType
    <2>1. base[a] = Absent /\ todo[a] # <<>> BY <1>1, NotFounding
    <2> QED BY <1>1, <2>1, Popped DEF HomesInv, Calls, Call
  <1>4. (Routine(Call(a)) /\ Return(a)) \/ \E r \in Rescues : Then(a, r)
    <2>1. CASE Return(a) /\ op # "migrate" BY <1>3, <2>1 DEF Routine, Runs
    <2>2. CASE Stop(a) BY <1>3, <2>2, Ways
    <2>3. CASE op = "resolve_target" /\ Then(a, Call(a).otherwise)
      <3>1. Call(a).otherwise \in Rescues BY <1>3, <2>3, CallSays
      <3> QED BY <2>3, <3>1
    <2> QED BY <1>1, <2>1, <2>2, <2>3
  <1>5. \E m : /\ mem' = [mem EXCEPT ![a] = m] /\ m.load = mem[a].load
               /\ (m.mapping = mem[a].mapping /\ m.dry = mem[a].dry) \/ op = "load_config"
    <2>1. CASE LoadConfig(a)
      <3>1. Calls(a, "load_config") BY <2>1 DEF LoadConfig
      <3>2. op = "load_config" BY <1>1, <3>1 DEF Calls
      <3>3. \/ mem' = mem
            \/ \E v, w : mem' = [mem EXCEPT ![a] = [mem[a] EXCEPT !.mapping = v, !.dry = w]]
        BY <2>1 DEF LoadConfig, Learn
      <3>4. CASE mem' = mem BY <1>3, <3>4, Ways DEF SameLoad
      <3>5. CASE mem' # mem
        <4>1. PICK v, w : mem' = [mem EXCEPT ![a] = [mem[a] EXCEPT !.mapping = v, !.dry = w]]
          BY <3>3, <3>5
        <4>2. PICK m : m = [mem[a] EXCEPT !.mapping = v, !.dry = w] OBVIOUS
        <4>3. m.load = mem[a].load BY <4>2, SameLoadIs
        <4> QED BY <3>2, <4>1, <4>2, <4>3
      <3> QED BY <3>4, <3>5
    <2>2. CASE ~LoadConfig(a)
      <3>1. \/ mem' = mem
            \/ \E v : \/ mem' = [mem EXCEPT ![a] = [mem[a] EXCEPT !.snapshot = v]]
                      \/ mem' = [mem EXCEPT ![a] = [mem[a] EXCEPT !.accept = v]]
                      \/ mem' = [mem EXCEPT ![a] = [mem[a] EXCEPT !.level = v]]
        BY <2>2 DEF Introspect, Accept, Resolve, Annotate, Connect, TellError, ResolveTarget, Try,
                    Migrate, Learn
      <3>2. \E m : SameLoad(a, m) /\ mem' = [mem EXCEPT ![a] = m]
        BY <1>3, <3>1, Ways, SameLoadIs
      <3> QED BY <3>2 DEF SameLoad
    <2> QED BY <2>1, <2>2
  <1> QED BY <1>1, <1>2, <1>3, <1>4, <1>5, TrueEnd

(* A load or a migration that returns is what is recorded next.            *)
LEMMA ReturnedTrue ==
  ASSUME HomesInv, NEW prj, TrueInv(prj), NEW a \in Actors, todo[a] # <<>>, saving[a] = "no",
         base[a] = Absent, Runs(Call(a)) \/ (Call(a).op = "migrate" /\ ~mem[a].dry),
         Returned(a, Call(a).name), Return(a), file' = file, NoSave, mem' = mem, clock' = clock
  PROVE  TrueInv(prj)'
  <1>1. PICK l, m, t : l = todo[a] /\ m = mem[a] /\ t = Tail(l) OBVIOUS
  <1>2. /\ l \in Seq(CallType) /\ l # <<>> /\ l[1] = Call(a) /\ 1 \in DOMAIN l
        /\ Flow(a, l) /\ Ready(a, l, m, prj) /\ clock \in Nat
        /\ todo' = [todo EXCEPT ![a] = t]
    BY <1>1, FirstIs
  <1>3. mem' = [mem EXCEPT ![a] = m] BY <1>1, SameMemory
  <1>4. PICK k : k = [load |-> m.load, project |-> l[1].name, mapping |-> m.mapping, dry |-> m.dry]
    OBVIOUS
  <1>5. returned' = returned \cup {k} BY <1>1, <1>2, <1>4 DEF Returned
  <1>6. Grown(prj, prj) BY <1>2, <1>5 DEF Grown, TrueInv
  <1>7. OfLoad(l[1]) /\ ~Completed(l[1]) BY <1>2 DEF OfLoad, Runs, Completed
  <1>8. Chain(a, l)
    <2>1. l \notin Seq(Harmless) BY <1>2, <1>7, HarmlessIs
    <2> QED BY <1>2, <2>1 DEF Flow
  <1>9. t \in Seq(CallType) /\ Flow(a, t) BY <1>1, <1>2, FlowTail
  <1>10. /\ \A i \in DOMAIN t : i + 1 \in DOMAIN l /\ t[i] = l[i + 1] /\ i \in Nat \ {0}
         /\ \A i \in DOMAIN l : i > 1 => i - 1 \in DOMAIN t
         /\ Len(t) = Len(l) - 1 /\ Len(l) \in Nat /\ DOMAIN l = 1 .. Len(l)
    BY <1>1, <1>2, TailIs
  <1>11. t # <<>> => 1 \in DOMAIN t /\ 2 \in DOMAIN l /\ t[1] = l[2]
    <2>1. t # <<>> => 1 \in DOMAIN t BY <1>9
    <2> QED BY <1>10, <2>1
  <1>12. k.load = m.load /\ k.project = l[1].name /\ k.mapping = m.mapping /\ k.dry = m.dry BY <1>4
  <1>13. ASSUME t # <<>>, Completed(t[1])
         PROVE  \E r \in returned' : r.load = m.load /\ r.project = prj[m.load]
    <2>1. Runs(l[2 - 1]) BY <1>8, <1>11, <1>13 DEF Chain
    <2>2. ~\E j \in DOMAIN l : j < 1 BY <1>10
    <2>3. prj[m.load] = l[1].name BY <1>2, <2>1, <2>2 DEF Ready
    <2> QED BY <1>5, <1>12, <2>3
  <1>14. ASSUME t # <<>>, Sets(t[1]) PROVE HasReturned(m, t[1].name)'
    <2>1. l[2 - 1].op = "migrate" \/ Completed(l[2 - 1]) BY <1>8, <1>11, <1>14 DEF Chain
    <2>2. ~m.dry BY <1>1, <1>2, <1>7, <2>1 DEF Runs
    <2>3. OfLoad(l[2]) BY <1>11, <1>14 DEF OfLoad, Sets
    <2>4. l[2].name = l[1].name BY <1>2, <1>7, <1>8, <1>11, <1>14, <2>3 DEF Chain
    <2> QED BY <1>5, <1>11, <1>12, <1>14, <2>2, <2>4 DEF HasReturned
  <1>15. ASSUME t # <<>>, Len(t) > 1, Completed(t[1]), Sets(t[2])
         PROVE  HasReturned(m, t[2].name)'
    <2>1. 2 \in DOMAIN t /\ 3 \in DOMAIN l /\ t[2] = l[3]
      <3>1. 2 \in DOMAIN t BY <1>9, <1>15
      <3> QED BY <1>10, <3>1
    <2>2. ~m.dry
      <3>1. l[3 - 1].op = "migrate" \/ (Completed(l[3 - 1]) /\ a = Thread)
        BY <1>8, <1>15, <2>1 DEF Chain
      <3>2. a = Thread BY <1>11, <1>15, <3>1 DEF Completed
      <3> QED BY <1>2, <1>15, <2>1, <3>2 DEF Ready
    <2>3. OfLoad(l[3]) BY <1>15, <2>1 DEF OfLoad, Sets
    <2>4. l[3].name = l[1].name BY <1>2, <1>7, <1>8, <2>1, <2>3 DEF Chain
    <2> QED BY <1>5, <1>12, <2>1, <2>2, <2>4 DEF HasReturned
  <1>16. ASSUME NEW i \in DOMAIN t, Runs(t[i]) \/ t[i].op = "spawn"
         PROVE  prj[m.load] = t[i].name \/ \E j \in DOMAIN t : j < i /\ t[j].op = "start_load"
    <2>1. i + 1 \in DOMAIN l /\ t[i] = l[i + 1] /\ i \in Nat BY <1>10
    <2>2. \/ prj[m.load] = l[i + 1].name
          \/ \E j \in DOMAIN l : j < i + 1 /\ l[j].op = "start_load"
      BY <1>2, <1>16, <2>1 DEF Ready
    <2>3. ASSUME NEW j \in DOMAIN l, j < i + 1, l[j].op = "start_load"
          PROVE  \E n \in DOMAIN t : n < i /\ t[n].op = "start_load"
      <3>1. j # 1 BY <1>2, <2>3 DEF Runs
      <3>2. j \in Nat /\ j > 1 BY <1>10, <3>1
      <3>3. j - 1 \in DOMAIN t /\ j - 1 < i /\ t[j - 1] = l[(j - 1) + 1] /\ (j - 1) + 1 = j
        BY <1>10, <2>1, <2>3, <3>2
      <3> QED BY <2>3, <3>3
    <2> QED BY <2>1, <2>2, <2>3
  <1>17. ASSUME NEW i \in DOMAIN t, a = Thread, Sets(t[i]) PROVE ~m.dry
    BY <1>2, <1>10, <1>17 DEF Ready
  <1>18. m.load \in Nat /\ m.load < clock' BY <1>2 DEF Ready
  <1>19. Ready(a, t, m, prj)' BY <1>13, <1>14, <1>15, <1>16, <1>17, <1>18 DEF Ready
  <1> QED BY <1>2, <1>3, <1>6, <1>9, <1>19, TrueNoSave

LEMMA MigrateTrue ==
  ASSUME HomesInv, NEW prj, TrueInv(prj), NEW a \in Actors, Migrate(a)
  PROVE  TrueInv(prj)'
  <1>1. CASE Stop(a) /\ UNCHANGED returned BY <1>1, GoOnTrue
  <1>2. CASE ~(Stop(a) /\ UNCHANGED returned)
    <2>1. /\ Calls(a, "migrate") /\ ~mem[a].dry /\ Returned(a, Call(a).name) /\ Return(a)
          /\ file' = file /\ NoSave /\ mem' = mem /\ clock' = clock
      BY <1>2 DEF Migrate, Still, NoSave
    <2>2. todo[a] # <<>> /\ saving[a] = "no" /\ base[a] = Absent BY <2>1, NotFounding
    <2>3. Call(a).op = "migrate" BY <2>1 DEF Calls, Call
    <2> QED BY <2>1, <2>2, <2>3, ReturnedTrue
  <1> QED BY <1>1, <1>2

(* The loop of a load: it goes on, returns or raises.                      *)
LEMMA RunTrue ==
  ASSUME HomesInv, NEW prj, TrueInv(prj), NEW a \in Actors, Run(a)
  PROVE  TrueInv(prj)'
  <1>1. /\ Calls(a, "run") \/ Calls(a, "running")
        /\ file' = file /\ NoSave /\ mem' = mem /\ clock' = clock
        /\ \/ Returned(a, Call(a).name) /\ Return(a)
           \/ Raise(a) /\ returned' = returned
           \/ /\ Calls(a, "run") /\ returned' = returned
              /\ Then(a, <<To("running", Call(a).name)>> \o Tail(todo[a]))
    BY DEF Run, Still, NoSave
  <1>2. todo[a] # <<>> /\ saving[a] = "no" /\ base[a] = Absent BY <1>1, NotFounding
  <1>3. Runs(Call(a)) BY <1>1 DEF Calls, Call, Runs
  <1>4. PICK m : m = mem[a] OBVIOUS
  <1>5. mem' = [mem EXCEPT ![a] = m] BY <1>1, <1>4, SameMemory
  <1>6. CASE Returned(a, Call(a).name) /\ Return(a) BY <1>1, <1>2, <1>3, <1>6, ReturnedTrue
  <1>7. CASE Raise(a) /\ returned' = returned
    <2>1. \E r \in Rescues : Then(a, r) BY <1>2, <1>7, Ways
    <2> QED BY <1>1, <1>2, <1>4, <1>5, <1>7, <2>1, TrueEnd
  <1>8. CASE /\ Calls(a, "run") /\ returned' = returned
             /\ Then(a, <<To("running", Call(a).name)>> \o Tail(todo[a]))
    <2>1. PICK l : l = todo[a] OBVIOUS
    <2>2. /\ l \in Seq(CallType) /\ l # <<>> /\ l[1] = Call(a) /\ 1 \in DOMAIN l
          /\ Flow(a, l) /\ Ready(a, l, m, prj) /\ clock \in Nat
      BY <1>2, <1>4, <2>1, FirstIs
    <2>3. l[1].op = "run" BY <1>8, <2>2 DEF Calls, Call
    <2>4. PICK k : k = To("running", l[1].name) OBVIOUS
    <2>5. k.op = "running" /\ k.name = l[1].name BY <2>4 DEF To
    <2>6. k \in CallType
      <3>1. l[1] \in CallType BY <2>2
      <3>2. l[1].name \in Projects BY <2>3, <3>1, CallSays
      <3> QED BY <2>4, <3>2, LoadCallIs DEF CallType
    <2>7. PICK t : t = <<k>> \o Tail(l) OBVIOUS
    <2>8. /\ t \in Seq(CallType) /\ DOMAIN t = DOMAIN l /\ Len(t) = Len(l) /\ t[1] = k /\ t # <<>>
          /\ \A i \in DOMAIN l : i # 1 => t[i] = l[i]
          /\ DOMAIN l = 1 .. Len(l) /\ Len(l) \in Nat
      BY <2>2, <2>6, <2>7
    <2>9. todo' = [todo EXCEPT ![a] = t] BY <1>8, <2>1, <2>2, <2>4, <2>7 DEF Then
    <2>10. /\ OfLoad(k) /\ Runs(k) /\ ~OfDemo(k) /\ ~Completed(k) /\ ~Sets(k) /\ k.op # "spawn"
           /\ k.op # "load_config" /\ OfLoad(l[1]) /\ Runs(l[1]) /\ k.op # "start_load"
      BY <2>3, <2>5 DEF OfLoad, Runs, OfDemo, Completed, Sets
    <2>11. Chain(a, l)
      <3>1. l \notin Seq(Harmless) BY <2>2, <2>10, HarmlessIs
      <3> QED BY <2>2, <3>1 DEF Flow
    <2>12. Chain(a, t)
      <3>1. ASSUME NEW i \in DOMAIN t
            PROVE  /\ ~OfDemo(t[i])
                   /\ t[i].op = "spawn" => i = Len(t)
                   /\ t[i].op = "load_config" => a # Thread
        BY <2>8, <2>10, <2>11 DEF Chain
      <3>2. ASSUME NEW i \in DOMAIN t, i > 1
            PROVE  /\ Completed(t[i]) => Runs(t[i - 1])
                   /\ Sets(t[i]) => t[i - 1].op = "migrate" \/ (Completed(t[i - 1]) /\ a = Thread)
        <4>1. t[i] = l[i] /\ i - 1 \in DOMAIN l /\ i \in DOMAIN l BY <2>8, <3>2
        <4>2. /\ Completed(l[i]) => Runs(l[i - 1])
              /\ Sets(l[i]) => l[i - 1].op = "migrate" \/ (Completed(l[i - 1]) /\ a = Thread)
          BY <2>11, <3>2, <4>1 DEF Chain
        <4>3. CASE i - 1 = 1
          <5>1. t[i - 1] = k /\ l[i - 1] = l[1] BY <2>8, <4>3
          <5>2. ~Sets(l[i]) BY <2>3, <2>10, <4>2, <5>1 DEF Completed
          <5> QED BY <2>10, <4>1, <5>1, <5>2
        <4>4. CASE i - 1 # 1
          <5>1. t[i - 1] = l[i - 1] BY <2>8, <4>1, <4>4
          <5> QED BY <4>1, <4>2, <5>1
        <4> QED BY <4>3, <4>4
      <3>3. ASSUME NEW i \in DOMAIN t, NEW j \in DOMAIN t, OfLoad(t[i]), OfLoad(t[j])
            PROVE  t[i].name = t[j].name
        <4>1. \A n \in DOMAIN l : OfLoad(l[n]) => l[n].name = l[1].name
          BY <2>2, <2>10, <2>11 DEF Chain
        <4>2. t[i].name = l[1].name BY <2>5, <2>8, <3>3, <4>1
        <4>3. t[j].name = l[1].name BY <2>5, <2>8, <3>3, <4>1
        <4> QED BY <4>2, <4>3
      <3> QED BY <3>1, <3>2, <3>3 DEF Chain
    <2>13. Ready(a, t, m, prj)
      <3>1. m.load \in Nat /\ m.load < clock BY <2>2 DEF Ready
      <3>2. ~Completed(t[1]) /\ ~Sets(t[1]) BY <2>8, <2>10
      <3>3. ASSUME NEW i \in DOMAIN t, Runs(t[i]) \/ t[i].op = "spawn"
            PROVE  prj[m.load] = t[i].name \/ \E j \in DOMAIN t : j < i /\ t[j].op = "start_load"
        <4>1. CASE i = 1
          <5>1. ~\E j \in DOMAIN l : j < 1 BY <2>8
          <5>2. prj[m.load] = l[1].name BY <2>2, <2>10, <5>1 DEF Ready
          <5> QED BY <2>5, <2>8, <4>1, <5>2
        <4>2. CASE i # 1
          <5>1. t[i] = l[i] /\ i \in DOMAIN l BY <2>8, <4>2
          <5>2. prj[m.load] = l[i].name \/ \E j \in DOMAIN l : j < i /\ l[j].op = "start_load"
            BY <2>2, <3>3, <5>1 DEF Ready
          <5>3. ASSUME NEW j \in DOMAIN l, j < i, l[j].op = "start_load"
                PROVE  \E n \in DOMAIN t : n < i /\ t[n].op = "start_load"
            <6>1. j # 1 BY <2>3, <5>3
            <6> QED BY <2>8, <5>3, <6>1
          <5> QED BY <5>1, <5>2, <5>3
        <4> QED BY <4>1, <4>2
      <3>4. ASSUME NEW i \in DOMAIN t, a = Thread, Sets(t[i]) PROVE ~m.dry
        <4>1. t[i] = l[i] /\ i \in DOMAIN l BY <2>8, <2>10, <3>4
        <4> QED BY <2>2, <3>4, <4>1 DEF Ready
      <3> QED BY <3>1, <3>2, <3>3, <3>4 DEF Ready
    <2>14. Grown(prj, prj) BY <1>1, <1>8, <2>2, NoGrowth
    <2>15. Ready(a, t, m, prj)' BY <2>2, <2>8, <2>13, <2>14, ReadyStay
    <2>16. Flow(a, t) BY <2>12 DEF Flow
    <2> QED BY <1>1, <1>2, <1>5, <2>8, <2>9, <2>14, <2>15, <2>16, TrueNoSave
  <1> QED BY <1>1, <1>6, <1>7, <1>8

LEMMA JoinedIs ==
  ASSUME NEW S, NEW x \in Seq(S), NEW y \in Seq(S)
  PROVE  /\ x \o y \in Seq(S) /\ Len(x \o y) = Len(x) + Len(y)
         /\ \A i \in 1 .. Len(x) + Len(y) : (x \o y)[i] = IF i <= Len(x) THEN x[i] ELSE y[i - Len(x)]
  OBVIOUS

(* The list of a thread.                                                   *)
LEMMA ThreadChain ==
  ASSUME NEW p \in Projects, NEW d, NEW m, ~d => ~m.dry, NEW prj, prj[m.load] = p,
         m.load \in Nat, m.load < clock, NEW l, l = ThreadCalls(p, d)
  PROVE  l \in Seq(CallType) /\ Flow(Thread, l) /\ Ready(Thread, l, m, prj)
  <1>1. PICK r, c, s : r = To("run", p) /\ c = Complete("completed") /\ s = To("set_loaded_mapping", p)
    OBVIOUS
  <1>2. /\ r.op = "run" /\ r.name = p
        /\ c.op = "complete_load" /\ c.status = "completed"
        /\ s.op = "set_loaded_mapping" /\ s.name = p
    BY <1>1 DEF To, Complete
  <1>3. r \in CallType /\ c \in CallType /\ s \in CallType BY <1>1, LoadCallIs DEF CallType
  <1>4. l = <<r, c>> \o (IF d THEN <<>> ELSE <<s>>) BY <1>1 DEF ThreadCalls
  <1>5. l \in Seq(CallType) /\ Len(l) \in {2, 3} /\ l[1] = r /\ l[2] = c
        /\ (Len(l) = 3 => l[3] = s /\ ~m.dry)
    <2>1. PICK x, y : x = <<r, c>> /\ y = <<s>> OBVIOUS
    <2>2. x \in Seq(CallType) /\ Len(x) = 2 /\ x[1] = r /\ x[2] = c BY <1>3, <2>1
    <2>3. y \in Seq(CallType) /\ Len(y) = 1 /\ y[1] = s BY <1>3, <2>1
    <2>4. CASE d
      <3>1. l = x \o <<>> BY <1>4, <2>1, <2>4
      <3>2. l = x BY <2>2, <3>1
      <3>3. Len(l) = 2 /\ l[1] = r /\ l[2] = c /\ l \in Seq(CallType) BY <2>2, <3>2
      <3> QED BY <3>3
    <2>5. CASE ~d
      <3>1. l = x \o y BY <1>4, <2>1, <2>5
      <3>2. x \in Seq(CallType) /\ y \in Seq(CallType) BY <2>2, <2>3
      <3>3. /\ l \in Seq(CallType) /\ Len(l) = Len(x) + Len(y)
            /\ \A i \in 1 .. Len(x) + Len(y) : l[i] = IF i <= Len(x) THEN x[i] ELSE y[i - Len(x)]
        BY ONLY <3>1, <3>2, JoinedIs
      <3>4. l[1] = x[1] /\ l[2] = x[2] /\ l[3] = y[1] BY <2>2, <2>3, <3>3
      <3> QED BY <2>2, <2>3, <2>5, <3>3, <3>4
    <2> QED BY <2>4, <2>5
  <1>6. \A i \in DOMAIN l : i \in {1, 2, 3} /\ (i = 3 => Len(l) = 3) /\ 1 \in DOMAIN l
    BY <1>5
  <1>7. /\ ~Completed(r) /\ ~Sets(r) /\ Runs(r) /\ ~OfDemo(r)
        /\ Completed(c) /\ ~Sets(c) /\ ~Runs(c) /\ ~OfDemo(c) /\ ~OfLoad(c)
        /\ ~Completed(s) /\ Sets(s) /\ ~Runs(s) /\ ~OfDemo(s)
    BY <1>2 DEF Completed, Sets, Runs, OfDemo, OfLoad
  <1>8. Chain(Thread, l)
    <2>1. ASSUME NEW i \in DOMAIN l
          PROVE  /\ ~OfDemo(l[i]) /\ l[i].op # "spawn" /\ l[i].op # "load_config"
                 /\ OfLoad(l[i]) => l[i].name = p
                 /\ i > 1 /\ Completed(l[i]) => Runs(l[i - 1])
                 /\ i > 1 /\ Sets(l[i]) => Completed(l[i - 1])
      <3>1. CASE i = 1 BY <1>2, <1>5, <1>7, <3>1
      <3>2. CASE i = 2 BY <1>2, <1>5, <1>7, <3>2
      <3>3. CASE i = 3
        <4>1. l[i] = s /\ l[i - 1] = c BY <1>5, <1>6, <3>3
        <4> QED BY <1>2, <1>7, <4>1
      <3> QED BY <1>6, <3>1, <3>2, <3>3
    <2> QED BY <2>1 DEF Chain
  <1>9. Ready(Thread, l, m, prj)
    <2>1. ~Completed(l[1]) /\ ~Sets(l[1]) BY <1>5, <1>7
    <2>2. ASSUME NEW i \in DOMAIN l
          PROVE  /\ Runs(l[i]) \/ l[i].op = "spawn" => prj[m.load] = l[i].name
                 /\ Sets(l[i]) => ~m.dry
      <3>1. CASE i = 1 BY <1>2, <1>5, <1>7, <3>1
      <3>2. CASE i = 2 BY <1>2, <1>5, <1>7, <3>2
      <3>3. CASE i = 3
        <4>1. l[i] = s /\ ~m.dry BY <1>5, <1>6, <3>3
        <4> QED BY <1>2, <1>7, <4>1
      <3> QED BY <1>6, <3>1, <3>2, <3>3
    <2> QED BY <2>1, <2>2 DEF Ready
  <1> QED BY <1>5, <1>8, <1>9 DEF Flow

LEMMA SpawnTrue ==
  ASSUME HomesInv, NEW prj, TrueInv(prj), NEW a \in Actors, Spawn(a)
  PROVE  TrueInv(prj)'
  <1>0. Thread \in Actors BY ClientsAssumption
  <1>1. /\ Calls(a, "spawn") /\ Free(Thread)
        /\ todo' = [todo EXCEPT ![a] = Tail(@), ![Thread] = ThreadCalls(Call(a).name, mem[a].dry)]
        /\ mem' = [mem EXCEPT ![Thread] = mem[a], ![a] = Blank]
        /\ UNCHANGED <<file, base, copy, saving, clock, returned>>
    BY DEF Spawn, Still
  <1>2. saving[a] = "no" /\ base[a] = Absent /\ todo[a] # <<>> /\ a # Thread
    BY <1>1, NotFounding DEF Free
  <1>3. saving[Thread] = "no" /\ base[Thread] = Absent
    BY <1>0, <1>1 DEF Free, HomesInv, Mine, Founding
  <1>4. PICK l, m, t, p, d :
          l = todo[a] /\ m = mem[a] /\ t = Tail(l) /\ p = l[1].name /\ d = m.dry
    OBVIOUS
  <1>5. /\ l \in Seq(CallType) /\ l # <<>> /\ l[1] = Call(a) /\ 1 \in DOMAIN l
        /\ Flow(a, l) /\ Ready(a, l, m, prj) /\ clock \in Nat
    BY <1>2, <1>4, FirstIs
  <1>6. l[1].op = "spawn" /\ l[1] \in CallType BY <1>1, <1>5 DEF Calls, Call
  <1>7. p \in Projects BY <1>4, <1>6, CallSays
  <1>8. m.load \in Nat /\ m.load < clock BY <1>5 DEF Ready
  <1>9. prj[m.load] = p
    <2>1. ~\E j \in DOMAIN l : j < 1 BY <1>5, TailIs
    <2> QED BY <1>4, <1>5, <1>6, <2>1 DEF Ready
  <1>10. Chain(a, l)
    <2>1. l \notin Seq(Harmless)
      <3>1. OfLoad(l[1]) BY <1>6 DEF OfLoad
      <3> QED BY <1>5, <3>1, HarmlessIs
    <2> QED BY <1>5, <2>1 DEF Flow
  <1>11. t = <<>>
    <2>1. Len(l) = 1 BY <1>5, <1>6, <1>10 DEF Chain
    <2> QED BY <1>4, <1>5, <2>1
  <1>12. PICK k : k = ThreadCalls(p, d) OBVIOUS
  <1>13. k \in Seq(CallType) /\ Flow(Thread, k) /\ Ready(Thread, k, m, prj)
    BY <1>4, <1>7, <1>8, <1>9, <1>12, ThreadChain
  <1>14. Grown(prj, prj) BY <1>1, <1>5, NoGrowth
  <1>15. Ready(Thread, k, m, prj)' BY <1>5, <1>13, <1>14, ReadyStay
  <1>16. todo'[Thread] = k /\ mem'[Thread] = m
    BY <1>0, <1>1, <1>2, <1>4, <1>5, <1>12 DEF HomesInv, Lists, Places
  <1>17. todo'[a] = <<>> /\ mem'[a] = Blank
    BY <1>1, <1>2, <1>4, <1>11 DEF HomesInv, Lists, Places
  <1>18. \A b \in Actors : b # a /\ b # Thread => todo'[b] = todo[b] /\ mem'[b] = mem[b]
    BY <1>1 DEF HomesInv, Lists, Places
  <1>19. ASSUME NEW b \in Actors PROVE Telling(b, prj)'
    <2>1. CASE b # a /\ b # Thread
      <3>1. todo'[b] = todo[b] /\ mem'[b] = mem[b] BY <1>18, <2>1
      <3>2. base'[b] = base[b] /\ copy'[b] = copy[b] /\ saving'[b] = saving[b] BY <1>1
      <3> QED BY <1>5, <1>14, <3>1, <3>2, OthersTelling DEF TrueInv
    <2>2. CASE b = Thread
      <3>1. saving'[b] = "no" /\ base'[b] = Absent BY <1>1, <1>3, <2>2
      <3>2. Ready(b, todo[b], mem[b], prj)' BY <1>15, <1>16, <2>2 DEF Ready, HasReturned
      <3>3. Flow(b, todo[b])' BY <1>13, <1>16, <2>2 DEF Flow, Chain
      <3> QED BY <3>1, <3>2, <3>3 DEF Telling
    <2>3. CASE b = a
      <3>1. saving'[b] = "no" /\ base'[b] = Absent BY <1>1, <1>2, <2>3
      <3>2. Blank.load \in Nat /\ Blank.load < clock' BY <1>1, <1>8, <1>5 DEF Blank
      <3>3. Ready(b, todo[b], mem[b], prj)' BY <1>17, <2>3, <3>2 DEF Ready
      <3>4. Flow(b, todo[b])'
        <4>1. <<>> \in Seq(Harmless) OBVIOUS
        <4> QED BY <1>17, <2>3, <4>1 DEF Flow
      <3> QED BY <3>1, <3>3, <3>4 DEF Telling
    <2> QED BY <2>1, <2>2, <2>3
  <1>20. Readable(file)' => Told(file, prj)' BY <1>1, <1>5, <1>14, FileTold DEF TrueInv
  <1>21. clock' \in Nat /\ prj \in [Nat -> Projects \cup {Absent}] BY <1>1 DEF TrueInv
  <1> QED BY <1>19, <1>20, <1>21 DEF TrueInv

(* Lists with a call of the demo preset have none about a load.            *)
LEMMA DemoTrue ==
  ASSUME HomesInv, NEW prj, TrueInv(prj), NEW a \in Actors,
         DemoSource(a) \/ DemoSnapshot(a) \/ DemoProject(a)
  PROVE  TrueInv(prj)'
  <1>1. PICK op \in {"demo_source", "demo_snapshot", "demo_project"} : Reads(a, op)
    BY DEF DemoSource, DemoSnapshot, DemoProject
  <1>2. /\ saving[a] = "no" /\ todo[a] # <<>> /\ Call(a).op = op /\ Call(a) \in CallType
        /\ base[a] = Absent
    BY <1>1, FileSound, NotFounding
  <1>3. file' = file /\ NoSave /\ clock' = clock /\ returned' = returned
    BY DEF DemoSource, DemoSnapshot, DemoProject, Quiet, Still, NoSave
  <1>4. PICK l, n : l = todo[a] /\ n = mem[a] OBVIOUS
  <1>5. /\ l \in Seq(CallType) /\ l # <<>> /\ l[1] = Call(a) /\ 1 \in DOMAIN l
        /\ Flow(a, l) /\ Ready(a, l, n, prj) /\ clock \in Nat
    BY <1>2, <1>4, FirstIs
  <1>6. PICK m : mem' = [mem EXCEPT ![a] = m] /\ m.load = n.load
    <2>1. \/ mem' = mem
          \/ \E v : mem' = [mem EXCEPT ![a] = [mem[a] EXCEPT !.snapshot = v]]
      BY DEF DemoSource, DemoSnapshot, DemoProject, Learn
    <2>2. \E m : SameLoad(a, m) /\ mem' = [mem EXCEPT ![a] = m] BY <1>2, <2>1, Ways, SameLoadIs
    <2> QED BY <1>4, <2>2 DEF SameLoad
  <1>7. l \in Seq(Harmless)
    <2>1. OfDemo(l[1]) BY <1>2, <1>5 DEF OfDemo
    <2> QED BY <1>5, <2>1 DEF Flow, Chain
  <1>8. Tail(l) \in Seq(Harmless) BY <1>5, <1>7
  <1>9. \E t \in Seq(Harmless) : todo' = [todo EXCEPT ![a] = t]
    <2>1. CASE DemoSource(a)
      <3>1. Call(a).op = "demo_source" BY <2>1, FileSound DEF DemoSource
      <3>2. Call(a).name \in Sources BY <1>2, <3>1, CallSays
      <3>3. DemoOverlay \in Overlays BY CatalogAssumption DEF DemoOverlay
      <3>4. /\ Add(Call(a).name, DemoOverlay, FALSE) \in Harmless
            /\ [op |-> "update_source", name |-> Call(a).name, field |-> "overlay",
                value |-> DemoOverlay] \in Harmless
        BY <3>2, <3>3, OtherCallIs DEF Harmless, Add
      <3>5. PICK c \in Harmless : Then(a, <<c>> \o Tail(l)) BY <1>4, <2>1, <3>4 DEF DemoSource, Add
      <3>6. <<c>> \o Tail(l) \in Seq(Harmless) BY <1>8
      <3> QED BY <3>5, <3>6 DEF Then
    <2>2. CASE DemoSnapshot(a)
      <3>1. Call(a).op = "demo_snapshot" BY <2>2, FileSound DEF DemoSnapshot
      <3>2. Call(a).name \in Sources BY <1>2, <3>1, CallSays
      <3>3. /\ To("get_source", Call(a).name) \in Harmless /\ To("introspect", Call(a).name) \in Harmless
            /\ To("create_snapshot", Call(a).name) \in Harmless
        BY <3>2, OtherCallIs DEF Harmless
      <3>4. PICK k : k = Capture(Call(a).name) OBVIOUS
      <3>5. k \in Seq(Harmless) BY <3>3, <3>4 DEF Capture
      <3>6. Return(a) \/ Then(a, k \o Tail(l)) BY <1>4, <2>2, <3>4 DEF DemoSnapshot
      <3>7. k \o Tail(l) \in Seq(Harmless) BY <1>8, <3>5
      <3> QED BY <1>4, <1>8, <3>6, <3>7 DEF Then, Return
    <2>3. CASE DemoProject(a)
      <3>1. Call(a).op = "demo_project" BY <2>3, FileSound DEF DemoProject
      <3>2. Call(a).name \in Projects /\ Call(a).source \in Sources BY <1>2, <3>1, CallSays
      <3>3. NewProject(Call(a).name, Call(a).source) \in Harmless
        BY <3>2, OtherCallIs DEF Harmless
      <3>4. PICK c : c = NewProject(Call(a).name, Call(a).source) OBVIOUS
      <3>5. Then(a, <<c>> \o Tail(l)) \/ Then(a, Tail(l)) \/ Then(a, <<>>)
        BY <1>4, <2>3, <3>4 DEF DemoProject
      <3>6. <<c>> \o Tail(l) \in Seq(Harmless) /\ <<>> \in Seq(Harmless) BY <1>8, <3>3, <3>4
      <3> QED BY <1>8, <3>5, <3>6 DEF Then
    <2> QED BY <2>1, <2>2, <2>3
  <1>10. PICK t \in Seq(Harmless) : todo' = [todo EXCEPT ![a] = t] BY <1>9
  <1>11. t \in Seq(CallType) BY HarmlessIs
  <1>12. m.load \in Nat /\ m.load < clock BY <1>5, <1>6 DEF Ready
  <1>13. Flow(a, t) /\ Ready(a, t, m, prj) BY <1>12, ReadyHarmless
  <1>14. Grown(prj, prj) BY <1>3, <1>5, NoGrowth
  <1>15. Ready(a, t, m, prj)' BY <1>5, <1>11, <1>13, <1>14, ReadyStay
  <1> QED BY <1>2, <1>3, <1>6, <1>10, <1>11, <1>13, <1>14, <1>15, TrueNoSave

(* The three handlers that load.                                           *)
LEMMA LoadersReady ==
  ASSUME NEW a \in Actors, a # Thread, NEW l \in ToolStartLoad \cup StudioLoad \cup StudioMigrate,
         l \in Seq(CallType), NEW m, m.load \in Nat, m.load < clock, NEW prj
  PROVE  Flow(a, l) /\ Ready(a, l, m, prj)
  <1>1. CASE l \in ToolStartLoad
    <2>1. PICK p \in Projects :
            l = <<To("get_project", p), Do("get_source"), Do("get_latest_snapshot"), Do("load_config"),
                  To("start_load", p), [op |-> "try", rescue |-> <<Complete("failed")>>],
                  To("run", p), Complete("completed")>>
      BY <1>1 DEF ToolStartLoad
    <2>2. PICK c1, c2, c3, c4, c5, c6, c7, c8 :
            /\ c1 = To("get_project", p) /\ c2 = Do("get_source") /\ c3 = Do("get_latest_snapshot")
            /\ c4 = Do("load_config") /\ c5 = To("start_load", p)
            /\ c6 = [op |-> "try", rescue |-> <<Complete("failed")>>]
            /\ c7 = To("run", p) /\ c8 = Complete("completed")
      OBVIOUS
    <2>3. l = <<c1, c2, c3, c4, c5, c6, c7, c8>> BY <2>1, <2>2
    <2>4. /\ Len(l) = 8 /\ DOMAIN l = 1 .. 8
          /\ l[1] = c1 /\ l[2] = c2 /\ l[3] = c3 /\ l[4] = c4 /\ l[5] = c5 /\ l[6] = c6 /\ l[7] = c7
          /\ l[8] = c8
      BY <2>3
    <2>5. /\ c1.op = "get_project" /\ c2.op = "get_source" /\ c3.op = "get_latest_snapshot"
          /\ c4.op = "load_config" /\ c5.op = "start_load" /\ c5.name = p /\ c6.op = "try"
          /\ c7.op = "run" /\ c7.name = p /\ c8.op = "complete_load"
      BY <2>2 DEF To, Do, Complete
    <2>6. DOMAIN l = {1, 2, 3, 4, 5, 6, 7, 8} BY <2>4
    <2>7. ASSUME NEW i \in DOMAIN l
          PROVE  /\ ~OfDemo(l[i]) /\ l[i].op # "spawn" /\ ~Sets(l[i])
                 /\ Completed(l[i]) => i = 8
                 /\ Runs(l[i]) => i = 7
                 /\ OfLoad(l[i]) => l[i].name = p
      BY <2>4, <2>5, <2>6 DEF OfDemo, Sets, Completed, Runs, OfLoad
    <2>8. Runs(l[8 - 1]) BY <2>4, <2>5 DEF Runs
    <2>9. Chain(a, l) BY <2>7, <2>8 DEF Chain
    <2>10. l # <<>> /\ 1 \in DOMAIN l /\ 5 \in DOMAIN l /\ 5 < 7 BY <2>4, <2>6
    <2>11. Ready(a, l, m, prj) BY <2>4, <2>5, <2>7, <2>10 DEF Ready
    <2> QED BY <2>9, <2>11 DEF Flow
  <1>2. CASE l \in StudioLoad
    <2>1. PICK p \in Projects :
            l = <<To("get_project", p), Do("get_source"), Do("get_latest_snapshot"), Do("load_config"),
                  To("start_load", p), Refusing(<<Complete("failed")>>), Do("connect"), To("spawn", p)>>
      BY <1>2 DEF StudioLoad
    <2>2. PICK c1, c2, c3, c4, c5, c6, c7, c8 :
            /\ c1 = To("get_project", p) /\ c2 = Do("get_source") /\ c3 = Do("get_latest_snapshot")
            /\ c4 = Do("load_config") /\ c5 = To("start_load", p)
            /\ c6 = Refusing(<<Complete("failed")>>) /\ c7 = Do("connect") /\ c8 = To("spawn", p)
      OBVIOUS
    <2>3. l = <<c1, c2, c3, c4, c5, c6, c7, c8>> BY <2>1, <2>2
    <2>4. /\ Len(l) = 8 /\ DOMAIN l = 1 .. 8
          /\ l[1] = c1 /\ l[2] = c2 /\ l[3] = c3 /\ l[4] = c4 /\ l[5] = c5 /\ l[6] = c6 /\ l[7] = c7
          /\ l[8] = c8
      BY <2>3
    <2>5. /\ c1.op = "get_project" /\ c2.op = "get_source" /\ c3.op = "get_latest_snapshot"
          /\ c4.op = "load_config" /\ c5.op = "start_load" /\ c5.name = p /\ c6.op = "resolve_target"
          /\ c7.op = "connect" /\ c8.op = "spawn" /\ c8.name = p
      BY <2>2 DEF To, Do, Refusing
    <2>6. DOMAIN l = {1, 2, 3, 4, 5, 6, 7, 8} BY <2>4
    <2>7. ASSUME NEW i \in DOMAIN l
          PROVE  /\ ~OfDemo(l[i]) /\ ~Completed(l[i]) /\ ~Sets(l[i]) /\ ~Runs(l[i])
                 /\ l[i].op = "spawn" => i = 8
                 /\ OfLoad(l[i]) => l[i].name = p
      BY <2>4, <2>5, <2>6 DEF OfDemo, Sets, Completed, Runs, OfLoad
    <2>8. Chain(a, l) BY <2>4, <2>7 DEF Chain
    <2>9. l # <<>> /\ 1 \in DOMAIN l /\ 5 \in DOMAIN l /\ 5 < 8 BY <2>4, <2>6
    <2>10. Ready(a, l, m, prj) BY <2>4, <2>5, <2>7, <2>9 DEF Ready
    <2> QED BY <2>8, <2>10 DEF Flow
  <1>3. CASE l \in StudioMigrate
    <2>1. PICK p \in Projects :
            l = <<To("get_project", p), Do("get_latest_snapshot"), Do("load_config"), Refusing(<<>>),
                  To("list", p), To("migrate", p), To("set_loaded_mapping", p)>>
      BY <1>3 DEF StudioMigrate
    <2>2. PICK c1, c2, c3, c4, c5, c6, c7 :
            /\ c1 = To("get_project", p) /\ c2 = Do("get_latest_snapshot") /\ c3 = Do("load_config")
            /\ c4 = Refusing(<<>>) /\ c5 = To("list", p) /\ c6 = To("migrate", p)
            /\ c7 = To("set_loaded_mapping", p)
      OBVIOUS
    <2>3. l = <<c1, c2, c3, c4, c5, c6, c7>> BY <2>1, <2>2
    <2>4. /\ Len(l) = 7 /\ DOMAIN l = 1 .. 7
          /\ l[1] = c1 /\ l[2] = c2 /\ l[3] = c3 /\ l[4] = c4 /\ l[5] = c5 /\ l[6] = c6 /\ l[7] = c7
      BY <2>3
    <2>5. /\ c1.op = "get_project" /\ c2.op = "get_latest_snapshot" /\ c3.op = "load_config"
          /\ c4.op = "resolve_target" /\ c5.op = "list" /\ c6.op = "migrate" /\ c6.name = p
          /\ c7.op = "set_loaded_mapping" /\ c7.name = p
      BY <2>2 DEF To, Do, Refusing
    <2>6. DOMAIN l = {1, 2, 3, 4, 5, 6, 7} BY <2>4
    <2>7. ASSUME NEW i \in DOMAIN l
          PROVE  /\ ~OfDemo(l[i]) /\ ~Completed(l[i]) /\ ~Runs(l[i]) /\ l[i].op # "spawn"
                 /\ Sets(l[i]) => i = 7
                 /\ OfLoad(l[i]) => l[i].name = p
      BY <2>4, <2>5, <2>6 DEF OfDemo, Sets, Completed, Runs, OfLoad
    <2>8. l[7 - 1].op = "migrate" BY <2>4, <2>5
    <2>9. Chain(a, l) BY <2>7, <2>8 DEF Chain
    <2>10. 1 \in DOMAIN l /\ ~Sets(l[1]) /\ ~Completed(l[1])
      BY <2>4, <2>5, <2>6 DEF Sets, Completed
    <2>11. Ready(a, l, m, prj) BY <2>7, <2>10 DEF Ready
    <2> QED BY <2>9, <2>11 DEF Flow
  <1> QED BY <1>1, <1>2, <1>3

LEMMA BeginTrue ==
  ASSUME HomesInv, NEW prj, TrueInv(prj), NEW a \in Actors, Begin(a)
  PROVE  TrueInv(prj)'
  <1>1. /\ a # Thread /\ saving[a] = "no" /\ todo[a] = <<>>
        /\ file' = file /\ NoSave /\ clock' = clock /\ returned' = returned
        /\ mem' = [mem EXCEPT ![a] = Blank]
    BY DEF Begin, Free, Learn, NoSave
  <1>2. PICK l \in Handlers(a) : todo' = [todo EXCEPT ![a] = l] BY DEF Begin, Then
  <1>3. /\ l \in Seq(OtherCalls) \/ l \in ToolStartLoad \cup StudioLoad \cup StudioMigrate
        /\ l \in Seq(CallType)
    BY HandlersTyped
  <1>4. base[a] = Absent BY <1>1 DEF HomesInv, Mine, Founding
  <1>5. clock \in Nat /\ Blank.load \in Nat /\ Blank.load < clock
    <2>1. Ready(a, todo[a], mem[a], prj) /\ clock \in Nat BY DEF TrueInv, Telling
    <2>2. mem[a].load \in Nat /\ mem[a].load < clock BY <2>1 DEF Ready
    <2>3. Blank.load = 0 BY DEF Blank
    <2> QED BY <2>1, <2>2, <2>3
  <1>6. Flow(a, l) /\ Ready(a, l, Blank, prj)
    <2>1. CASE l \in Seq(OtherCalls)
      <3>1. l \in Seq(Harmless) BY <2>1, HarmlessIs
      <3> QED BY <1>5, <3>1, ReadyHarmless
    <2>2. CASE l \in ToolStartLoad \cup StudioLoad \cup StudioMigrate
      BY <1>1, <1>3, <1>5, <2>2, LoadersReady
    <2> QED BY <1>3, <2>1, <2>2
  <1>7. PICK m : m = Blank OBVIOUS
  <1>8. Ready(a, l, m, prj) /\ mem' = [mem EXCEPT ![a] = m] BY <1>1, <1>6, <1>7
  <1>9. Grown(prj, prj) BY <1>1, <1>5, NoGrowth
  <1>10. Ready(a, l, m, prj)' BY <1>3, <1>5, <1>8, <1>9, ReadyStay
  <1> QED BY <1>1, <1>2, <1>3, <1>4, <1>6, <1>8, <1>9, <1>10, TrueNoSave

LEMMA CrashTrue ==
  ASSUME HomesInv, NEW prj, TrueInv(prj), NEW a \in Actors, Crash(a)
  PROVE  TrueInv(prj)'
  <1> DEFINE gone == IF a = Studio THEN {Studio, Thread} ELSE {a}
  <1>1. /\ file' = file /\ clock' = clock /\ returned' = returned
        /\ todo' = [b \in Actors |-> IF b \in gone THEN <<>> ELSE todo[b]]
        /\ saving' = [b \in Actors |-> IF b \in gone THEN "no" ELSE saving[b]]
        /\ base' = [b \in Actors |-> IF b \in gone THEN Absent ELSE base[b]]
        /\ copy' = [b \in Actors |-> IF b \in gone THEN Absent ELSE copy[b]]
        /\ mem' = [b \in Actors |-> IF b \in gone THEN Blank ELSE mem[b]]
    BY DEF Crash
  <1> HIDE DEF gone
  <1>2. clock \in Nat /\ prj \in [Nat -> Projects \cup {Absent}] BY DEF TrueInv
  <1>3. Grown(prj, prj) BY <1>1, <1>2, NoGrowth
  <1>4. Blank.load \in Nat /\ Blank.load < clock
    <2>1. Ready(a, todo[a], mem[a], prj) BY DEF TrueInv, Telling
    <2>2. mem[a].load \in Nat /\ mem[a].load < clock BY <2>1 DEF Ready
    <2>3. Blank.load = 0 BY DEF Blank
    <2> QED BY <1>2, <2>2, <2>3
  <1>5. ASSUME NEW b \in Actors PROVE Telling(b, prj)'
    <2>1. CASE b \in gone
      <3>1. todo'[b] = <<>> /\ mem'[b] = Blank /\ saving'[b] = "no" /\ base'[b] = Absent
        BY <1>1, <2>1
      <3>2. Ready(b, todo[b], mem[b], prj)' BY <1>1, <1>4, <3>1 DEF Ready
      <3>3. Flow(b, todo[b])'
        <4>1. <<>> \in Seq(Harmless) OBVIOUS
        <4> QED BY <3>1, <4>1 DEF Flow
      <3> QED BY <3>1, <3>2, <3>3 DEF Telling
    <2>2. CASE b \notin gone
      <3>1. /\ todo'[b] = todo[b] /\ mem'[b] = mem[b] /\ base'[b] = base[b] /\ copy'[b] = copy[b]
            /\ saving'[b] = saving[b]
        BY <1>1, <2>2
      <3>2. Telling(b, prj) BY DEF TrueInv
      <3> QED BY <1>2, <1>3, <3>1, <3>2, OthersTelling
    <2> QED BY <2>1, <2>2
  <1>6. Readable(file)' => Told(file, prj)' BY <1>1, <1>2, <1>3, FileTold DEF TrueInv
  <1>7. clock' \in Nat BY <1>1, <1>2
  <1> QED BY <1>2, <1>5, <1>6, <1>7 DEF TrueInv

(* Followers of a load.                                                    *)
LEMMA TrueStay ==
  ASSUME HomesInv, NEW prj, TrueInv(prj),
         UNCHANGED <<file, todo, mem, base, copy, saving, clock, returned>>
  PROVE  TrueInv(prj)'
  <1>1. clock \in Nat /\ prj \in [Nat -> Projects \cup {Absent}] BY DEF TrueInv
  <1>2. Grown(prj, prj) BY <1>1, NoGrowth
  <1>3. ASSUME NEW b \in Actors PROVE Telling(b, prj)' BY <1>1, <1>2, OthersTelling DEF TrueInv
  <1>4. Readable(file)' => Told(file, prj)' BY <1>1, <1>2, FileTold DEF TrueInv
  <1> QED BY <1>1, <1>3, <1>4 DEF TrueInv

LEMMA InitTrue == ASSUME Init PROVE \E prj : TrueInv(prj)
  <1>1. PICK prj : prj = [n \in Nat |-> Absent] OBVIOUS
  <1>2. prj \in [Nat -> Projects \cup {Absent}] BY <1>1
  <1>3. clock = 2 /\ clock \in Nat BY DEF Init
  <1>4. ASSUME NEW a \in Actors PROVE Telling(a, prj)
    <2>1. todo[a] = <<>> /\ mem[a] = Blank /\ saving[a] = "no" /\ base[a] = Absent BY DEF Init
    <2>2. <<>> \in Seq(Harmless) OBVIOUS
    <2>3. Blank.load \in Nat /\ Blank.load < clock BY <1>3 DEF Blank
    <2>4. Flow(a, <<>>) /\ Ready(a, <<>>, Blank, prj) BY <2>2, <2>3, ReadyHarmless
    <2> QED BY <2>1, <2>4 DEF Telling
  <1>5. Told(NewCatalog, prj) BY DEF Told, NewCatalog
  <1>6. Told(Stocked, prj)
    <2>1. Stocked.history = {} BY DEF Stocked
    <2>2. \A p \in Projects : Stocked.projects[p].loaded = Absent BY DEF Stocked
    <2> QED BY <2>1, <2>2 DEF Told
  <1>7. Told(file, prj) BY <1>5, <1>6 DEF Init
  <1>8. TrueInv(prj) BY <1>2, <1>3, <1>4, <1>7 DEF TrueInv
  <1> QED BY <1>8

LEMMA NextTrue ==
  ASSUME HomesInv, NEW prj, TrueInv(prj), [Next]_vars
  PROVE  \E q : TrueInv(q)'
  <1>1. ASSUME NEW a \in Actors, Begin(a) PROVE TrueInv(prj)' BY <1>1, BeginTrue
  <1>2. ASSUME NEW a \in Actors, Step(a) PROVE \E q : TrueInv(q)'
    <2>1. CASE Method(a) /\ UNCHANGED <<returned, progressVars, begun, crashes>>
      BY <2>1, MethodTrue
    <2>2. CASE \/ Introspect(a) \/ Accept(a) \/ Resolve(a) \/ Annotate(a) \/ LoadConfig(a)
               \/ ResolveTarget(a) \/ Connect(a) \/ Try(a) \/ TellError(a)
      <3>1. TrueInv(prj)' BY <2>2, GoOnTrue
      <3> QED BY <3>1
    <2>3. CASE Spawn(a) \/ Run(a) \/ Migrate(a) \/ DemoSource(a) \/ DemoSnapshot(a) \/ DemoProject(a)
      <3>1. TrueInv(prj)' BY <2>3, SpawnTrue, RunTrue, MigrateTrue, DemoTrue
      <3> QED BY <3>1
    <2> QED BY <1>2, <2>1, <2>2, <2>3 DEF Step
  <1>3. ASSUME NEW a \in Actors, Crash(a) PROVE TrueInv(prj)' BY <1>3, CrashTrue
  <1>4. CASE Poll \/ Follow \/ Stream \/ UNCHANGED vars
    <2>1. UNCHANGED <<file, todo, mem, base, copy, saving, clock, returned>>
      BY <1>4 DEF Poll, Follow, Stream, StreamTakes, StreamLooks, Followed, vars, catalogVars
    <2> QED BY <2>1, TrueStay
  <1>5. CASE \E a \in Actors : Begin(a) \/ Step(a) \/ Crash(a) BY <1>1, <1>2, <1>3, <1>5
  <1> QED BY <1>4, <1>5 DEF Next

(* A load on record as completed has returned, and the mapping a project   *)
(* has as loaded is that of a load or migration of it which wrote          *)
(* (complete_load, set_loaded_mapping), whatever managers, crashes and     *)
(* torn writes make of the file.                                           *)
THEOREM HistoryStaysTrue == Spec => []HistoryIsTrue
  <1> DEFINE Inv == HomesInv /\ \E prj : TrueInv(prj)
  <1>1. Init => Inv BY InitHomes, InitTrue
  <1>2. Inv /\ [Next]_vars => Inv'
    <2> SUFFICES ASSUME HomesInv, NEW prj, TrueInv(prj), [Next]_vars PROVE Inv' OBVIOUS
    <2>1. HomesInv' BY NextHomes
    <2>2. \E q : TrueInv(q)' BY NextTrue
    <2> QED BY <2>1, <2>2
  <1>3. Inv => HistoryIsTrue
    <2> SUFFICES ASSUME NEW prj, TrueInv(prj), Readable(file) PROVE HistoryIsTrue
      BY DEF HistoryIsTrue
    <2>1. Told(file, prj) BY DEF TrueInv
    <2> QED BY <2>1 DEF Told, HistoryIsTrue
  <1> QED BY <1>1, <1>2, <1>3, PTL DEF Spec

(***************************************************************************)
(* How strictly snapshots are classified                                   *)
(***************************************************************************)

(* What comes before what in a list: a snapshot is made of what was just   *)
(* introspected or accepted, and a source that gets a level has its latest *)
(* snapshot read, annotated and updated, with nothing in between.          *)
Names(c, op) == c = To(op, c.name) /\ c.name \in Sources
OfStudio(l) == \A i \in DOMAIN l :
  /\ l[i].op \notin ProcessOnly /\ ~SetsLevel(l[i])
  /\ l[i].op = "create_snapshot" /\ i > 1 => l[i - 1].op = "introspect"
  /\ l[i].op = "introspect" /\ i > 1 => Names(l[i - 1], "get_source")
OfProcess(l) == \A i \in DOMAIN l :
  /\ l[i].op \notin StudioOnly
  /\ l[i].op = "create_snapshot" /\ i > 1 => l[i - 1].op \in {"introspect", "accept"}
  /\ l[i].op = "introspect" /\ i > 1 => Names(l[i - 1], "get_source")
  /\ l[i].op = "accept" /\ i > 1 => l[i - 1].op = "get_latest_snapshot"
  /\ SetsLevel(l[i]) =>
       /\ Len(l) = i + 3 /\ l[i + 1] = To("get_latest_snapshot", l[i].name)
       /\ l[i + 2].op = "annotate"
  /\ l[i].op = "annotate" =>
       /\ Len(l) = i + 1 /\ l[i + 1].op = "update_snapshot_schema"
       /\ i > 1 => Names(l[i - 1], "get_latest_snapshot")
       /\ i > 2 => SetsLevel(l[i - 2])
  /\ l[i].op = "update_snapshot_schema" => Len(l) = i /\ (i > 1 => l[i - 1].op = "annotate")
Arranged(a, l) == IF a = Process THEN OfProcess(l) ELSE OfStudio(l)

(* A snapshot that was in the file before the time k; src has the source   *)
(* of each.                                                                *)
Recorded(n, src, k) ==
  n \in SchemaSnapshot /\ n.id # 0 /\ n.id < k /\ src[n.id] = n.source

(* What an actor remembers when it comes to the calls that use it.         *)
Informed(a, l, m, src, k) ==
  /\ a # Process => m.level = 0
  /\ l # <<>> /\ l[1].op = "create_snapshot" =>
       \/ /\ m.snapshot \in SchemaSnapshot /\ m.snapshot.id = 0
          /\ m.snapshot.level = m.source.level
       \/ a = Process /\ m.snapshot.id # 0 /\ m.snapshot # Absent
  /\ l # <<>> /\ l[1].op = "introspect" => m.source \in SourceConfig
  /\ l # <<>> /\ l[1].op = "accept" => m.snapshot.id # 0 /\ m.snapshot # Absent
  /\ l # <<>> /\ l[1].op \in {"annotate", "update_snapshot_schema"} => Recorded(m.snapshot, src, k)
  /\ l # <<>> /\ l[1].op = "update_snapshot_schema" => m.snapshot.level = m.level

(* The snapshots of a source, the ones captured last, and what is to be    *)
(* shown of them.                                                          *)
Of(f, s) == {n \in f.snapshots : n.source = s}
Newest(f, s) == {n \in Of(f, s) : \A o \in Of(f, s) : o.id <= n.id}
Strict(f, s) == f.sources[s] # Absent => \A n \in Newest(f, s) : f.sources[s].level <= n.level

(* The process has set the level of a source and has its latest snapshot   *)
(* to annotate.                                                            *)
Resyncing(l) ==
  /\ l # <<>>
  /\ \/ l[1].op \in {"annotate", "update_snapshot_schema"}
     \/ 2 \in DOMAIN l /\ l[2].op = "annotate"
Subject(l, m) == IF l[1].op = "get_latest_snapshot" THEN l[1].name ELSE m.snapshot.source
(* A source whose latest snapshot is less strict is the one the process is *)
(* annotating, to a level the source does not exceed.                      *)
Owing(l, m, s) == Resyncing(l) /\ Subject(l, m) = s
Owed(f, l, m, s) ==
  /\ Owing(l, m, s)
  /\ l[1].op # "get_latest_snapshot" => \E n \in Of(f, s) : n.id = m.snapshot.id
Within(f, m, s) == f.sources[s] # Absent => f.sources[s].level <= m.level
Due(f, l, m) == \A s \in Sources :
  /\ Strict(f, s) \/ Owed(f, l, m, s)
  /\ Owing(l, m, s) => Within(f, m, s)
Expected(f) == Due(f, todo[Process], mem[Process])

(* A catalog that somebody holds: its snapshots were made once, of sources *)
(* that are in it.                                                         *)
Grounded(f, src, k) == \A n \in f.snapshots : Recorded(n, src, k) /\ f.sources[n.source] # Absent

(* What others write in place of what they have read.                      *)
Alike(f, g, s) ==
  /\ Of(f, s) = Of(g, s) /\ (f.sources[s] = Absent <=> g.sources[s] = Absent)
  /\ f.sources[s] # Absent => f.sources[s].level = g.sources[s].level
Lower(f, g, s) == g.sources[s] # Absent =>
  g.sources[s].level = 0 \/ (f.sources[s] # Absent /\ g.sources[s].level = f.sources[s].level)
Follows(f, g) == \A s \in Sources : (Alike(f, g, s) \/ Strict(g, s)) /\ Lower(f, g, s)

(* What an actor is about to do to the file leaves it so.                  *)
Pending(a, src) ==
  /\ Arranged(a, todo[a]) /\ Informed(a, todo[a], mem[a], src, clock)
  /\ saving[a] # "no" => Grounded(copy[a], src, clock)
  /\ saving[a] = "truncate" => Readable(base[a])
  /\ saving[a] = "write" => file = Empty /\ \A b \in Actors : saving[b] = "write" => b = a
  /\ IF a = Process THEN saving[a] # "no" => Expected(copy[a])
     ELSE /\ saving[a] = "truncate" => Follows(base[a], copy[a])
          /\ saving[a] = "write" => saving[Process] = "truncate" \/ Expected(copy[a])
  /\ saving[a] = "no" /\ base[a] # Absent =>
       /\ Readable(base[a]) /\ Grounded(base[a], src, clock)
       /\ a = Process => \A s \in Sources : Strict(base[a], s)
(* Nobody has run into another yet.                                        *)
Calm(src) ==
  /\ clock \in Nat /\ clock # 0
  /\ Readable(file) => Grounded(file, src, clock) /\ (saving[Process] = "truncate" \/ Expected(file))
  /\ \A a \in Actors : Pending(a, src)
StrictInv(src) == Overlapped \/ Calm(src)

-------------------------------------------------------------------------------

LEMMA HighestIs ==
  ASSUME NEW S, S # {}, NEW k \in Nat, \A n \in S : n.id \in Nat /\ n.id < k
  PROVE  \E n \in S : \A o \in S : o.id <= n.id
  <1> DEFINE T == {k - n.id : n \in S}
  <1>1. T \subseteq Nat /\ T # {} OBVIOUS
  <1>2. \E x \in T : \A y \in T : ~ (<<y, x>> \in OpToRel(<, Nat))
    BY <1>1, NatLessThanWellFounded, WFMin
  <1>3. PICK x \in T : \A y \in T : ~ (y < x) BY <1>1, <1>2 DEF OpToRel
  <1>4. PICK n \in S : x = k - n.id OBVIOUS
  <1>5. ASSUME NEW o \in S PROVE o.id <= n.id
    <2>1. k - o.id \in T OBVIOUS
    <2>2. ~ (k - o.id < k - n.id) BY <1>3, <1>4, <2>1
    <2> QED BY <2>2
  <1> QED BY <1>5

LEMMA RecordedIs ==
  ASSUME NEW src, NEW k, NEW n, Recorded(n, src, k)
  PROVE  n.id \in Nat /\ n.level \in Nat /\ n.level \in Levels /\ n.source \in Sources /\ n # Absent
  BY CatalogAssumption DEF Recorded, SchemaSnapshot

(* get_latest_snapshot gives one of the newest, or None.                   *)
LEMMA LatestIs ==
  ASSUME NEW src, Grounded(file, src, clock), clock \in Nat, NEW s, Of(file, s) # {}
  PROVE  Latest(s) \in Newest(file, s) /\ Latest(s) \in Of(file, s) /\ Recorded(Latest(s), src, clock)
  <1>1. DependentSnapshots(s) = Of(file, s) BY DEF DependentSnapshots, Of
  <1>2. Latest(s) = CHOOSE n \in Of(file, s) : \A o \in Of(file, s) : o.id <= n.id
    BY <1>1 DEF Latest
  <1>3. \A n \in Of(file, s) : Recorded(n, src, clock) BY DEF Of, Grounded
  <1>4. \A n \in Of(file, s) : n.id \in Nat /\ n.id < clock BY <1>3, RecordedIs DEF Recorded
  <1>5. \E n \in Of(file, s) : \A o \in Of(file, s) : o.id <= n.id BY <1>4, HighestIs
  <1>6. Latest(s) \in Of(file, s) /\ \A o \in Of(file, s) : o.id <= Latest(s).id BY <1>2, <1>5
  <1> QED BY <1>3, <1>6 DEF Newest

LEMMA LatestNone ==
  ASSUME NEW src, Grounded(file, src, clock), clock \in Nat, NEW s
  PROVE  Latest(s) = Absent <=> Of(file, s) = {}
  <1>1. Of(file, s) # {} => Latest(s) # Absent BY LatestIs, RecordedIs
  <1>2. Of(file, s) = {} => Latest(s) = Absent BY DEF Latest, DependentSnapshots, Of
  <1> QED BY <1>1, <1>2

LEMMA NamesOp == ASSUME NEW c, NEW op, Names(c, op) PROVE c.op = op
  BY DEF Names, To

(* What is left of a list when its first call is made.                     *)
LEMMA ArrangedTail ==
  ASSUME NEW a, NEW l \in Seq(CallType), l # <<>>, Arranged(a, l), NEW t, t = Tail(l)
  PROVE  /\ Arranged(a, t)
         /\ t # <<>> =>
              /\ t[1].op = "create_snapshot" =>
                   l[1].op = "introspect" \/ (l[1].op = "accept" /\ a = Process)
              /\ t[1].op = "introspect" => Names(l[1], "get_source")
              /\ t[1].op = "accept" => a = Process /\ l[1].op = "get_latest_snapshot"
              /\ t[1].op = "annotate" => /\ a = Process /\ Names(l[1], "get_latest_snapshot")
                                         /\ Resyncing(l)
              /\ t[1].op = "update_snapshot_schema" => a = Process /\ l[1].op = "annotate"
         /\ a = Process /\ ~Resyncing(l) /\ ~SetsLevel(l[1]) => ~Resyncing(t)
  <1>1. /\ t \in Seq(CallType) /\ Len(l) > 0 /\ Len(t) = Len(l) - 1
        /\ \A i \in DOMAIN t : i + 1 \in DOMAIN l /\ t[i] = l[i + 1] /\ i \in Nat \ {0}
        /\ \A i \in DOMAIN l : i > 1 => i - 1 \in DOMAIN t
        /\ DOMAIN l = 1 .. Len(l) /\ 1 \in DOMAIN l /\ Len(l) \in Nat
    BY TailIs
  <1>2. DOMAIN t = 1 .. Len(t) BY <1>1
  <1>3. t # <<>> => 1 \in DOMAIN t /\ 2 \in DOMAIN l /\ t[1] = l[2] BY <1>1, <1>2
  <1>4. CASE a # Process
    <2>1. OfStudio(l) BY <1>4 DEF Arranged
    <2>2. ASSUME NEW i \in DOMAIN t
          PROVE  /\ t[i].op \notin ProcessOnly /\ ~SetsLevel(t[i])
                 /\ t[i].op = "create_snapshot" /\ i > 1 => t[i - 1].op = "introspect"
                 /\ t[i].op = "introspect" /\ i > 1 => Names(t[i - 1], "get_source")
      <3>1. i + 1 \in DOMAIN l /\ t[i] = l[i + 1] /\ (i + 1) - 1 = i /\ i + 1 > 1 BY <1>1
      <3>2. i > 1 => t[i - 1] = l[i]
        <4>1. i > 1 => i - 1 \in DOMAIN t /\ (i - 1) + 1 = i BY <1>1, <1>2
        <4> QED BY <1>1, <4>1
      <3> QED BY <2>1, <3>1, <3>2 DEF OfStudio
    <2>3. OfStudio(t) BY <2>2 DEF OfStudio
    <2>4. ASSUME t # <<>>
          PROVE  /\ t[1].op \notin ProcessOnly /\ (t[1].op = "create_snapshot" => l[1].op = "introspect")
                 /\ t[1].op = "introspect" => Names(l[1], "get_source")
      <3>1. 2 \in DOMAIN l /\ t[1] = l[2] /\ 2 > 1 /\ 2 - 1 = 1 BY <1>3, <2>4
      <3> QED BY <2>1, <3>1 DEF OfStudio
    <2> QED BY <1>4, <2>3, <2>4 DEF Arranged, ProcessOnly
  <1>5. CASE a = Process
    <2>1. OfProcess(l) BY <1>5 DEF Arranged
    <2>2. ASSUME NEW i \in DOMAIN t
          PROVE  /\ t[i].op \notin StudioOnly
                 /\ t[i].op = "create_snapshot" /\ i > 1 => t[i - 1].op \in {"introspect", "accept"}
                 /\ t[i].op = "introspect" /\ i > 1 => Names(t[i - 1], "get_source")
                 /\ t[i].op = "accept" /\ i > 1 => t[i - 1].op = "get_latest_snapshot"
                 /\ SetsLevel(t[i]) =>
                      /\ Len(t) = i + 3 /\ t[i + 1] = To("get_latest_snapshot", t[i].name)
                      /\ t[i + 2].op = "annotate"
                 /\ t[i].op = "annotate" =>
                      /\ Len(t) = i + 1 /\ t[i + 1].op = "update_snapshot_schema"
                      /\ i > 1 => Names(t[i - 1], "get_latest_snapshot")
                      /\ i > 2 => SetsLevel(t[i - 2])
                 /\ t[i].op = "update_snapshot_schema" => Len(t) = i /\ (i > 1 => t[i - 1].op = "annotate")
      <3>1. i + 1 \in DOMAIN l /\ t[i] = l[i + 1] /\ (i + 1) - 1 = i /\ i + 1 > 1 /\ i \in Nat BY <1>1
      <3>2. i > 1 => t[i - 1] = l[i]
        <4>1. i > 1 => i - 1 \in DOMAIN t /\ (i - 1) + 1 = i BY <1>1, <1>2
        <4> QED BY <1>1, <4>1
      <3>3. i > 2 => t[i - 2] = l[i - 1] /\ l[(i + 1) - 2] = l[i - 1]
        <4>1. i > 2 => i - 2 \in DOMAIN t /\ (i - 2) + 1 = i - 1 /\ (i + 1) - 2 = i - 1 BY <1>1, <1>2
        <4> QED BY <1>1, <4>1
      <3>4. ASSUME SetsLevel(t[i])
            PROVE  /\ Len(t) = i + 3 /\ t[i + 1] = To("get_latest_snapshot", t[i].name)
                   /\ t[i + 2].op = "annotate"
        <4>1. /\ Len(l) = (i + 1) + 3 /\ l[(i + 1) + 1] = To("get_latest_snapshot", l[i + 1].name)
              /\ l[(i + 1) + 2].op = "annotate"
          BY <2>1, <3>1, <3>4 DEF OfProcess
        <4>2. Len(t) = i + 3 /\ i + 1 \in DOMAIN t /\ i + 2 \in DOMAIN t BY <1>1, <1>2, <3>1, <4>1
        <4>3. t[i + 1] = l[(i + 1) + 1] /\ t[i + 2] = l[(i + 2) + 1] /\ (i + 2) + 1 = (i + 1) + 2
          BY <1>1, <3>1, <4>2
        <4> QED BY <3>1, <4>1, <4>2, <4>3
      <3>5. ASSUME t[i].op = "annotate"
            PROVE  Len(t) = i + 1 /\ t[i + 1].op = "update_snapshot_schema"
        <4>1. Len(l) = (i + 1) + 1 /\ l[(i + 1) + 1].op = "update_snapshot_schema"
          BY <2>1, <3>1, <3>5 DEF OfProcess
        <4>2. Len(t) = i + 1 /\ i + 1 \in DOMAIN t BY <1>1, <1>2, <3>1, <4>1
        <4> QED BY <1>1, <4>1, <4>2
      <3>6. t[i].op = "update_snapshot_schema" => Len(t) = i
        <4>1. t[i].op = "update_snapshot_schema" => Len(l) = i + 1 BY <2>1, <3>1 DEF OfProcess
        <4> QED BY <1>1, <3>1, <4>1
      <3>7. i > 2 => i + 1 > 2 BY <3>1
      <3>8. t[i].op \notin StudioOnly BY <2>1, <3>1 DEF OfProcess
      <3>9. /\ t[i].op = "create_snapshot" => l[(i + 1) - 1].op \in {"introspect", "accept"}
            /\ t[i].op = "introspect" => Names(l[(i + 1) - 1], "get_source")
            /\ t[i].op = "accept" => l[(i + 1) - 1].op = "get_latest_snapshot"
            /\ t[i].op = "update_snapshot_schema" => l[(i + 1) - 1].op = "annotate"
        BY <2>1, <3>1 DEF OfProcess
      <3>10. t[i].op = "annotate" =>
               /\ Names(l[(i + 1) - 1], "get_latest_snapshot")
               /\ i + 1 > 2 => SetsLevel(l[(i + 1) - 2])
        BY <2>1, <3>1 DEF OfProcess
      <3>11. /\ t[i].op = "create_snapshot" => l[i].op \in {"introspect", "accept"}
             /\ t[i].op = "introspect" => Names(l[i], "get_source")
             /\ t[i].op = "accept" => l[i].op = "get_latest_snapshot"
             /\ t[i].op = "update_snapshot_schema" => l[i].op = "annotate"
             /\ t[i].op = "annotate" =>
                  /\ Names(l[i], "get_latest_snapshot")
                  /\ i > 2 => SetsLevel(l[i - 1])
        BY <3>1, <3>3, <3>7, <3>9, <3>10
      <3>12. i > 1 => /\ t[i].op = "create_snapshot" => t[i - 1].op \in {"introspect", "accept"}
                      /\ t[i].op = "introspect" => Names(t[i - 1], "get_source")
                      /\ t[i].op = "accept" => t[i - 1].op = "get_latest_snapshot"
                      /\ t[i].op = "update_snapshot_schema" => t[i - 1].op = "annotate"
        BY <3>2, <3>11
      <3>13. i > 1 /\ t[i].op = "annotate" => Names(t[i - 1], "get_latest_snapshot")
        BY <3>2, <3>11
      <3>14. i > 2 /\ t[i].op = "annotate" => SetsLevel(t[i - 2]) BY <3>3, <3>11
      <3> QED BY <3>4, <3>5, <3>6, <3>8, <3>12, <3>13, <3>14
    <2>3. OfProcess(t) BY <2>2 DEF OfProcess
    <2>4. ASSUME t # <<>>
          PROVE  /\ t[1].op = "create_snapshot" => l[1].op \in {"introspect", "accept"}
                 /\ t[1].op = "introspect" => Names(l[1], "get_source")
                 /\ t[1].op = "accept" => l[1].op = "get_latest_snapshot"
                 /\ t[1].op = "annotate" => Names(l[1], "get_latest_snapshot") /\ Resyncing(l)
                 /\ t[1].op = "update_snapshot_schema" => l[1].op = "annotate"
      <3>1. 2 \in DOMAIN l /\ t[1] = l[2] /\ 2 > 1 /\ 2 - 1 = 1 BY <1>3, <2>4
      <3> QED BY <2>1, <3>1 DEF OfProcess, Resyncing
    <2>5. 2 \in DOMAIN t /\ t[2].op = "annotate" => SetsLevel(l[1])
      <3> SUFFICES ASSUME 2 \in DOMAIN t, t[2].op = "annotate" PROVE SetsLevel(l[1]) OBVIOUS
      <3>1. 2 + 1 \in DOMAIN l /\ t[2] = l[2 + 1] BY <1>1
      <3>2. 3 \in DOMAIN l /\ l[3].op = "annotate" /\ 3 > 2 /\ 3 - 2 = 1 BY <3>1
      <3> QED BY <2>1, <3>2 DEF OfProcess
    <2>6. ~Resyncing(l) /\ ~SetsLevel(l[1]) => ~Resyncing(t) BY <2>4, <2>5 DEF Resyncing
    <2> QED BY <1>5, <2>3, <2>4, <2>6 DEF Arranged
  <1> QED BY <1>4, <1>5

(* Lists without a call that the order matters for.                        *)
Tame(l) == \A i \in DOMAIN l :
  /\ l[i].op \notin ProcessOnly \cup StudioOnly \cup {"introspect", "create_snapshot"}
  /\ ~SetsLevel(l[i])

LEMMA TameIs ==
  ASSUME NEW a, NEW l \in Seq(CallType), Tame(l), NEW m, a # Process => m.level = 0, NEW src, NEW k
  PROVE  Arranged(a, l) /\ Informed(a, l, m, src, k) /\ ~Resyncing(l)
  <1>1. l # <<>> => 1 \in DOMAIN l OBVIOUS
  <1>2. \A i \in DOMAIN l : /\ l[i].op \notin ProcessOnly /\ l[i].op \notin StudioOnly
                            /\ l[i].op \notin {"introspect", "create_snapshot"} /\ ~SetsLevel(l[i])
    BY DEF Tame
  <1>3. OfStudio(l) BY <1>2 DEF OfStudio
  <1>4. OfProcess(l) BY <1>2 DEF OfProcess, ProcessOnly
  <1>5. Informed(a, l, m, src, k) BY <1>1, <1>2 DEF Informed, ProcessOnly
  <1>6. ~Resyncing(l) BY <1>1, <1>2 DEF Resyncing, ProcessOnly
  <1> QED BY <1>3, <1>4, <1>5, <1>6 DEF Arranged

LEMMA TameLists ==
  /\ \A r \in Rescues : Tame(r)
  /\ \A h \in Seq(PlainCalls) : Tame(h)
  /\ \A p, d : Tame(ThreadCalls(p, d))
  <1>1. \A h \in Seq(PlainCalls) : Tame(h) BY DEF PlainCalls, Tame
  <1> USE DEF ProcessOnly, StudioOnly, SetsLevel
  <1>2. ASSUME NEW r \in Rescues PROVE Tame(r)
    <2>1. PICK c, d : c = Complete("failed") /\ d = Do("error") OBVIOUS
    <2>2. c.op = "complete_load" /\ d.op = "error" BY <2>1 DEF Complete, Do
    <2>3. r \in {<<>>, <<c>>, <<d, c>>} BY <2>1 DEF Rescues, ThreadRescue
    <2>4. CASE r = <<>> BY <2>4 DEF Tame
    <2>5. CASE r = <<c>> BY <2>2, <2>5 DEF Tame
    <2>6. CASE r = <<d, c>> BY <2>2, <2>6 DEF Tame
    <2> QED BY <2>3, <2>4, <2>5, <2>6
  <1>3. ASSUME NEW p, NEW d PROVE Tame(ThreadCalls(p, d))
    <2>1. PICK r, c, s : r = To("run", p) /\ c = Complete("completed") /\ s = To("set_loaded_mapping", p)
      OBVIOUS
    <2>2. r.op = "run" /\ c.op = "complete_load" /\ s.op = "set_loaded_mapping"
      BY <2>1 DEF To, Complete
    <2>3. PICK x, y, z : x = <<r, c>> /\ y = <<s>> /\ z = <<>> OBVIOUS
    <2>4. ThreadCalls(p, d) = x \o z \/ ThreadCalls(p, d) = x \o y BY <2>1, <2>3 DEF ThreadCalls
    <2>5. /\ x \in Seq({r, c, s}) /\ y \in Seq({r, c, s}) /\ z \in Seq({r, c, s})
      BY <2>3
    <2>6. x \o z \in Seq({r, c, s}) /\ x \o y \in Seq({r, c, s}) BY <2>5
    <2>7. \A l \in Seq({r, c, s}) : Tame(l) BY <2>2 DEF Tame
    <2> QED BY <2>4, <2>6, <2>7
  <1> QED BY <1>1, <1>2, <1>3

LEMMA HandlersArranged ==
  ASSUME NEW a \in Actors, a # Thread, NEW h \in Handlers(a), NEW m, a # Process => m.level = 0,
         NEW src, NEW k
  PROVE  Arranged(a, h) /\ Informed(a, h, m, src, k) /\ ~Resyncing(h)
  <1> USE DEF ProcessOnly, StudioOnly
  <1>1. a = Studio \/ a = Process BY ClientsAssumption
  <1>2. Studio # Process BY DEF Studio, Process
  <1>3. CASE h \in Seq(PlainCalls)
    <2>1. h \in Seq(CallType) BY HandlersTyped
    <2> QED BY <1>3, <2>1, TameLists, TameIs
  <1>4. CASE h \in SourceSnapshot
    <2>1. PICK s \in Sources : h = <<To("get_source", s)>> \o Capture(s) BY <1>4 DEF SourceSnapshot
    <2>2. PICK g, i, c : g = To("get_source", s) /\ i = To("introspect", s) /\ c = To("create_snapshot", s)
      OBVIOUS
    <2>3. /\ g.op = "get_source" /\ i.op = "introspect" /\ c.op = "create_snapshot"
          /\ ~SetsLevel(g) /\ ~SetsLevel(i) /\ ~SetsLevel(c)
      BY <2>2 DEF To, SetsLevel
    <2>4. Len(h) = 4 /\ DOMAIN h = {1, 2, 3, 4} /\ h[1] = g /\ h[2] = g /\ h[3] = i /\ h[4] = c
      <3>1. PICK x, y : x = <<g>> /\ y = <<g, i, c>> OBVIOUS
      <3>2. h = x \o y BY <2>1, <2>2, <3>1 DEF Capture
      <3>3. x \in Seq({g, i, c}) /\ y \in Seq({g, i, c}) BY <3>1
      <3>4. /\ h \in Seq({g, i, c}) /\ Len(h) = Len(x) + Len(y)
            /\ \A j \in 1 .. Len(x) + Len(y) : h[j] = IF j <= Len(x) THEN x[j] ELSE y[j - Len(x)]
        BY ONLY <3>2, <3>3, JoinedIs
      <3>5. Len(x) = 1 /\ x[1] = g /\ Len(y) = 3 /\ y[1] = g /\ y[2] = i /\ y[3] = c BY <3>1
      <3>6. Len(h) = 4 /\ DOMAIN h = {1, 2, 3, 4} BY <3>4, <3>5
      <3> QED BY <3>4, <3>5, <3>6
    <2>5. \A j \in DOMAIN h : /\ h[j].op \notin ProcessOnly /\ h[j].op \notin StudioOnly
                              /\ ~SetsLevel(h[j]) /\ (h[j].op = "create_snapshot" => j = 4)
                              /\ h[j].op = "introspect" => j = 3
      BY <2>3, <2>4
    <2>6. h[4 - 1].op = "introspect" /\ Names(h[3 - 1], "get_source")
      BY <2>2, <2>3, <2>4 DEF Names, To
    <2>7. OfStudio(h) BY <2>5, <2>6 DEF OfStudio
    <2>8. OfProcess(h) BY <2>5, <2>6 DEF OfProcess
    <2>9. Informed(a, h, m, src, k) /\ ~Resyncing(h) BY <2>3, <2>4 DEF Informed, Resyncing
    <2> QED BY <2>7, <2>8, <2>9 DEF Arranged
  <1>5. CASE a = Studio /\ h \in StudioDemo
    <2>1. PICK t \in Targets, s \in Sources, p \in Projects :
            h = <<To("get_target", t), To("demo_source", s), To("demo_snapshot", s),
                  [op |-> "demo_project", name |-> p, source |-> s],
                  [op |-> "update_project", name |-> p, target |-> t, snapshot |-> TRUE]>>
      BY <1>5 DEF StudioDemo
    <2>2. PICK c1, c2, c3, c4, c5 :
            /\ c1 = To("get_target", t) /\ c2 = To("demo_source", s) /\ c3 = To("demo_snapshot", s)
            /\ c4 = [op |-> "demo_project", name |-> p, source |-> s]
            /\ c5 = [op |-> "update_project", name |-> p, target |-> t, snapshot |-> TRUE]
      OBVIOUS
    <2>3. /\ c1.op = "get_target" /\ c2.op = "demo_source" /\ c3.op = "demo_snapshot"
          /\ c4.op = "demo_project" /\ c5.op = "update_project"
          /\ ~SetsLevel(c1) /\ ~SetsLevel(c2) /\ ~SetsLevel(c3) /\ ~SetsLevel(c4) /\ ~SetsLevel(c5)
      BY <2>2 DEF To, SetsLevel
    <2>4. h = <<c1, c2, c3, c4, c5>> BY <2>1, <2>2
    <2>5. OfStudio(h) BY <2>3, <2>4 DEF OfStudio
    <2>6. Informed(a, h, m, src, k) /\ ~Resyncing(h) BY <2>3, <2>4 DEF Informed, Resyncing
    <2> QED BY <1>2, <1>5, <2>5, <2>6 DEF Arranged
  <1>6. CASE a = Studio /\ h \in StudioLoad \cup StudioMigrate
    <2>1. \A i \in DOMAIN h :
            h[i].op \notin ProcessOnly \cup {"introspect", "create_snapshot", "update_source"}
      <3>1. CASE h \in StudioLoad
        <4>1. PICK p \in Projects :
                h = <<To("get_project", p), Do("get_source"), Do("get_latest_snapshot"),
                      Do("load_config"), To("start_load", p), Refusing(<<Complete("failed")>>),
                      Do("connect"), To("spawn", p)>>
          BY <3>1 DEF StudioLoad
        <4> QED BY <4>1 DEF To, Do, Refusing
      <3>2. CASE h \in StudioMigrate
        <4>1. PICK p \in Projects :
                h = <<To("get_project", p), Do("get_latest_snapshot"), Do("load_config"),
                      Refusing(<<>>), To("list", p), To("migrate", p),
                      To("set_loaded_mapping", p)>>
          BY <3>2 DEF StudioMigrate
        <4> QED BY <4>1 DEF To, Do, Refusing
      <3> QED BY <1>6, <3>1, <3>2
    <2>2. OfStudio(h) BY <2>1 DEF OfStudio, SetsLevel
    <2>3. h # <<>> => 1 \in DOMAIN h
      <3>1. h \in Seq(CallType) BY HandlersTyped
      <3> QED BY <3>1
    <2>4. Informed(a, h, m, src, k) BY <1>2, <1>6, <2>1, <2>3 DEF Informed
    <2>5. ~Resyncing(h) BY <2>1, <2>3 DEF Resyncing
    <2> QED BY <1>2, <1>6, <2>2, <2>4, <2>5 DEF Arranged
  <1>7. CASE a = Process /\ h \in SourceInferFks
    <2>1. PICK s \in Sources :
            h = <<To("get_source", s), To("get_latest_snapshot", s), Do("accept"),
                  To("create_snapshot", s)>>
      BY <1>7 DEF SourceInferFks
    <2>2. PICK g, n, d, c : /\ g = To("get_source", s) /\ n = To("get_latest_snapshot", s)
                            /\ d = Do("accept") /\ c = To("create_snapshot", s)
      OBVIOUS
    <2>3. /\ g.op = "get_source" /\ n.op = "get_latest_snapshot" /\ d.op = "accept"
          /\ c.op = "create_snapshot"
          /\ ~SetsLevel(g) /\ ~SetsLevel(n) /\ ~SetsLevel(d) /\ ~SetsLevel(c)
      BY <2>2 DEF To, Do, SetsLevel
    <2>4. h = <<g, n, d, c>> BY <2>1, <2>2
    <2>5. OfProcess(h) BY <2>3, <2>4 DEF OfProcess
    <2>6. Informed(a, h, m, src, k) /\ ~Resyncing(h) BY <1>7, <2>3, <2>4 DEF Informed, Resyncing
    <2> QED BY <1>7, <2>5, <2>6 DEF Arranged
  <1>8. CASE a = Process /\ h \in CatalogImportSource
    <2>1. PICK p \in Providers, s \in Sources :
            h = <<To("get_catalog", p), Do("resolve"), Add(s, Absent, TRUE)>>
      BY <1>8 DEF CatalogImportSource, Add
    <2>2. PICK g, r, c : g = To("get_catalog", p) /\ r = Do("resolve") /\ c = Add(s, Absent, TRUE)
      OBVIOUS
    <2>3. /\ g.op = "get_catalog" /\ r.op = "resolve" /\ c.op = "add_source"
          /\ ~SetsLevel(g) /\ ~SetsLevel(r) /\ ~SetsLevel(c)
      BY <2>2 DEF To, Do, Add, SetsLevel
    <2>4. h = <<g, r, c>> BY <2>1, <2>2 DEF Add
    <2>5. OfProcess(h) BY <2>3, <2>4 DEF OfProcess
    <2>6. Informed(a, h, m, src, k) /\ ~Resyncing(h) BY <1>8, <2>3, <2>4 DEF Informed, Resyncing
    <2> QED BY <1>8, <2>5, <2>6 DEF Arranged
  <1>9. CASE a = Process /\ h \in CatalogResyncClassifications
    <2>1. PICK p \in Providers, s \in Sources :
            h = <<To("get_source", s), Do("bound"), To("get_catalog", p), Do("resolve"),
                  [op |-> "update_source", name |-> s, field |-> "level"],
                  To("get_latest_snapshot", s), Do("annotate"), Do("update_snapshot_schema")>>
      BY <1>9 DEF CatalogResyncClassifications
    <2>2. PICK c1, c2, c3, c4, c5, c6, c7, c8 :
            /\ c1 = To("get_source", s) /\ c2 = Do("bound") /\ c3 = To("get_catalog", p)
            /\ c4 = Do("resolve") /\ c5 = [op |-> "update_source", name |-> s, field |-> "level"]
            /\ c6 = To("get_latest_snapshot", s) /\ c7 = Do("annotate")
            /\ c8 = Do("update_snapshot_schema")
      OBVIOUS
    <2>3. /\ c1.op = "get_source" /\ c2.op = "bound" /\ c3.op = "get_catalog" /\ c4.op = "resolve"
          /\ c5.op = "update_source" /\ c5.name = s /\ SetsLevel(c5)
          /\ c6.op = "get_latest_snapshot" /\ c6.name = s /\ c6 = To("get_latest_snapshot", c6.name)
          /\ c7.op = "annotate" /\ c8.op = "update_snapshot_schema"
          /\ ~SetsLevel(c1) /\ ~SetsLevel(c2) /\ ~SetsLevel(c3) /\ ~SetsLevel(c4)
          /\ ~SetsLevel(c6) /\ ~SetsLevel(c7) /\ ~SetsLevel(c8)
      BY <2>2 DEF To, Do, SetsLevel
    <2>4. h = <<c1, c2, c3, c4, c5, c6, c7, c8>> BY <2>1, <2>2
    <2>5. /\ Len(h) = 8 /\ DOMAIN h = {1, 2, 3, 4, 5, 6, 7, 8}
          /\ h[1] = c1 /\ h[2] = c2 /\ h[3] = c3 /\ h[4] = c4 /\ h[5] = c5 /\ h[6] = c6 /\ h[7] = c7
          /\ h[8] = c8
      BY <2>4
    <2>6. /\ \A i \in DOMAIN h : /\ h[i].op \notin StudioOnly \cup {"introspect", "create_snapshot", "accept"}
                                 /\ SetsLevel(h[i]) => i = 5
                                 /\ h[i].op = "annotate" => i = 7
                                 /\ h[i].op = "update_snapshot_schema" => i = 8
          /\ h[5 + 1] = To("get_latest_snapshot", h[5].name) /\ h[5 + 2].op = "annotate"
          /\ Names(h[7 - 1], "get_latest_snapshot")
          /\ SetsLevel(h[7 - 2]) /\ h[7 + 1].op = "update_snapshot_schema" /\ h[8 - 1].op = "annotate"
      BY <2>2, <2>3, <2>5 DEF Names
    <2>7. OfProcess(h) BY <2>5, <2>6 DEF OfProcess
    <2>8. Informed(a, h, m, src, k) /\ ~Resyncing(h) BY <1>9, <2>3, <2>5 DEF Informed, Resyncing
    <2> QED BY <1>9, <2>7, <2>8 DEF Arranged
  <1>10. CASE a = Process /\ h \in ToolStartLoad
    <2>1. PICK p \in Projects :
            h = <<To("get_project", p), Do("get_source"), Do("get_latest_snapshot"), Do("load_config"),
                  To("start_load", p), [op |-> "try", rescue |-> <<Complete("failed")>>],
                  To("run", p), Complete("completed")>>
      BY <1>10 DEF ToolStartLoad
    <2>2. \A i \in DOMAIN h :
            h[i].op \notin ProcessOnly \cup StudioOnly
                            \cup {"introspect", "create_snapshot", "update_source"}
      BY <2>1 DEF To, Do, Complete
    <2>3. h \in Seq(CallType) BY HandlersTyped
    <2>4. Tame(h) BY <2>2 DEF Tame, SetsLevel
    <2> QED BY <2>3, <2>4, TameIs
  <1> QED BY <1>1, <1>2, <1>3, <1>4, <1>5, <1>6, <1>7, <1>8, <1>9, <1>10, HandlersTyped

-------------------------------------------------------------------------------

LEMMA ProcessIs == Process \in Actors /\ Studio \in Actors /\ Thread \in Actors
                     /\ Process # Studio /\ Process # Thread /\ Studio # Thread
  BY ClientsAssumption DEF Process, Studio, Thread

(* What was so stays so when snapshots are captured later.                 *)
LEMMA RecordedStay ==
  ASSUME NEW k \in Nat, NEW j \in Nat, k <= j, NEW src, NEW q, \A n \in Nat : n < k => q[n] = src[n]
  PROVE  /\ \A n : Recorded(n, src, k) => Recorded(n, q, j)
         /\ \A f : Grounded(f, src, k) => Grounded(f, q, j)
         /\ \A a, l, m : Informed(a, l, m, src, k) => Informed(a, l, m, q, j)
  <1>1. \A n : Recorded(n, src, k) => Recorded(n, q, j) BY RecordedIs DEF Recorded
  <1>2. \A f : Grounded(f, src, k) => Grounded(f, q, j) BY <1>1 DEF Grounded
  <1>3. \A a, l, m : Informed(a, l, m, src, k) => Informed(a, l, m, q, j) BY <1>1 DEF Informed
  <1> QED BY <1>1, <1>2, <1>3

(* A step that does not begin to save.                                     *)
LEMMA CalmNoSave ==
  ASSUME HomesInv, NEW src, Calm(src), NEW a \in Actors, saving[a] = "no", base[a] = Absent,
         file' = file, NoSave, clock' = clock,
         NEW l, todo' = [todo EXCEPT ![a] = l], NEW m, mem' = [mem EXCEPT ![a] = m],
         Arranged(a, l), Informed(a, l, m, src, clock),
         a = Process => \A f : /\ Readable(file) => f = file
                               /\ Sound(f) /\ Grounded(f, src, clock) /\ Due(f, todo[a], mem[a])
                               => Due(f, l, m)
  PROVE  Calm(src)'
  <1>1. todo'[a] = l /\ mem'[a] = m BY DEF HomesInv, Lists, Places
  <1>2. \A b \in Actors : b # a => todo'[b] = todo[b] /\ mem'[b] = mem[b] BY DEF HomesInv, Lists, Places
  <1>3. copy' = copy /\ base' = base /\ saving' = saving BY DEF NoSave
  <1>4. ASSUME NEW f, Readable(file) => f = file, Sound(f), Grounded(f, src, clock), Expected(f)
        PROVE  Due(f, todo'[Process], mem'[Process])
    <2>1. CASE a = Process BY <1>1, <1>4, <2>1 DEF Expected
    <2>2. CASE a # Process BY <1>2, <1>4, <2>2, ProcessIs DEF Expected
    <2> QED BY <2>1, <2>2
  <1>5. Readable(file') => /\ Grounded(file', src, clock')
                           /\ saving'[Process] = "truncate" \/ Due(file', todo'[Process], mem'[Process])
    BY <1>3, <1>4 DEF Calm, HomesInv
  <1>6. ASSUME NEW b \in Actors PROVE Pending(b, src)'
    <2>1. Pending(b, src) BY DEF Calm
    <2>2. Arranged(b, todo'[b]) /\ Informed(b, todo'[b], mem'[b], src, clock')
      BY <1>1, <1>2, <2>1 DEF Pending
    <2>3. ASSUME b # Process, saving[b] = "write", Expected(copy[b])
          PROVE  Due(copy[b], todo'[Process], mem'[Process])
      <3>1. Sound(copy[b]) BY <2>3 DEF HomesInv, Mine
      <3> QED BY <1>4, <2>1, <2>3, <3>1 DEF Pending, Readable
    <2>4. b = Process /\ saving[b] # "no" => Due(copy[b], todo'[Process], mem'[Process])
      BY <1>2, <2>1 DEF Pending, Expected
    <2> QED BY <1>3, <2>1, <2>2, <2>3, <2>4 DEF Pending, Expected
  <1>7. clock' \in Nat /\ clock' # 0 BY DEF Calm
  <1> QED BY <1>5, <1>6, <1>7 DEF Calm, Expected

(* A step that settles what will be written.                               *)
LEMMA CalmSave ==
  ASSUME HomesInv, NEW src, Calm(src), NEW a \in Actors, saving[a] = "no", file' = file,
         clock' \in Nat, clock <= clock', NEW q, \A n \in Nat : n < clock => q[n] = src[n],
         NEW c, Grounded(c, q, clock'), copy' = [copy EXCEPT ![a] = c],
         saving' = [saving EXCEPT ![a] = "truncate"],
         NEW f, Readable(f), base' = [base EXCEPT ![a] = f],
         NEW l, todo' = [todo EXCEPT ![a] = l], NEW m, mem' = [mem EXCEPT ![a] = m],
         Arranged(a, l), Informed(a, l, m, q, clock'),
         IF a = Process THEN Due(c, l, m) ELSE Follows(f, c)
  PROVE  Calm(q)'
  <1>1. /\ todo'[a] = l /\ mem'[a] = m /\ copy'[a] = c /\ saving'[a] = "truncate" /\ base'[a] = f
        /\ \A b \in Actors : b # a => /\ todo'[b] = todo[b] /\ mem'[b] = mem[b] /\ copy'[b] = copy[b]
                                      /\ saving'[b] = saving[b] /\ base'[b] = base[b]
    BY DEF HomesInv, Lists, Places
  <1>2. clock \in Nat /\ clock' # 0 BY DEF Calm
  <1>3. /\ \A g : Grounded(g, src, clock) => Grounded(g, q, clock')
        /\ \A b, k, n : Informed(b, k, n, src, clock) => Informed(b, k, n, q, clock')
    BY <1>2, RecordedStay
  <1>4. a # Process => todo'[Process] = todo[Process] /\ mem'[Process] = mem[Process]
                         /\ saving'[Process] = saving[Process]
    BY <1>1, ProcessIs
  <1>5. a = Process => saving'[Process] = "truncate" BY <1>1
  <1>6. Readable(file') => /\ Grounded(file', q, clock')
                           /\ saving'[Process] = "truncate" \/ Due(file', todo'[Process], mem'[Process])
    BY <1>3, <1>4, <1>5 DEF Calm, Expected
  <1>7. ASSUME NEW b \in Actors PROVE Pending(b, q)'
    <2>1. CASE b = a
      BY <1>1, <2>1 DEF Pending, Expected
    <2>2. CASE b # a
      <3>1. Pending(b, src) BY DEF Calm
      <3>2. Arranged(b, todo'[b]) /\ Informed(b, todo'[b], mem'[b], q, clock')
        BY <1>1, <1>3, <2>2, <3>1 DEF Pending
      <3>3. /\ saving'[b] # "no" => Grounded(copy'[b], q, clock')
            /\ saving'[b] = "truncate" => Readable(base'[b])
        BY <1>1, <1>3, <2>2, <3>1 DEF Pending
      <3>4. saving'[b] = "write" => file' = Empty /\ \A d \in Actors : saving'[d] = "write" => d = b
        <4>1. saving'[b] = "write" => file = Empty /\ \A d \in Actors : saving[d] = "write" => d = b
          BY <1>1, <2>2, <3>1 DEF Pending
        <4> QED BY <1>1, <4>1
      <3>5. b = Process => (saving'[b] # "no" => Due(copy'[b], todo'[b], mem'[b]))
        BY <1>1, <2>2, <3>1 DEF Pending, Expected
      <3>6. b # Process =>
              /\ saving'[b] = "truncate" => Follows(base'[b], copy'[b])
              /\ saving'[b] = "write" =>
                   saving'[Process] = "truncate" \/ Due(copy'[b], todo'[Process], mem'[Process])
        BY <1>1, <1>4, <1>5, <2>2, <3>1 DEF Pending, Expected
      <3>7. saving'[b] = "no" /\ base'[b] # Absent =>
              /\ Readable(base'[b]) /\ Grounded(base'[b], q, clock')
              /\ b = Process => \A s \in Sources : Strict(base'[b], s)
        BY <1>1, <1>3, <2>2, <3>1 DEF Pending
      <3> QED BY <3>2, <3>3, <3>4, <3>5, <3>6, <3>7 DEF Pending, Expected
    <2> QED BY <2>1, <2>2
  <1> QED BY <1>2, <1>6, <1>7 DEF Calm, Expected

(* What follows a catalog keeps what is to be shown of it.                 *)
LEMMA FollowsDue ==
  ASSUME NEW f, NEW c, Follows(f, c), NEW l, NEW m, m.level \in Nat, Due(f, l, m)
  PROVE  Due(c, l, m)
  <1> SUFFICES ASSUME NEW s \in Sources
               PROVE  /\ Strict(c, s) \/ Owed(c, l, m, s)
                      /\ Owing(l, m, s) => Within(c, m, s)
    BY DEF Due
  <1>1. /\ Alike(f, c, s) \/ Strict(c, s)
        /\ Owing(l, m, s) => Within(f, m, s)
    BY DEF Follows, Due
  <1>2. Alike(f, c, s) /\ Strict(f, s) => Strict(c, s) BY DEF Alike, Strict, Newest
  <1>3. Alike(f, c, s) /\ Owed(f, l, m, s) => Owed(c, l, m, s) BY DEF Alike, Owed
  <1>4. Strict(f, s) \/ Owed(f, l, m, s) BY DEF Due
  <1>5. Lower(f, c, s) BY DEF Follows
  <1>6. Owing(l, m, s) => Within(c, m, s) BY <1>1, <1>5 DEF Lower, Within
  <1> QED BY <1>1, <1>2, <1>3, <1>4, <1>6

(* Nothing is owed by a list that does not resync.                         *)
LEMMA NothingOwed ==
  ASSUME NEW l, ~Resyncing(l), NEW m, NEW f
  PROVE  Due(f, l, m) <=> \A s \in Sources : Strict(f, s)
  BY DEF Due, Owed, Owing

LEMMA LevelIs ==
  ASSUME HomesInv, NEW a \in Actors
  PROVE  mem[a].level \in Nat /\ mem[a].level \in Levels
  BY CatalogAssumption DEF HomesInv, Mine, Memory

LEMMA TruncateCalm ==
  ASSUME HomesInv, NEW src, Calm(src), NEW a \in Actors, Truncate(a), file = base[a]
  PROVE  Calm(src)'
  <1>1. /\ saving[a] = "truncate" /\ file' = Empty /\ clock' = clock
        /\ saving'[a] = "write" /\ \A b \in Actors : b # a => saving'[b] = saving[b]
        /\ todo' = todo /\ mem' = mem /\ base' = base /\ copy' = copy
    BY DEF Truncate, HomesInv, Places
  <1>2. Readable(file) /\ file # Empty BY <1>1 DEF Calm, Pending, Readable
  <1>3. \A b \in Actors : saving[b] # "write" BY <1>2 DEF Calm, Pending
  <1>4. \A b \in Actors : saving'[b] = "write" => b = a BY <1>1, <1>3
  <1>5. a # Process => saving'[Process] = "truncate" \/ Expected(copy[a])
    <2> SUFFICES ASSUME a # Process, saving[Process] # "truncate" PROVE Expected(copy[a])
      BY <1>1, ProcessIs
    <2>1. Expected(file) BY <1>2 DEF Calm
    <2>2. Follows(file, copy[a]) BY <1>1 DEF Calm, Pending
    <2>3. mem[Process].level \in Nat BY ProcessIs, LevelIs
    <2> QED BY <2>1, <2>2, <2>3, FollowsDue DEF Expected
  <1>6. ASSUME NEW b \in Actors PROVE Pending(b, src)'
    <2>1. Pending(b, src) BY DEF Calm
    <2>2. CASE b = a BY <1>1, <1>4, <1>5, <2>1, <2>2 DEF Pending, Expected
    <2>3. CASE b # a BY <1>1, <1>3, <2>1, <2>3 DEF Pending, Expected
    <2> QED BY <2>2, <2>3
  <1>7. ~Readable(file') BY <1>1 DEF Readable
  <1> QED BY <1>1, <1>6, <1>7 DEF Calm

LEMMA WriteCalm ==
  ASSUME HomesInv, NEW src, Calm(src), NEW a \in Actors, Write(a)
  PROVE  Calm(src)'
  <1>1. saving[a] = "write" /\ file = Empty /\ \A b \in Actors : saving[b] = "write" => b = a
    BY DEF Write, Calm, Pending
  <1>2. /\ file' = copy[a] /\ clock' = clock /\ todo' = todo
        /\ saving'[a] = "no" /\ base'[a] = Absent
        /\ \A b \in Actors : b # a => /\ saving'[b] = saving[b] /\ base'[b] = base[b]
                                      /\ copy'[b] = copy[b] /\ mem'[b] = mem[b]
    BY <1>1 DEF Write, Learn, HomesInv, Places
  <1>3. mem'[a] = mem[a] \/ (todo[a] = <<>> /\ mem'[a].level = 0)
    <2>1. mem' = mem \/ (todo[a] = <<>> /\ mem' = [mem EXCEPT ![a] = [Blank EXCEPT !.load = mem[a].load]])
      BY DEF Write, Learn
    <2>2. [Blank EXCEPT !.load = mem[a].load].level = 0 BY DEF Blank
    <2> QED BY <2>1, <2>2 DEF HomesInv, Places
  <1>4. ASSUME NEW f, Expected(f) PROVE Due(f, todo'[Process], mem'[Process])
    <2>1. CASE mem'[Process] = mem[Process] BY <1>2, <1>4, <2>1 DEF Expected
    <2>2. CASE mem'[Process] # mem[Process]
      <3>1. a = Process /\ todo[Process] = <<>> BY <1>2, <1>3, <2>2, ProcessIs
      <3>2. ~Resyncing(todo[Process]) BY <3>1 DEF Resyncing
      <3> QED BY <1>2, <1>4, <3>2, NothingOwed DEF Expected
    <2> QED BY <2>1, <2>2
  <1>5. Readable(file') => Grounded(file', src, clock')
                             /\ (saving'[Process] = "truncate" \/ Due(file', todo'[Process], mem'[Process]))
    <2>1. Pending(a, src) BY DEF Calm
    <2>2. Grounded(copy[a], src, clock) BY <1>1, <2>1 DEF Pending
    <2>3. CASE a = Process BY <1>1, <1>2, <1>4, <2>1, <2>2, <2>3 DEF Pending
    <2>4. CASE a # Process
      <3>1. saving[Process] = "truncate" \/ Expected(copy[a]) BY <1>1, <2>1, <2>4 DEF Pending
      <3>2. saving'[Process] = saving[Process] BY <1>2, <2>4, ProcessIs
      <3> QED BY <1>2, <1>4, <2>2, <3>1, <3>2
    <2> QED BY <2>3, <2>4
  <1>6. ASSUME NEW b \in Actors PROVE Pending(b, src)'
    <2>1. Pending(b, src) BY DEF Calm
    <2>2. CASE b = a
      <3>1. Informed(b, todo'[b], mem'[b], src, clock')
        BY <1>2, <1>3, <2>1, <2>2 DEF Pending, Informed
      <3> QED BY <1>2, <2>1, <2>2, <3>1 DEF Pending
    <2>3. CASE b # a
      <3>1. saving'[b] # "write" BY <1>1, <1>2, <2>3
      <3>2. b = Process => (saving'[b] # "no" => Due(copy'[b], todo'[b], mem'[b]))
        BY <1>2, <2>1, <2>3 DEF Pending, Expected
      <3>3. b # Process => (saving'[b] = "truncate" => Follows(base'[b], copy'[b]))
        BY <1>2, <2>1, <2>3 DEF Pending
      <3>4. /\ Arranged(b, todo'[b]) /\ Informed(b, todo'[b], mem'[b], src, clock')
            /\ saving'[b] # "no" => Grounded(copy'[b], src, clock')
            /\ saving'[b] = "truncate" => Readable(base'[b])
            /\ saving'[b] = "no" /\ base'[b] # Absent =>
                 /\ Readable(base'[b]) /\ Grounded(base'[b], src, clock')
                 /\ b = Process => \A s \in Sources : Strict(base'[b], s)
        BY <1>2, <2>1, <2>3 DEF Pending
      <3> QED BY <3>1, <3>2, <3>3, <3>4 DEF Pending, Expected
    <2> QED BY <2>2, <2>3
  <1>7. clock' \in Nat /\ clock' # 0 BY <1>2 DEF Calm
  <1> QED BY <1>5, <1>6, <1>7 DEF Calm, Expected

-------------------------------------------------------------------------------

(* The call an actor is about to make, and what it knows.                  *)
LEMMA FirstOf ==
  ASSUME HomesInv, NEW src, Calm(src), NEW a \in Actors, todo[a] # <<>>, NEW l, l = todo[a]
  PROVE  /\ l \in Seq(CallType) /\ l # <<>> /\ l[1] = Call(a) /\ 1 \in DOMAIN l
         /\ Arranged(a, l) /\ Informed(a, l, mem[a], src, clock)
         /\ a # Process => mem[a].level = 0 /\ l[1].op \notin ProcessOnly /\ ~SetsLevel(l[1])
         /\ a = Process => l[1].op \notin StudioOnly
         /\ a = Process /\ Resyncing(l) =>
              /\ l[1].op \in {"get_latest_snapshot", "annotate", "update_snapshot_schema"}
              /\ l[1].op = "get_latest_snapshot" =>
                   Names(l[1], "get_latest_snapshot")
         /\ Tail(l) \in Seq(CallType)
  <1>1. l \in Seq(CallType) /\ l # <<>> BY DEF HomesInv, Lists
  <1>2. Head(l) = l[1] /\ 1 \in DOMAIN l /\ Tail(l) \in Seq(CallType) BY <1>1
  <1>3. Arranged(a, l) /\ Informed(a, l, mem[a], src, clock) BY DEF Calm, Pending
  <1>4. a # Process => mem[a].level = 0 /\ l[1].op \notin ProcessOnly /\ ~SetsLevel(l[1])
    BY <1>2, <1>3 DEF Arranged, OfStudio, Informed
  <1>5. a = Process => l[1].op \notin StudioOnly BY <1>2, <1>3 DEF Arranged, OfProcess
  <1>6. ASSUME a = Process, 2 \in DOMAIN l, l[2].op = "annotate"
        PROVE  Names(l[1], "get_latest_snapshot")
    <2>1. Names(l[2 - 1], "get_latest_snapshot")
      BY <1>3, <1>6 DEF Arranged, OfProcess
    <2> QED BY <2>1
  <1>7. a = Process /\ Resyncing(l) =>
          /\ l[1].op \in {"get_latest_snapshot", "annotate", "update_snapshot_schema"}
          /\ l[1].op = "get_latest_snapshot" =>
               Names(l[1], "get_latest_snapshot")
    BY <1>6 DEF Resyncing, Names, To
  <1> QED BY <1>1, <1>2, <1>3, <1>4, <1>5, <1>7 DEF Call

(* The calls whose place in a list says nothing.                           *)
Ordinary(c) ==
  /\ c.op \notin {"get_source", "introspect", "accept", "get_latest_snapshot", "annotate",
                  "update_snapshot_schema"}
  /\ ~SetsLevel(c)

(* After an ordinary call any memory will do.                              *)
LEMMA OrdinaryTail ==
  ASSUME HomesInv, NEW src, Calm(src), NEW a \in Actors, todo[a] # <<>>, Ordinary(Call(a)),
         NEW m, a # Process => m.level = mem[a].level, NEW t, t = Tail(todo[a]), NEW k
  PROVE  /\ Arranged(a, t) /\ Informed(a, t, m, src, k)
         /\ a = Process => ~Resyncing(todo[a]) /\ ~Resyncing(t)
  <1>1. PICK l : l = todo[a] OBVIOUS
  <1>2. /\ l \in Seq(CallType) /\ l # <<>> /\ Arranged(a, l) /\ Ordinary(l[1])
        /\ a # Process => mem[a].level = 0
        /\ a = Process => ~Resyncing(l)
    BY <1>1, FirstOf DEF Ordinary
  <1>3. Arranged(a, t) /\ (a = Process => ~Resyncing(t)) BY <1>1, <1>2, ArrangedTail DEF Ordinary
  <1>4. t # <<>> => t[1].op \notin {"introspect", "create_snapshot", "accept", "annotate",
                                    "update_snapshot_schema"}
    <2>1. t # <<>> => t[1].op \notin {"create_snapshot", "accept", "annotate", "update_snapshot_schema"}
      BY <1>1, <1>2, ArrangedTail, NamesOp DEF Ordinary
    <2>2. t # <<>> /\ t[1].op = "introspect" => Names(l[1], "get_source") BY <1>1, <1>2, ArrangedTail
    <2>3. ~Names(l[1], "get_source") BY <1>2, NamesOp DEF Ordinary
    <2> QED BY <2>1, <2>2, <2>3
  <1>5. Informed(a, t, m, src, k) BY <1>2, <1>4 DEF Informed
  <1> QED BY <1>1, <1>2, <1>3, <1>5

(* A list taken up instead.                                                *)
LEMMA RescueCalm ==
  ASSUME HomesInv, NEW src, Calm(src), NEW a \in Actors, NEW m, a # Process => m.level = mem[a].level,
         NEW r \in Rescues, NEW k
  PROVE  /\ Arranged(a, r) /\ Informed(a, r, m, src, k) /\ ~Resyncing(r) /\ r \in Seq(CallType)
  <1>1. r \in Seq(CallType) /\ Tame(r) BY RescuesTyped, TameLists
  <1>2. a # Process => mem[a].level = 0 BY DEF Calm, Pending, Informed
  <1> QED BY <1>1, <1>2, TameIs

(* An ordinary step that saves nothing.                                    *)
LEMMA EndCalm ==
  ASSUME HomesInv, NEW src, Calm(src), NEW a \in Actors, NEW op, Calls(a, op), base[a] = Absent,
         Ordinary(Call(a)), file' = file, NoSave, clock' = clock,
         NEW m, mem' = [mem EXCEPT ![a] = m], a # Process => m.level = mem[a].level,
         Return(a) \/ \E r \in Rescues : Then(a, r)
  PROVE  Calm(src)'
  <1>1. saving[a] = "no" /\ todo[a] # <<>> BY DEF Calls
  <1>2. \E l : /\ todo' = [todo EXCEPT ![a] = l] /\ Arranged(a, l) /\ Informed(a, l, m, src, clock)
               /\ a = Process => ~Resyncing(l)
    <2>1. CASE Return(a) BY <1>1, <2>1, OrdinaryTail DEF Return, Then
    <2>2. CASE \E r \in Rescues : Then(a, r) BY <2>2, RescueCalm DEF Then
    <2> QED BY <2>1, <2>2
  <1>3. PICK l : /\ todo' = [todo EXCEPT ![a] = l] /\ Arranged(a, l) /\ Informed(a, l, m, src, clock)
                 /\ a = Process => ~Resyncing(l)
    BY <1>2
  <1>4. a = Process => ~Resyncing(todo[a])
    <2>1. PICK k : k = todo[a] OBVIOUS
    <2>2. a = Process /\ Resyncing(k) => ~Ordinary(Call(a)) BY <1>1, <2>1, FirstOf DEF Ordinary
    <2> QED BY <2>1, <2>2
  <1>5. a = Process => \A f : Due(f, todo[a], mem[a]) => Due(f, l, m) BY <1>3, <1>4, NothingOwed
  <1> QED BY <1>1, <1>3, <1>5, CalmNoSave

(* An ordinary step that saves what it has read with nothing in it that is *)
(* less strict than it was.                                                *)
LEMMA SaveCalm ==
  ASSUME HomesInv, NEW src, Calm(src), NEW a \in Actors, NEW op, Reads(a, op), Ordinary(Call(a)),
         file' = file, clock' \in {clock, clock + 1}, NEW c, Save(a, c), Grounded(c, src, clock),
         \A s \in Sources : Alike(file, c, s) \/ Strict(c, s),
         a # Process => \A s \in Sources : Lower(file, c, s),
         NEW m, mem' = [mem EXCEPT ![a] = m], a # Process => m.level = mem[a].level
  PROVE  Calm(src)'
  <1>1. Calls(a, op) /\ Readable(file) BY DEF Reads
  <1>2. saving[a] = "no" /\ todo[a] # <<>> BY <1>1 DEF Calls
  <1>3. PICK l, k : l = Tail(todo[a]) /\ k = clock' OBVIOUS
  <1>4. /\ copy' = [copy EXCEPT ![a] = c] /\ base' = [base EXCEPT ![a] = file]
        /\ saving' = [saving EXCEPT ![a] = "truncate"] /\ todo' = [todo EXCEPT ![a] = l]
    BY <1>3 DEF Save, Return, Then
  <1>5. clock \in Nat /\ clock' \in Nat /\ clock <= clock' BY DEF Calm
  <1>6. Grounded(c, src, clock') BY <1>5, RecordedStay
  <1>7. /\ Arranged(a, l) /\ Informed(a, l, m, src, k)
        /\ a = Process => ~Resyncing(todo[a]) /\ ~Resyncing(l)
    BY <1>2, <1>3, OrdinaryTail
  <1>8. a = Process => Due(c, l, m)
    <2> SUFFICES ASSUME a = Process PROVE Due(c, l, m) OBVIOUS
    <2>1. Expected(file) BY <1>1, <1>2 DEF Calm
    <2>2. \A s \in Sources : Strict(file, s) BY <1>7, <2>1, NothingOwed DEF Expected
    <2>3. ASSUME NEW s \in Sources PROVE Strict(c, s)
      <3>1. Alike(file, c, s) => Strict(c, s) BY <2>2 DEF Alike, Strict, Newest
      <3> QED BY <3>1
    <2> QED BY <1>7, <2>3, NothingOwed
  <1>9. a # Process => Follows(file, c) BY DEF Follows
  <1>10. Informed(a, l, m, src, clock') BY <1>3, <1>7
  <1>11. PICK f : f = file OBVIOUS
  <1> QED BY <1>1, <1>2, <1>4, <1>5, <1>6, <1>7, <1>8, <1>9, <1>10, <1>11, CalmSave

-------------------------------------------------------------------------------

LEMMA SameLevel ==
  ASSUME HomesInv, NEW a \in Actors
  PROVE  /\ mem = [mem EXCEPT ![a] = mem[a]]
         /\ \A v : /\ [mem[a] EXCEPT !.source = v].level = mem[a].level
                   /\ [mem[a] EXCEPT !.snapshot = v].level = mem[a].level
                   /\ [mem[a] EXCEPT !.project = v].level = mem[a].level
                   /\ [mem[a] EXCEPT !.accept = v].level = mem[a].level
                   /\ [mem[a] EXCEPT !.load = v].level = mem[a].level
                   /\ [mem[a] EXCEPT !.snapshot = v].snapshot = v
                   /\ [mem[a] EXCEPT !.snapshot = v].source = mem[a].source
                   /\ [mem[a] EXCEPT !.accept = v].snapshot = mem[a].snapshot
         /\ \A v, w : [mem[a] EXCEPT !.mapping = v, !.dry = w].level = mem[a].level
  <1>1. Memory(mem[a]) /\ mem = [mem EXCEPT ![a] = mem[a]] BY SameMemory
  <1> QED BY <1>1 DEF Memory, MemFields

(* A method that learns something else than a level.                       *)
LEMMA LevelKept ==
  ASSUME HomesInv, NEW a \in Actors,
         \/ mem' = mem
         \/ \E v : \/ mem' = [mem EXCEPT ![a] = [mem[a] EXCEPT !.source = v]]
                 \/ mem' = [mem EXCEPT ![a] = [mem[a] EXCEPT !.project = v]]
                 \/ mem' = [mem EXCEPT ![a] = [mem[a] EXCEPT !.load = v]]
  PROVE  \E m : mem' = [mem EXCEPT ![a] = m] /\ m.level = mem[a].level
  <1>1. CASE mem' = mem BY <1>1, SameLevel
  <1>2. CASE mem' # mem
    <2>1. PICK v, m : /\ mem' = [mem EXCEPT ![a] = m]
                      /\ m \in {[mem[a] EXCEPT !.source = v], [mem[a] EXCEPT !.project = v],
                                [mem[a] EXCEPT !.load = v]}
      BY <1>2
    <2>2. m.level = mem[a].level BY <2>1, SameMemory DEF Memory, MemFields
    <2> QED BY <2>1, <2>2
  <1> QED BY <1>1, <1>2

(* Copies in which the sources and the snapshots are as they were read.    *)
LEMMA SameSourcesAlike ==
  ASSUME NEW f, NEW c, c.sources = f.sources, c.snapshots = f.snapshots, NEW src, NEW k
  PROVE  /\ \A s : Alike(f, c, s) /\ Lower(f, c, s)
         /\ Grounded(f, src, k) => Grounded(c, src, k)
  BY DEF Alike, Lower, Of, Grounded

(* The methods that leave the sources and the snapshots alone.             *)
Sparing(a) ==
  \E op : /\ Reads(a, op) /\ op # "create_project" /\ Ordinary(Call(a)) /\ file' = file
          /\ \E m : mem' = [mem EXCEPT ![a] = m] /\ m.level = mem[a].level
          /\ \/ /\ NoSave /\ clock' = clock
                /\ Return(a) \/ \E r \in Rescues : Then(a, r)
             \/ /\ clock' \in {clock, clock + 1}
                /\ \E c : c.sources = file.sources /\ c.snapshots = file.snapshots /\ Save(a, c)

LEMMA SparingCalm ==
  ASSUME HomesInv, NEW src, Calm(src), NEW a \in Actors, Sparing(a)
  PROVE  Calm(src)'
  <1>1. PICK op : /\ Reads(a, op) /\ op # "create_project" /\ Ordinary(Call(a)) /\ file' = file
                  /\ \E m : mem' = [mem EXCEPT ![a] = m] /\ m.level = mem[a].level
                  /\ \/ /\ NoSave /\ clock' = clock
                        /\ Return(a) \/ \E r \in Rescues : Then(a, r)
                     \/ /\ clock' \in {clock, clock + 1}
                        /\ \E c : c.sources = file.sources /\ c.snapshots = file.snapshots /\ Save(a, c)
    BY DEF Sparing
  <1>2. PICK m : mem' = [mem EXCEPT ![a] = m] /\ m.level = mem[a].level BY <1>1
  <1>3. Calls(a, op) /\ base[a] = Absent BY <1>1, NotFounding DEF Reads
  <1>4. CASE NoSave /\ clock' = clock /\ (Return(a) \/ \E r \in Rescues : Then(a, r))
    BY <1>1, <1>2, <1>3, <1>4, EndCalm
  <1>5. CASE clock' \in {clock, clock + 1}
               /\ \E c : c.sources = file.sources /\ c.snapshots = file.snapshots /\ Save(a, c)
    <2>1. PICK c : c.sources = file.sources /\ c.snapshots = file.snapshots /\ Save(a, c) BY <1>5
    <2>2. Grounded(file, src, clock) BY <1>1 DEF Reads, Calm
    <2>3. PICK f, k : f = file /\ k = clock OBVIOUS
    <2>4. Grounded(c, src, k) /\ \A s : Alike(f, c, s) /\ Lower(f, c, s)
      BY <2>1, <2>2, <2>3, SameSourcesAlike
    <2>5. Grounded(c, src, clock) /\ \A s : Alike(file, c, s) /\ Lower(file, c, s) BY <2>3, <2>4
    <2> QED BY <1>1, <1>2, <1>5, <2>1, <2>5, SaveCalm
  <1> QED BY <1>1, <1>4, <1>5

LEMMA ProjectsSparing ==
  ASSUME HomesInv, NEW a \in Actors,
         GetProject(a) \/ UpdateProject(a) \/ TouchProject(a) \/ DeleteProject(a)
  PROVE  Sparing(a)
  <1>1. PICK op \in {"get_project", "update_project", "touch_project", "delete_project"} : Reads(a, op)
    BY DEF GetProject, UpdateProject, TouchProject, DeleteProject
  <1>2. Sound(file) /\ todo[a] # <<>> /\ Call(a).op = op BY <1>1, FileSound
  <1>3. Ordinary(Call(a)) BY <1>2 DEF Ordinary, SetsLevel
  <1>4. file' = file /\ clock' = clock
    BY DEF GetProject, UpdateProject, TouchProject, DeleteProject, Kept, Same
  <1>5. \E m : mem' = [mem EXCEPT ![a] = m] /\ m.level = mem[a].level
    <2>1. mem' = mem \/ \E v : mem' = [mem EXCEPT ![a] = [mem[a] EXCEPT !.project = v]]
      BY DEF GetProject, UpdateProject, TouchProject, DeleteProject, Same, Learn
    <2> QED BY <2>1, LevelKept
  <1>6. \/ NoSave /\ (Return(a) \/ \E r \in Rescues : Then(a, r))
        \/ \E c : c.sources = file.sources /\ c.snapshots = file.snapshots /\ Save(a, c)
    <2>1. CASE GetProject(a) BY <1>2, <2>1, Ways DEF GetProject
    <2>2. CASE UpdateProject(a)
      <3>1. PICK v : \/ Raise(a) /\ NoSave
                     \/ Save(a, [file EXCEPT !.projects = v])
        BY <2>2 DEF UpdateProject
      <3> QED BY <1>2, <3>1, Ways DEF Sound, CatalogFields
    <2>3. CASE TouchProject(a) BY <2>3 DEF TouchProject
    <2>4. CASE DeleteProject(a)
      <3>1. PICK v, w : \/ Stop(a) /\ NoSave
                        \/ Save(a, [file EXCEPT !.projects = v, !.history = w])
        BY <2>4 DEF DeleteProject
      <3> QED BY <1>2, <3>1, Ways DEF Sound, CatalogFields
    <2> QED BY <2>1, <2>2, <2>3, <2>4
  <1> QED BY <1>1, <1>3, <1>4, <1>5, <1>6 DEF Sparing

LEMMA LoadsSparing ==
  ASSUME HomesInv, NEW a \in Actors, StartLoad(a) \/ CompleteLoad(a) \/ SetLoadedMapping(a)
  PROVE  Sparing(a)
  <1>1. PICK op \in {"start_load", "complete_load", "set_loaded_mapping"} : Reads(a, op)
    BY DEF StartLoad, CompleteLoad, SetLoadedMapping
  <1>2. Sound(file) /\ todo[a] # <<>> /\ Call(a).op = op BY <1>1, FileSound
  <1>3. Ordinary(Call(a)) BY <1>2 DEF Ordinary, SetsLevel
  <1>4. file' = file BY DEF StartLoad, CompleteLoad, SetLoadedMapping, Kept, Same
  <1>5. \E m : mem' = [mem EXCEPT ![a] = m] /\ m.level = mem[a].level
    <2>1. mem' = mem \/ \E v : mem' = [mem EXCEPT ![a] = [mem[a] EXCEPT !.load = v]]
      BY DEF StartLoad, CompleteLoad, SetLoadedMapping, Same, Learn
    <2> QED BY <2>1, LevelKept
  <1>6. \/ NoSave /\ clock' = clock /\ (Return(a) \/ \E r \in Rescues : Then(a, r))
        \/ /\ clock' \in {clock, clock + 1}
           /\ \E c : c.sources = file.sources /\ c.snapshots = file.snapshots /\ Save(a, c)
    <2>1. CASE StartLoad(a)
      <3>1. PICK v : Save(a, [file EXCEPT !.history = v]) BY <2>1 DEF StartLoad
      <3>2. clock' = clock + 1 BY <2>1 DEF StartLoad
      <3> QED BY <1>2, <3>1, <3>2 DEF Sound, CatalogFields
    <2>2. CASE CompleteLoad(a)
      <3>1. PICK v : \/ Raise(a) /\ NoSave
                     \/ Save(a, [file EXCEPT !.history = v])
        BY <2>2 DEF CompleteLoad
      <3>2. clock' = clock BY <2>2 DEF CompleteLoad
      <3> QED BY <1>2, <3>1, <3>2, Ways DEF Sound, CatalogFields
    <2>3. CASE SetLoadedMapping(a)
      <3>1. PICK v : \/ Return(a) /\ NoSave
                     \/ Save(a, [file EXCEPT !.projects = v])
        BY <2>3 DEF SetLoadedMapping
      <3>2. clock' = clock BY <2>3 DEF SetLoadedMapping, Same
      <3> QED BY <1>2, <3>1, <3>2 DEF Sound, CatalogFields
    <2> QED BY <2>1, <2>2, <2>3
  <1> QED BY <1>1, <1>3, <1>4, <1>5, <1>6 DEF Sparing

LEMMA EntriesSparing ==
  ASSUME HomesInv, NEW a \in Actors, GetEntry(a) \/ AddEntry(a) \/ RemoveEntry(a)
  PROVE  Sparing(a)
  <1>1. PICK op \in {"get_target", "get_catalog", "list", "add_target", "add_catalog", "remove_target",
                     "remove_catalog"} : Reads(a, op)
    BY DEF GetEntry, AddEntry, RemoveEntry
  <1>2. Sound(file) /\ todo[a] # <<>> /\ Call(a).op = op BY <1>1, FileSound
  <1>3. Ordinary(Call(a)) BY <1>2 DEF Ordinary, SetsLevel
  <1>4. file' = file /\ clock' = clock /\ mem' = mem
    BY DEF GetEntry, AddEntry, RemoveEntry, Kept, Same
  <1>5. \E m : mem' = [mem EXCEPT ![a] = m] /\ m.level = mem[a].level BY <1>4, SameLevel
  <1>6. \/ NoSave /\ (Return(a) \/ \E r \in Rescues : Then(a, r))
        \/ \E c : c.sources = file.sources /\ c.snapshots = file.snapshots /\ Save(a, c)
    <2>1. PICK v : \/ NoSave /\ (Return(a) \/ Stop(a) \/ Raise(a))
                   \/ Save(a, [file EXCEPT !.targets = v]) \/ Save(a, [file EXCEPT !.providers = v])
      BY DEF GetEntry, AddEntry, RemoveEntry
    <2> QED BY <1>2, <2>1, Ways DEF Sound, CatalogFields
  <1> QED BY <1>1, <1>3, <1>4, <1>5, <1>6 DEF Sparing

-------------------------------------------------------------------------------

LEMMA NamesIs ==
  ASSUME NEW a, NEW op, Names(Call(a), op)
  PROVE  SourceOf(a) = Call(a).name /\ SourceOf(a) \in Sources
  <1>1. "name" \in DOMAIN Call(a) BY DEF Names, To
  <1> QED BY <1>1 DEF SourceOf, Names

LEMMA GetSourceCalm ==
  ASSUME HomesInv, NEW src, Calm(src), NEW a \in Actors, GetSource(a)
  PROVE  Calm(src)'
  <1>1. Reads(a, "get_source") /\ file' = file /\ clock' = clock /\ NoSave BY DEF GetSource, Kept
  <1>2. /\ Calls(a, "get_source") /\ todo[a] # <<>> /\ Call(a).op = "get_source" /\ saving[a] = "no"
        /\ Sound(file)
    BY <1>1, FileSound
  <1>3. base[a] = Absent BY <1>2, NotFounding
  <1>4. PICK l, t, v : l = todo[a] /\ t = Tail(l) /\ v = file.sources[SourceOf(a)] OBVIOUS
  <1>5. /\ l \in Seq(CallType) /\ l # <<>> /\ l[1] = Call(a) /\ Arranged(a, l)
        /\ a # Process => mem[a].level = 0
        /\ a = Process => ~Resyncing(l)
    BY <1>2, <1>4, FirstOf
  <1>6. CASE v = Absent
    <2>1. Stop(a) /\ mem' = [mem EXCEPT ![a] = mem[a]] BY <1>4, <1>6, SameLevel DEF GetSource
    <2>2. PICK r, m : r = <<>> /\ m = mem[a] OBVIOUS
    <2>3. r \in Rescues BY <2>2 DEF Rescues
    <2>4. Arranged(a, r) /\ Informed(a, r, m, src, clock) /\ ~Resyncing(r) BY <2>2, <2>3, RescueCalm
    <2>5. todo' = [todo EXCEPT ![a] = r] /\ mem' = [mem EXCEPT ![a] = m] BY <2>1, <2>2 DEF Stop, Then
    <2>6. a = Process => \A f : Due(f, todo[a], mem[a]) => Due(f, r, m)
      BY <1>4, <1>5, <2>4, NothingOwed
    <2> QED BY <1>1, <1>2, <1>3, <2>4, <2>5, <2>6, CalmNoSave
  <1>7. CASE v # Absent
    <2>1. PICK m : m = [mem[a] EXCEPT !.source = v] OBVIOUS
    <2>2. Return(a) /\ mem' = [mem EXCEPT ![a] = m] BY <1>4, <1>7, <2>1 DEF GetSource, Learn
    <2>3. m.source = v /\ m.level = mem[a].level BY <2>1, SameMemory DEF Memory, MemFields
    <2>4. todo' = [todo EXCEPT ![a] = t] BY <1>4, <2>2 DEF Return, Then
    <2>5. /\ Arranged(a, t)
          /\ t # <<>> => /\ t[1].op \notin {"create_snapshot", "accept", "annotate",
                                            "update_snapshot_schema"}
                         /\ t[1].op = "introspect" => Names(l[1], "get_source")
          /\ a = Process => ~Resyncing(t)
      BY <1>2, <1>4, <1>5, ArrangedTail DEF SetsLevel, Names, To
    <2>6. t # <<>> /\ t[1].op = "introspect" => m.source \in SourceConfig
      BY <1>2, <1>4, <1>5, <1>7, <2>3, <2>5, NamesIs DEF Sound
    <2>7. Informed(a, t, m, src, clock) BY <1>5, <2>3, <2>5, <2>6 DEF Informed
    <2>8. a = Process => \A f : Due(f, todo[a], mem[a]) => Due(f, t, m)
      BY <1>4, <1>5, <2>5, NothingOwed
    <2> QED BY <1>1, <1>2, <1>3, <2>2, <2>4, <2>5, <2>7, <2>8, CalmNoSave
  <1> QED BY <1>6, <1>7

(* A copy in which one source is another than it was.                      *)
LEMMA ReplacedSource ==
  ASSUME NEW f, Sound(f), NEW src, NEW k, Grounded(f, src, k), NEW s \in Sources, NEW v \in SourceConfig,
         NEW c, c.sources = [f.sources EXCEPT ![s] = v], c.snapshots = f.snapshots
  PROVE  /\ Grounded(c, src, k)
         /\ \A x \in Sources : x # s => Alike(f, c, x) /\ Lower(f, c, x)
         /\ c.sources[s] = v
         /\ f.sources[s] = Absent => Strict(c, s)
         /\ f.sources[s] # Absent /\ f.sources[s].level = v.level =>
              Alike(f, c, s) /\ Lower(f, c, s)
         /\ v.level = 0 => Lower(f, c, s)
  <1>1. /\ c.sources = [f.sources EXCEPT ![s] = v] /\ c.snapshots = f.snapshots
        /\ c.sources[s] = v /\ \A x \in Sources : x # s => c.sources[x] = f.sources[x]
    BY DEF Sound
  <1>2. v # Absent BY CatalogAssumption
  <1>3. \A x : Of(c, x) = Of(f, x) BY <1>1 DEF Of
  <1>4. ASSUME NEW n \in c.snapshots PROVE Recorded(n, src, k) /\ c.sources[n.source] # Absent
    <2>1. Recorded(n, src, k) /\ f.sources[n.source] # Absent /\ n.source \in Sources
      BY <1>1, RecordedIs DEF Grounded
    <2> QED BY <1>1, <1>2, <2>1
  <1>5. f.sources[s] = Absent => Strict(c, s)
    <2>1. f.sources[s] = Absent => Of(f, s) = {} BY DEF Of, Grounded
    <2> QED BY <1>3, <2>1 DEF Strict, Newest
  <1>6. ASSUME NEW x \in Sources, x # s PROVE Alike(f, c, x) /\ Lower(f, c, x)
    BY <1>1, <1>3, <1>6 DEF Alike, Lower
  <1>7. f.sources[s] # Absent /\ f.sources[s].level = v.level => Alike(f, c, s) /\ Lower(f, c, s)
    BY <1>1, <1>2, <1>3 DEF Alike, Lower
  <1>8. v.level = 0 => Lower(f, c, s) BY <1>1 DEF Lower
  <1> QED BY <1>1, <1>4, <1>5, <1>6, <1>7, <1>8 DEF Grounded

LEMMA AddSourceCalm ==
  ASSUME HomesInv, NEW src, Calm(src), NEW a \in Actors, AddSource(a)
  PROVE  Calm(src)'
  <1>1. Reads(a, "add_source") /\ file' = file /\ clock' = clock /\ mem' = mem BY DEF AddSource, Kept
  <1>2. /\ Calls(a, "add_source") /\ todo[a] # <<>> /\ Call(a).op = "add_source" /\ Call(a) \in CallType
        /\ Sound(file)
    BY <1>1, FileSound
  <1>3. base[a] = Absent BY <1>2, NotFounding
  <1>4. Ordinary(Call(a)) BY <1>2 DEF Ordinary, SetsLevel
  <1>5. PICK m : mem' = [mem EXCEPT ![a] = m] /\ m.level = mem[a].level BY <1>1, SameLevel
  <1>6. CASE Raise(a) /\ NoSave
    <2>1. \E r \in Rescues : Then(a, r) BY <1>2, <1>6, Ways
    <2> QED BY <1>1, <1>2, <1>3, <1>4, <1>5, <1>6, <2>1, EndCalm
  <1>7. CASE ~(Raise(a) /\ NoSave)
    <2>1. PICK v : v = [level |-> mem[a].level, overlay |-> Call(a).overlay, bound |-> Call(a).bound]
      OBVIOUS
    <2>2. PICK s, c : s = Call(a).name /\ c = [file EXCEPT !.sources[s] = v] OBVIOUS
    <2>3. Save(a, c) /\ file.sources[s] = Absent BY <1>7, <2>1, <2>2 DEF AddSource
    <2>4. s \in Sources /\ v \in SourceConfig
      BY <1>2, <2>1, <2>2, CallSays, SameMemory DEF SourceConfig, Memory
    <2>5. Grounded(file, src, clock) BY <1>1 DEF Reads, Calm
    <2>6. PICK f, k : f = file /\ k = clock OBVIOUS
    <2>7. /\ Grounded(c, src, k) /\ Strict(c, s)
          /\ \A x \in Sources : x # s => Alike(f, c, x) /\ Lower(f, c, x)
          /\ v.level = 0 => Lower(f, c, s)
      <3>1. /\ c.sources = [file.sources EXCEPT ![s] = v] /\ c.snapshots = file.snapshots
        BY <1>2, <2>2 DEF Sound, CatalogFields
      <3>2. /\ Sound(f) /\ Grounded(f, src, k) /\ f.sources[s] = Absent
            /\ c.sources = [f.sources EXCEPT ![s] = v] /\ c.snapshots = f.snapshots
        BY <1>2, <2>3, <2>5, <2>6, <3>1
      <3> QED BY <2>4, <3>2, ReplacedSource
    <2>8. a # Process => v.level = 0 BY <2>1 DEF Calm, Pending, Informed
    <2>9. /\ Grounded(c, src, clock) /\ \A x \in Sources : Alike(file, c, x) \/ Strict(c, x)
          /\ a # Process => \A x \in Sources : Lower(file, c, x)
      BY <2>6, <2>7, <2>8
    <2> QED BY <1>1, <1>4, <1>5, <2>3, <2>9, SaveCalm
  <1> QED BY <1>6, <1>7

(* What a source that gets a level leaves to be done.                      *)
LEMMA LevelTail ==
  ASSUME NEW l \in Seq(CallType), l # <<>>, OfProcess(l), SetsLevel(l[1]), NEW t, t = Tail(l)
  PROVE  /\ Resyncing(t) /\ t # <<>> /\ t[1].op = "get_latest_snapshot"
         /\ \A m : Subject(t, m) = l[1].name
         /\ Arranged(Process, t)
  <1>1. /\ t \in Seq(CallType) /\ Len(l) > 0 /\ Len(t) = Len(l) - 1
        /\ \A i \in DOMAIN t : i + 1 \in DOMAIN l /\ t[i] = l[i + 1]
        /\ DOMAIN l = 1 .. Len(l) /\ 1 \in DOMAIN l
    BY TailIs
  <1>2. /\ Len(l) = 1 + 3 /\ l[1 + 1] = To("get_latest_snapshot", l[1].name)
        /\ l[1 + 2].op = "annotate"
    BY <1>1 DEF OfProcess
  <1>3. DOMAIN t = {1, 2, 3} /\ t # <<>>
    <2>1. Len(t) = 3 /\ DOMAIN t = 1 .. Len(t) BY <1>1, <1>2
    <2>2. DOMAIN t = 1 .. 3 BY <2>1
    <2>3. 1 .. 3 = {1, 2, 3} OBVIOUS
    <2>4. t = <<>> => Len(t) = 0 OBVIOUS
    <2>5. t # <<>> BY <2>1, <2>4
    <2> QED BY <2>2, <2>3, <2>5
  <1>4. t[1] = l[1 + 1] /\ t[2] = l[2 + 1] BY <1>1, <1>3
  <1>5. t[1] = To("get_latest_snapshot", l[1].name) /\ t[2].op = "annotate"
    <2>1. 1 + 2 = 2 + 1 OBVIOUS
    <2> QED BY ONLY <1>2, <1>4, <2>1
  <1>6. Arranged(Process, l) BY DEF Arranged
  <1>7. Arranged(Process, t) BY <1>6, ArrangedTail
  <1> QED BY <1>3, <1>5, <1>7 DEF Resyncing, Subject, To

LEMMA UpdateSourceCalm ==
  ASSUME HomesInv, NEW src, Calm(src), NEW a \in Actors, UpdateSource(a)
  PROVE  Calm(src)'
  <1>1. /\ Reads(a, "update_source") /\ file' = file /\ clock' = clock /\ mem' = mem
    BY DEF UpdateSource, Kept
  <1>2. /\ Calls(a, "update_source") /\ todo[a] # <<>> /\ Call(a).op = "update_source"
        /\ Call(a) \in CallType /\ Sound(file) /\ saving[a] = "no"
    BY <1>1, FileSound
  <1>3. base[a] = Absent BY <1>2, NotFounding
  <1>4. PICK s : s = Call(a).name OBVIOUS
  <1>5. PICK m : mem' = [mem EXCEPT ![a] = m] /\ m = mem[a] BY <1>1, SameLevel
  <1>6. PICK l, t : l = todo[a] /\ t = Tail(l) OBVIOUS
  <1>7. /\ l \in Seq(CallType) /\ l # <<>> /\ l[1] = Call(a) /\ t \in Seq(CallType)
        /\ Arranged(a, l) /\ Informed(a, l, m, src, clock)
        /\ a # Process => ~SetsLevel(l[1])
        /\ a = Process => ~Resyncing(l)
    BY <1>2, <1>5, <1>6, FirstOf
  <1>8. CASE Raise(a) /\ NoSave
    <2>1. PICK r \in Rescues : Then(a, r) BY <1>2, <1>8, Ways
    <2>2. Arranged(a, r) /\ Informed(a, r, m, src, clock) /\ ~Resyncing(r) BY <1>5, RescueCalm
    <2>3. a = Process => \A f : Due(f, todo[a], mem[a]) => Due(f, r, m)
      BY <1>6, <1>7, <2>2, NothingOwed
    <2>4. todo' = [todo EXCEPT ![a] = r] BY <2>1 DEF Then
    <2> QED BY <1>1, <1>2, <1>3, <1>5, <1>8, <2>2, <2>3, <2>4, CalmNoSave
  <1>9. CASE ~(Raise(a) /\ NoSave)
    <2>1. PICK o : o = file.sources[s] OBVIOUS
    <2>2. PICK v : v = IF Call(a).field = "level" THEN [o EXCEPT !.level = mem[a].level]
                       ELSE [o EXCEPT !.overlay = Call(a).value]
      OBVIOUS
    <2>3. PICK c : c = [file EXCEPT !.sources[s] = v] OBVIOUS
    <2>4. Save(a, c) /\ o # Absent BY <1>4, <1>9, <2>1, <2>2, <2>3 DEF UpdateSource
    <2>5. /\ s \in Sources /\ Call(a).field \in {"level", "overlay"}
          /\ Call(a).field = "overlay" => Call(a).value \in Overlays \cup {Absent}
      BY <1>2, <1>4, CallSays
    <2>6. o \in SourceConfig BY <1>2, <2>1, <2>4, <2>5 DEF Sound
    <2>7. /\ v \in SourceConfig
          /\ Call(a).field = "level" => v.level = mem[a].level
          /\ Call(a).field = "overlay" => v.level = o.level
      BY <2>2, <2>5, <2>6, SameMemory DEF SourceConfig, Memory
    <2>8. Readable(file) /\ Grounded(file, src, clock) BY <1>1 DEF Reads, Calm
    <2>9. PICK f, k : f = file /\ k = clock OBVIOUS
    <2>10. /\ Grounded(c, src, k) /\ c.sources[s] = v
           /\ \A x \in Sources : x # s => Alike(f, c, x) /\ Lower(f, c, x)
           /\ f.sources[s] # Absent /\ f.sources[s].level = v.level => Alike(f, c, s) /\ Lower(f, c, s)
      <3>1. /\ c.sources = [file.sources EXCEPT ![s] = v] /\ c.snapshots = file.snapshots
        BY <1>2, <2>3 DEF Sound, CatalogFields
      <3>2. /\ Sound(f) /\ Grounded(f, src, k)
            /\ c.sources = [f.sources EXCEPT ![s] = v] /\ c.snapshots = f.snapshots
        BY <1>2, <2>8, <2>9, <3>1
      <3>3. s \in Sources /\ v \in SourceConfig BY <2>5, <2>7
      <3>4. Grounded(c, src, k) BY ONLY <3>2, <3>3, ReplacedSource
      <3>5. c.sources[s] = v BY <3>2, <3>3 DEF Sound
      <3>6. \A x \in Sources : x # s => Alike(f, c, x) /\ Lower(f, c, x)
        BY ONLY <3>2, <3>3, ReplacedSource
      <3>7. f.sources[s] # Absent /\ f.sources[s].level = v.level => Alike(f, c, s) /\ Lower(f, c, s)
        BY ONLY <3>2, <3>3, ReplacedSource
      <3> QED BY ONLY <3>4, <3>5, <3>6, <3>7
    <2>11. CASE Call(a).field # "level"
      <3>1. Ordinary(Call(a)) BY <1>2, <2>11 DEF Ordinary, SetsLevel
      <3>2. \A x \in Sources : Alike(f, c, x) /\ Lower(f, c, x)
        BY <2>1, <2>4, <2>5, <2>7, <2>9, <2>10, <2>11
      <3>3. Grounded(c, src, clock) /\ \A x \in Sources : Alike(file, c, x) /\ Lower(file, c, x)
        BY <2>9, <2>10, <3>2
      <3> QED BY <1>1, <1>5, <2>4, <3>1, <3>3, SaveCalm
    <2>12. CASE Call(a).field = "level"
      <3>1. SetsLevel(l[1]) /\ a = Process /\ l[1].name = s BY <1>2, <1>4, <1>7, <2>12 DEF SetsLevel
      <3>2. Resyncing(t) /\ t # <<>> /\ t[1].op = "get_latest_snapshot" /\ Subject(t, m) = s
            /\ Arranged(a, t)
        <4>1. OfProcess(l) BY <1>7, <3>1 DEF Arranged
        <4>2. /\ Resyncing(t) /\ t # <<>> /\ t[1].op = "get_latest_snapshot"
              /\ Subject(t, m) = l[1].name /\ Arranged(Process, t)
          <5>1. l \in Seq(CallType) /\ l # <<>> /\ SetsLevel(l[1]) /\ t = Tail(l) BY <1>6, <1>7, <3>1
          <5> QED BY ONLY <4>1, <5>1, LevelTail
        <4> QED BY <3>1, <4>2
      <3>3. Informed(a, t, m, src, clock') BY <3>1, <3>2 DEF Informed
      <3>4. \A x \in Sources : Strict(file, x)
        <4>1. Expected(file) BY <1>2, <2>8, <3>1 DEF Calm
        <4>2. Due(file, l, m) BY <1>5, <1>6, <3>1, <4>1 DEF Expected
        <4> QED BY <1>7, <3>1, <4>2, NothingOwed
      <3>5. Due(c, t, m)
        <4> SUFFICES ASSUME NEW x \in Sources
                     PROVE  /\ Strict(c, x) \/ Owed(c, t, m, x)
                            /\ Owing(t, m, x) => Within(c, m, x)
          BY DEF Due
        <4>1. CASE x = s
          <5>1. Owed(c, t, m, x) BY <3>2, <4>1 DEF Owed, Owing
          <5>2. m.level \in Nat BY <1>5, LevelIs
          <5>3. Within(c, m, x) BY <1>5, <2>7, <2>10, <2>12, <4>1, <5>2 DEF Within
          <5> QED BY <5>1, <5>3
        <4>2. CASE x # s
          <5>1. ~Owing(t, m, x) BY <3>2, <4>2 DEF Owing
          <5>2. Alike(file, c, x) BY <2>9, <2>10, <4>2
          <5>3. Strict(c, x) BY <3>4, <5>2 DEF Alike, Strict, Newest
          <5> QED BY <5>1, <5>3
        <4> QED BY <4>1, <4>2
      <3>6. /\ copy' = [copy EXCEPT ![a] = c] /\ base' = [base EXCEPT ![a] = file]
            /\ saving' = [saving EXCEPT ![a] = "truncate"] /\ todo' = [todo EXCEPT ![a] = t]
        BY <1>6, <2>4 DEF Save, Return, Then
      <3>7. clock \in Nat /\ clock <= clock' /\ clock' \in Nat BY <1>1 DEF Calm
      <3>8. Grounded(c, src, clock') BY <1>1, <2>9, <2>10
      <3>9. PICK g : g = file OBVIOUS
      <3> QED BY <1>1, <1>2, <1>5, <2>8, <3>1, <3>2, <3>3, <3>5, <3>6, <3>7, <3>8, <3>9, CalmSave
    <2> QED BY <2>11, <2>12
  <1> QED BY <1>8, <1>9

LEMMA RemoveSourceCalm ==
  ASSUME HomesInv, NEW src, Calm(src), NEW a \in Actors, RemoveSource(a)
  PROVE  Calm(src)'
  <1>1. Reads(a, "remove_source") /\ file' = file /\ clock' = clock /\ mem' = mem
    BY DEF RemoveSource, Kept
  <1>2. /\ Calls(a, "remove_source") /\ todo[a] # <<>> /\ Call(a).op = "remove_source"
        /\ Call(a) \in CallType /\ Sound(file)
    BY <1>1, FileSound
  <1>3. base[a] = Absent BY <1>2, NotFounding
  <1>4. Ordinary(Call(a)) BY <1>2 DEF Ordinary, SetsLevel
  <1>5. PICK m : mem' = [mem EXCEPT ![a] = m] /\ m.level = mem[a].level BY <1>1, SameLevel
  <1>6. PICK s, c : s = Call(a).name /\ c = WithoutSource(s) OBVIOUS
  <1>7. (NoSave /\ \E r \in Rescues : Then(a, r)) \/ Save(a, c)
    BY <1>2, <1>6, Ways DEF RemoveSource
  <1>8. CASE NoSave /\ \E r \in Rescues : Then(a, r)
    BY <1>1, <1>2, <1>3, <1>4, <1>5, <1>8, EndCalm
  <1>9. CASE Save(a, c)
    <2>1. s \in Sources BY <1>2, <1>6, CallSays
    <2>2. /\ c.sources = [file.sources EXCEPT ![s] = Absent]
          /\ c.snapshots = file.snapshots \ DependentSnapshots(s)
      BY <1>2, <1>6 DEF Sound, CatalogFields, WithoutSource
    <2>3. c.sources[s] = Absent /\ \A x \in Sources : x # s => c.sources[x] = file.sources[x]
      BY <1>2, <2>1, <2>2 DEF Sound
    <2>4. \A n \in c.snapshots : n \in file.snapshots /\ n.source # s
      BY <2>2 DEF DependentSnapshots
    <2>5. Grounded(file, src, clock) BY <1>1 DEF Reads, Calm
    <2>6. Grounded(c, src, clock) BY <2>3, <2>4, <2>5, RecordedIs DEF Grounded
    <2>7. Strict(c, s) /\ Lower(file, c, s) BY <2>3 DEF Strict, Lower
    <2>8. ASSUME NEW x \in Sources, x # s PROVE Alike(file, c, x) /\ Lower(file, c, x)
      <3>1. Of(c, x) = Of(file, x) BY <2>2, <2>8 DEF Of, DependentSnapshots
      <3> QED BY <2>3, <2>8, <3>1 DEF Alike, Lower
    <2>9. (\A x \in Sources : Alike(file, c, x) \/ Strict(c, x)) /\ \A x \in Sources : Lower(file, c, x)
      BY <2>7, <2>8
    <2> QED BY <1>1, <1>4, <1>5, <1>9, <2>6, <2>9, SaveCalm
  <1> QED BY <1>7, <1>8, <1>9

-------------------------------------------------------------------------------

LEMMA LatestCalm ==
  ASSUME HomesInv, NEW src, Calm(src), NEW a \in Actors, GetLatestSnapshot(a)
  PROVE  Calm(src)'
  <1>1. Reads(a, "get_latest_snapshot") /\ file' = file /\ clock' = clock /\ NoSave
    BY DEF GetLatestSnapshot, Kept
  <1>2. /\ Calls(a, "get_latest_snapshot") /\ todo[a] # <<>> /\ Call(a).op = "get_latest_snapshot"
        /\ saving[a] = "no" /\ Readable(file)
    BY <1>1, FileSound DEF Reads
  <1>3. base[a] = Absent BY <1>2, NotFounding
  <1>4. PICK l, t, x, m : l = todo[a] /\ t = Tail(l) /\ x = SourceOf(a) /\ m = mem[a] OBVIOUS
  <1>5. /\ l \in Seq(CallType) /\ l # <<>> /\ l[1] = Call(a) /\ t \in Seq(CallType)
        /\ Arranged(a, l) /\ Informed(a, l, m, src, clock)
        /\ a = Process /\ Resyncing(l) =>
             Names(l[1], "get_latest_snapshot")
    BY <1>2, <1>4, FirstOf
  <1>6. l[1].op = "get_latest_snapshot" BY <1>2, <1>5
  <1>7. ASSUME a = Process, Resyncing(l)
        PROVE  x = l[1].name /\ t # <<>> /\ t[1].op = "annotate" /\ \A k : Subject(l, k) = x
    <2>1. Names(Call(a), "get_latest_snapshot") BY <1>5, <1>7
    <2>2. x = l[1].name BY <1>4, <1>5, <2>1, NamesIs
    <2>3. 2 \in DOMAIN l /\ l[2].op = "annotate" BY <1>6, <1>7 DEF Resyncing
    <2>4. /\ Len(t) = Len(l) - 1 /\ Len(l) \in Nat /\ DOMAIN l = 1 .. Len(l)
          /\ \A i \in DOMAIN t : t[i] = l[i + 1]
      BY <1>4, <1>5, TailIs
    <2>5. 1 \in DOMAIN t BY <1>5, <2>3, <2>4
    <2>6. t # <<>> /\ t[1] = l[1 + 1] BY <2>4, <2>5
    <2>7. \A k : Subject(l, k) = x BY <1>6, <2>2 DEF Subject
    <2> QED BY <2>2, <2>3, <2>6, <2>7
  <1>8. Grounded(file, src, clock) /\ clock \in Nat BY <1>2 DEF Calm
  <1>9. a # Process => m.level = 0 BY <1>5 DEF Informed
  <1>10. CASE Latest(x) = Absent
    <2>1. Stop(a) /\ mem' = mem BY <1>4, <1>10 DEF GetLatestSnapshot
    <2>2. PICK r : r = <<>> OBVIOUS
    <2>3. r \in Rescues BY <2>2 DEF Rescues
    <2>4. Arranged(a, r) /\ Informed(a, r, m, src, clock) /\ ~Resyncing(r) BY <1>4, <2>3, RescueCalm
    <2>5. todo' = [todo EXCEPT ![a] = r] /\ mem' = [mem EXCEPT ![a] = m]
      BY <1>4, <2>1, <2>2, SameLevel DEF Stop, Then
    <2>6. Of(file, x) = {} BY <1>8, <1>10, LatestNone
    <2>7. ASSUME a = Process, Due(file, l, m) PROVE Due(file, r, m)
      <3>1. Strict(file, x) BY <2>6 DEF Strict, Newest
      <3>2. ASSUME NEW s \in Sources PROVE Strict(file, s)
        <4>1. Owed(file, l, m, s) => s = x BY <1>7, <2>7 DEF Owed, Owing
        <4> QED BY <2>7, <3>1, <4>1 DEF Due
      <3> QED BY <2>4, <3>2, NothingOwed
    <2> QED BY <1>1, <1>2, <1>3, <1>4, <2>4, <2>5, <2>7, CalmNoSave
  <1>11. CASE Latest(x) # Absent
    <2>1. PICK n, k : n = Latest(x) /\ k = [m EXCEPT !.snapshot = n] OBVIOUS
    <2>2. Return(a) /\ mem' = [mem EXCEPT ![a] = k] BY <1>4, <1>11, <2>1 DEF GetLatestSnapshot, Learn
    <2>3. k.snapshot = n /\ k.level = m.level BY <1>4, <2>1, SameMemory DEF Memory, MemFields
    <2>4. n \in Of(file, x) /\ Recorded(n, src, clock) /\ n # Absent
      BY <1>8, <1>11, <2>1, LatestIs, LatestNone, RecordedIs
    <2>5. todo' = [todo EXCEPT ![a] = t] BY <1>4, <2>2 DEF Return, Then
    <2>6. /\ Arranged(a, t)
          /\ t # <<>> => t[1].op \notin {"introspect", "create_snapshot", "update_snapshot_schema"}
          /\ a = Process /\ ~Resyncing(l) => ~Resyncing(t)
      BY <1>4, <1>5, <1>6, ArrangedTail, NamesOp DEF SetsLevel
    <2>7. Informed(a, t, k, src, clock) BY <1>9, <2>3, <2>4, <2>6 DEF Informed, Recorded
    <2>8. ASSUME a = Process, Due(file, l, m) PROVE Due(file, t, k)
      <3>1. CASE ~Resyncing(l) BY <2>6, <2>8, <3>1, NothingOwed
      <3>2. CASE Resyncing(l)
        <4>1. t[1].op = "annotate" /\ t # <<>> /\ \A i : Subject(l, i) = x BY <1>7, <2>8, <3>2
        <4>2. n.source = x BY <2>4 DEF Of
        <4>3. Subject(t, k) = x /\ Resyncing(t) BY <2>3, <4>1, <4>2 DEF Subject, Resyncing
        <4>4. ASSUME NEW s \in Sources
              PROVE  /\ Strict(file, s) \/ Owed(file, t, k, s)
                     /\ Owing(t, k, s) => Within(file, k, s)
          <5>1. CASE s = x
            <6>1. Owed(file, t, k, s) BY <2>3, <2>4, <4>3, <5>1 DEF Owed, Owing
            <6>2. Within(file, m, s) BY <2>8, <3>2, <4>1, <5>1 DEF Due, Owing
            <6> QED BY <2>3, <6>1, <6>2 DEF Within
          <5>2. CASE s # x
            <6>1. ~Owing(t, k, s) /\ ~Owed(file, l, m, s) BY <4>1, <4>3, <5>2 DEF Owing, Owed
            <6> QED BY <2>8, <6>1 DEF Due
          <5> QED BY <5>1, <5>2
        <4> QED BY <4>4 DEF Due
      <3> QED BY <3>1, <3>2
    <2> QED BY <1>1, <1>2, <1>3, <1>4, <2>2, <2>5, <2>6, <2>7, <2>8, CalmNoSave
  <1> QED BY <1>10, <1>11

LEMMA CreateSnapshotCalm ==
  ASSUME HomesInv, NEW src, Calm(src), NEW a \in Actors, CreateSnapshot(a)
  PROVE  Overlapped' \/ \E q : Calm(q)'
  <1>1. Reads(a, "create_snapshot") /\ file' = file /\ clock' = clock + 1 BY DEF CreateSnapshot
  <1>2. /\ todo[a] # <<>> /\ Call(a).op = "create_snapshot" /\ saving[a] = "no" /\ Readable(file)
        /\ Call(a) \in CallType /\ Sound(file)
    BY <1>1, FileSound DEF Reads
  <1>3. PICK l, t, s, m : l = todo[a] /\ t = Tail(l) /\ s = Call(a).name /\ m = mem[a] OBVIOUS
  <1>4. /\ l \in Seq(CallType) /\ l # <<>> /\ l[1] = Call(a) /\ Informed(a, l, m, src, clock)
    BY <1>2, <1>3, FirstOf
  <1>5. CASE Crossed(a, s)
    <2>1. mishaps' = mishaps \cup {"crossed"} BY <1>3, <1>5 DEF CreateSnapshot
    <2> QED BY <2>1 DEF Overlapped
  <1>6. CASE ~Crossed(a, s)
    <2>1. PICK n, k, c :
            /\ n = [m.snapshot EXCEPT !.id = clock, !.source = s, !.accepted = m.accept]
            /\ k = [m EXCEPT !.snapshot = n] /\ c = [file EXCEPT !.snapshots = @ \cup {n}]
      OBVIOUS
    <2>2. Save(a, c) /\ mem' = [mem EXCEPT ![a] = k] BY <1>3, <2>1 DEF CreateSnapshot, Learn
    <2>3. /\ file.sources[s] # Absent /\ file.sources[s].level = m.source.level
          /\ m.snapshot.id # 0 => Latest(s) = m.snapshot
      BY <1>3, <1>6 DEF Crossed
    <2>4. s \in Sources BY <1>2, <1>3, CallSays
    <2>5. file.sources[s].level \in Nat
      <3>1. file.sources[s] \in SourceConfig BY <1>2, <2>3, <2>4 DEF Sound
      <3> QED BY <3>1, CatalogAssumption DEF SourceConfig
    <2>6. Grounded(file, src, clock) /\ clock \in Nat /\ clock # 0 BY <1>2 DEF Calm
    <2>7. Ordinary(Call(a)) BY <1>2 DEF Ordinary, SetsLevel
    <2>8. PICK q, j : q = [i \in Nat |-> IF i = clock THEN s ELSE src[i]] /\ j = clock + 1 OBVIOUS
    <2>9. \A i \in Nat : i < clock => q[i] = src[i] BY <2>6, <2>8
    <2>10. k.level = m.level BY <1>3, <2>1, SameMemory DEF Memory, MemFields
    <2>11. /\ Arranged(a, t) /\ Informed(a, t, k, src, clock)
           /\ a = Process => ~Resyncing(l) /\ ~Resyncing(t)
      BY <1>2, <1>3, <2>7, <2>10, OrdinaryTail
    <2>12. a = Process => \A x \in Sources : Strict(file, x)
      <3> SUFFICES ASSUME a = Process PROVE \A x \in Sources : Strict(file, x) OBVIOUS
      <3>1. Expected(file) BY <1>2 DEF Calm
      <3> QED BY <1>3, <2>11, <3>1, NothingOwed DEF Expected
    <2>13. /\ m.snapshot \in SchemaSnapshot
           /\ file.sources[s].level <= m.snapshot.level
      <3>1. \/ /\ m.snapshot \in SchemaSnapshot /\ m.snapshot.id = 0
               /\ m.snapshot.level = m.source.level
            \/ a = Process /\ m.snapshot.id # 0 /\ m.snapshot # Absent
        BY <1>2, <1>4 DEF Informed
      <3>2. CASE /\ m.snapshot \in SchemaSnapshot /\ m.snapshot.id = 0
                 /\ m.snapshot.level = m.source.level
        BY <2>3, <2>5, <3>2
      <3>3. CASE a = Process /\ m.snapshot.id # 0 /\ m.snapshot # Absent
        <4>1. Latest(s) = m.snapshot /\ Latest(s) # Absent BY <2>3, <3>3
        <4>2. Latest(s) \in Newest(file, s) /\ Recorded(Latest(s), src, clock)
          BY <2>6, <4>1, LatestIs, LatestNone
        <4>3. Strict(file, s) BY <2>4, <2>12, <3>3
        <4> QED BY <2>3, <4>1, <4>2, <4>3 DEF Strict, Recorded
      <3> QED BY <3>1, <3>2, <3>3
    <2>14. n \in SchemaSnapshot /\ n.id = clock /\ n.source = s /\ n.level = m.snapshot.level
      <3>1. m.accept \in BOOLEAN BY <1>3, SameMemory DEF Memory
      <3> QED BY <2>1, <2>4, <2>6, <2>13, <3>1 DEF SchemaSnapshot
    <2>15. c.sources = file.sources /\ c.snapshots = file.snapshots \cup {n}
      BY <1>2, <2>1 DEF Sound, CatalogFields
    <2>16. clock < j /\ clock <= j /\ j \in Nat BY <2>6, <2>8
    <2>17. Recorded(n, q, j) BY <2>6, <2>8, <2>14, <2>16 DEF Recorded
    <2>18. Grounded(file, q, j) BY <2>6, <2>9, <2>16, RecordedStay
    <2>19. Grounded(c, q, j) BY <2>3, <2>14, <2>15, <2>17, <2>18 DEF Grounded
    <2>20. Strict(c, s)
      <3> SUFFICES ASSUME NEW o \in Newest(c, s) PROVE c.sources[s].level <= o.level BY DEF Strict
      <3>1. n \in Of(c, s) /\ o \in Of(c, s) BY <2>14, <2>15 DEF Of, Newest
      <3>2. n.id <= o.id BY <3>1 DEF Newest
      <3>3. o \notin file.snapshots
        <4>1. o \in file.snapshots => o.id \in Nat /\ o.id < clock BY <2>6, RecordedIs DEF Grounded, Recorded
        <4> QED BY <2>6, <2>14, <3>2, <4>1
      <3>4. o = n BY <2>15, <3>1, <3>3 DEF Of
      <3> QED BY <2>13, <2>14, <2>15, <3>4
    <2>21. ASSUME NEW x \in Sources PROVE (Alike(file, c, x) \/ Strict(c, x)) /\ Lower(file, c, x)
      <3>1. Lower(file, c, x) BY <2>15 DEF Lower
      <3>2. x # s => Of(c, x) = Of(file, x) BY <2>14, <2>15 DEF Of
      <3>3. x # s => Alike(file, c, x) BY <2>15, <3>2 DEF Alike
      <3> QED BY <2>20, <3>1, <3>3
    <2>22. IF a = Process THEN Due(c, t, k) ELSE Follows(file, c)
      <3>1. ASSUME a = Process, NEW x \in Sources PROVE Strict(c, x)
        <4>1. Alike(file, c, x) => Strict(c, x) BY <2>12, <3>1 DEF Alike, Strict, Newest
        <4> QED BY <2>21, <4>1
      <3>2. a = Process => Due(c, t, k) BY <2>11, <3>1, NothingOwed
      <3> QED BY <2>21, <3>2 DEF Follows
    <2>23. /\ copy' = [copy EXCEPT ![a] = c] /\ base' = [base EXCEPT ![a] = file]
           /\ saving' = [saving EXCEPT ![a] = "truncate"] /\ todo' = [todo EXCEPT ![a] = t]
      BY <1>3, <2>2 DEF Save, Return, Then
    <2>24. j = clock' BY <1>1, <2>8
    <2>25. /\ clock' \in Nat /\ clock <= clock' /\ Grounded(c, q, clock')
           /\ Informed(a, t, k, q, clock')
      BY <2>6, <2>9, <2>11, <2>16, <2>19, <2>24, RecordedStay
    <2>26. PICK f : f = file OBVIOUS
    <2>27. Calm(q)'
      BY <1>1, <1>2, <2>2, <2>9, <2>11, <2>22, <2>23, <2>25, <2>26, CalmSave
    <2> QED BY <2>27
  <1> QED BY <1>5, <1>6

LEMMA UpdateSnapshotSchemaCalm ==
  ASSUME HomesInv, NEW src, Calm(src), NEW a \in Actors, UpdateSnapshotSchema(a)
  PROVE  Overlapped' \/ Calm(src)'
  <1>1. Reads(a, "update_snapshot_schema") /\ file' = file /\ clock' = clock /\ mem' = mem
    BY DEF UpdateSnapshotSchema
  <1>2. /\ Calls(a, "update_snapshot_schema") /\ todo[a] # <<>> /\ saving[a] = "no" /\ Readable(file)
        /\ Call(a).op = "update_snapshot_schema" /\ Sound(file)
    BY <1>1, FileSound DEF Reads
  <1>3. base[a] = Absent BY <1>2, NotFounding
  <1>4. PICK l, m : l = todo[a] /\ m = mem[a] OBVIOUS
  <1>5. /\ l \in Seq(CallType) /\ l # <<>> /\ l[1] = Call(a) /\ 1 \in DOMAIN l
        /\ Arranged(a, l) /\ Informed(a, l, m, src, clock)
        /\ l[1].op \in ProcessOnly => a = Process
    BY <1>2, <1>4, FirstOf
  <1>6. a = Process /\ l[1].op = "update_snapshot_schema" BY <1>2, <1>5 DEF ProcessOnly
  <1>7. Tail(l) = <<>>
    <2>1. Len(l) = 1 BY <1>5, <1>6 DEF Arranged, OfProcess
    <2>2. PICK t : t = Tail(l) OBVIOUS
    <2>3. t \in Seq(CallType) /\ Len(t) = 0 BY <1>5, <2>1, <2>2, TailIs
    <2>4. t = <<>> BY <2>3
    <2> QED BY <2>2, <2>4
  <1>8. Recorded(m.snapshot, src, clock) /\ m.snapshot.level = m.level BY <1>5, <1>6 DEF Informed
  <1>9. PICK n, x : n = m.snapshot /\ x = n.source OBVIOUS
  <1>10. /\ x \in Sources /\ n \in SchemaSnapshot /\ n.id \in Nat /\ n.level = m.level /\ n.level \in Nat
         /\ src[n.id] = x
    BY <1>8, <1>9, RecordedIs DEF Recorded
  <1>11. Resyncing(l) /\ Subject(l, m) = x BY <1>5, <1>6, <1>9 DEF Resyncing, Subject
  <1>12. /\ Grounded(file, src, clock) /\ Due(file, l, m) /\ clock \in Nat
    BY <1>2, <1>4, <1>6 DEF Calm, Expected
  <1>13. /\ \A s \in Sources : s # x => Strict(file, s)
         /\ Strict(file, x) \/ \E o \in Of(file, x) : o.id = n.id
         /\ Within(file, m, x)
    <2>1. \A s \in Sources : Owed(file, l, m, s) => s = x BY <1>11 DEF Owed, Owing
    <2>2. Owed(file, l, m, x) => \E o \in Of(file, x) : o.id = n.id BY <1>6, <1>9 DEF Owed
    <2>3. Owing(l, m, x) BY <1>11 DEF Owing
    <2> QED BY <1>10, <1>12, <2>1, <2>2, <2>3 DEF Due
  <1>14. PICK r : r = <<>> OBVIOUS
  <1>15. CASE \E o \in DependentSnapshots(x) : o.id > n.id
    <2>1. mishaps' = mishaps \cup {"crossed"} BY <1>4, <1>9, <1>15 DEF UpdateSnapshotSchema
    <2> QED BY <2>1 DEF Overlapped
  <1>16. CASE ~ \E o \in DependentSnapshots(x) : o.id > n.id
    <2>1. PICK old : old = {o \in file.snapshots : o.id = n.id} OBVIOUS
    <2>2. PICK new : new = {[o EXCEPT !.level = n.level, !.accepted = n.accepted] : o \in old} OBVIOUS
    <2>3. PICK c : c = [file EXCEPT !.snapshots = (@ \ old) \cup new] OBVIOUS
    <2>4. IF old = {} THEN Raise(a) /\ NoSave ELSE Save(a, c)
      BY <1>4, <1>9, <2>1, <2>2, <2>3 DEF UpdateSnapshotSchema
    <2>5. CASE old = {}
      <3>1. \A s \in Sources : Strict(file, s) BY <1>10, <1>13, <2>1, <2>5 DEF Of
      <3>2. PICK k \in Rescues : Then(a, k) BY <1>2, <2>4, <2>5, Ways
      <3>3. Arranged(a, k) /\ Informed(a, k, m, src, clock) /\ ~Resyncing(k) BY <1>4, <1>6, RescueCalm
      <3>4. todo' = [todo EXCEPT ![a] = k] /\ mem' = [mem EXCEPT ![a] = m]
        BY <1>1, <1>4, <3>2, SameLevel DEF Then
      <3>5. Due(file, k, m) BY <3>1, <3>3, NothingOwed
      <3> QED BY <1>1, <1>2, <1>3, <2>4, <2>5, <3>3, <3>4, <3>5, CalmNoSave
    <2>6. CASE old # {}
      <3>1. c.sources = file.sources /\ c.snapshots = (file.snapshots \ old) \cup new
        BY <1>2, <2>3 DEF Sound, CatalogFields
      <3>2. ASSUME NEW o \in old PROVE o \in file.snapshots /\ o.source = x /\ file.sources[x] # Absent
        BY <1>10, <1>12, <2>1 DEF Grounded, Recorded
      <3>3. ASSUME NEW o \in new
            PROVE  /\ Recorded(o, src, clock) /\ o.source = x /\ o.id = n.id /\ o.level = n.level
                   /\ file.sources[o.source] # Absent
        <4>1. PICK u \in old : o = [u EXCEPT !.level = n.level, !.accepted = n.accepted] BY <2>2
        <4>2. Recorded(u, src, clock) /\ u.id = n.id /\ u.source = x /\ file.sources[x] # Absent
          BY <1>12, <2>1, <3>2 DEF Grounded
        <4>3. o \in SchemaSnapshot /\ o.id = n.id /\ o.level = n.level /\ o.source = x
          BY <1>10, <4>1, <4>2 DEF Recorded, SchemaSnapshot
        <4> QED BY <4>2, <4>3 DEF Recorded
      <3>4. Grounded(c, src, clock) BY <1>12, <3>1, <3>3 DEF Grounded
      <3>5. ASSUME NEW s \in Sources, s # x PROVE Strict(c, s)
        <4>1. Of(c, s) = Of(file, s) BY <3>1, <3>2, <3>3, <3>5 DEF Of
        <4> QED BY <1>13, <3>1, <3>5, <4>1 DEF Strict, Newest
      <3>6. Strict(c, x)
        <4> SUFFICES ASSUME c.sources[x] # Absent, NEW o \in Newest(c, x)
                     PROVE  c.sources[x].level <= o.level
          BY DEF Strict
        <4>1. PICK u \in new : TRUE BY <2>2, <2>6
        <4>2. u \in Of(c, x) /\ u.id = n.id BY <3>1, <3>3 DEF Of
        <4>3. o \in Of(c, x) /\ n.id <= o.id BY <4>2 DEF Newest
        <4>4. o \in new
          <5>1. SUFFICES ASSUME o \in file.snapshots, o \notin old PROVE FALSE BY <3>1, <4>3 DEF Of
          <5>2. o \in DependentSnapshots(x) /\ o.id # n.id
            BY <2>1, <4>3, <5>1 DEF Of, DependentSnapshots
          <5>3. o.id \in Nat BY <1>12, <5>1, RecordedIs DEF Grounded
          <5> QED BY <1>10, <1>16, <4>3, <5>2, <5>3
        <4>5. o.level = m.level BY <1>10, <3>3, <4>4
        <4> QED BY <1>13, <3>1, <4>5 DEF Within
      <3>7. r \in Rescues BY <1>14 DEF Rescues
      <3>8. Arranged(a, r) /\ Informed(a, r, m, src, clock) /\ ~Resyncing(r) BY <1>4, <1>6, <3>7, RescueCalm
      <3>9. Due(c, r, m) BY <3>5, <3>6, <3>8, NothingOwed
      <3>10. /\ copy' = [copy EXCEPT ![a] = c] /\ base' = [base EXCEPT ![a] = file]
             /\ saving' = [saving EXCEPT ![a] = "truncate"] /\ todo' = [todo EXCEPT ![a] = r]
        BY <1>4, <1>7, <1>14, <2>4, <2>6 DEF Save, Return, Then
      <3>11. mem' = [mem EXCEPT ![a] = m] BY <1>1, <1>4, SameLevel
      <3>12. clock' \in Nat /\ clock <= clock' /\ Grounded(c, src, clock') /\ Informed(a, r, m, src, clock')
        BY <1>1, <1>12, <3>4, <3>8
      <3>13. PICK f : f = file OBVIOUS
      <3> QED BY <1>1, <1>2, <1>6, <3>8, <3>9, <3>10, <3>11, <3>12, <3>13, CalmSave
    <2> QED BY <2>5, <2>6
  <1> QED BY <1>15, <1>16

LEMMA CreateProjectCalm ==
  ASSUME HomesInv, NEW src, Calm(src), NEW a \in Actors, CreateProject(a)
  PROVE  Calm(src)'
  <1>1. Reads(a, "create_project") /\ file' = file /\ clock' = clock /\ mem' = mem
    BY DEF CreateProject, Kept
  <1>2. /\ Calls(a, "create_project") /\ todo[a] # <<>> /\ saving[a] = "no" /\ Readable(file)
        /\ Call(a).op = "create_project" /\ Sound(file)
    BY <1>1, FileSound DEF Reads
  <1>3. Ordinary(Call(a)) BY <1>2 DEF Ordinary, SetsLevel
  <1>4. PICK m, t, k : m = mem[a] /\ t = Tail(todo[a]) /\ k = clock OBVIOUS
  <1>5. mem' = [mem EXCEPT ![a] = m] /\ m.level = mem[a].level BY <1>1, <1>4, SameLevel
  <1>6. /\ Arranged(a, t) /\ Informed(a, t, m, src, k)
        /\ a = Process => ~Resyncing(todo[a]) /\ ~Resyncing(t)
    BY <1>2, <1>3, <1>4, OrdinaryTail
  <1>7. CASE base[a] = Absent /\ Raise(a) /\ NoSave
    <2>1. \E r \in Rescues : Then(a, r) BY <1>2, <1>7, Ways
    <2> QED BY <1>1, <1>2, <1>3, <1>5, <1>7, <2>1, EndCalm
  <1>8. CASE /\ base[a] = Absent /\ base' = [base EXCEPT ![a] = file]
             /\ UNCHANGED <<todo, rescue, copy, saving>>
    <2>1. base'[a] = file /\ \A b \in Actors : b # a => base'[b] = base[b]
      BY <1>8 DEF HomesInv, Places
    <2>2. a = Process => \A s \in Sources : Strict(file, s)
      <3> SUFFICES ASSUME a = Process PROVE \A s \in Sources : Strict(file, s) OBVIOUS
      <3>1. Expected(file) BY <1>2 DEF Calm
      <3> QED BY <1>6, <3>1, NothingOwed DEF Expected
    <2>3. Grounded(file, src, clock) BY <1>2 DEF Calm
    <2>4. ASSUME NEW b \in Actors PROVE Pending(b, src)'
      <3>1. Pending(b, src) BY DEF Calm
      <3>2. CASE b = a BY <1>1, <1>2, <1>8, <2>1, <2>2, <2>3, <3>1, <3>2 DEF Pending
      <3>3. CASE b # a BY <1>1, <1>8, <2>1, <3>1, <3>3 DEF Pending, Expected
      <3> QED BY <3>2, <3>3
    <2>5. clock' \in Nat /\ clock' # 0 BY <1>1 DEF Calm
    <2>6. Readable(file') => Grounded(file', src, clock')
                               /\ (saving'[Process] = "truncate" \/ Expected(file)')
      BY <1>1, <1>8 DEF Calm, Expected
    <2> QED BY <2>4, <2>5, <2>6 DEF Calm
  <1>9. CASE base[a] # Absent
    <2>1. PICK f, p, c : f = base[a] /\ c = [f EXCEPT !.projects[Call(a).name] = p]
                         /\ copy' = [copy EXCEPT ![a] = c]
      BY <1>9 DEF CreateProject
    <2>2. /\ saving' = [saving EXCEPT ![a] = "truncate"] /\ todo' = [todo EXCEPT ![a] = t]
          /\ base' = base
      BY <1>4, <1>9 DEF CreateProject, Return, Then
    <2>3. base' = [base EXCEPT ![a] = f] BY <2>1, <2>2 DEF HomesInv, Places
    <2>4. /\ Readable(f) /\ Grounded(f, src, clock)
          /\ a = Process => \A s \in Sources : Strict(f, s)
      BY <1>2, <1>9, <2>1 DEF Calm, Pending
    <2>5. Sound(f) BY <1>2, <1>9, <2>1 DEF HomesInv, Mine, Founding
    <2>6. c.sources = f.sources /\ c.snapshots = f.snapshots BY <2>1, <2>5 DEF Sound, CatalogFields
    <2>7. Grounded(c, src, k) /\ \A s : Alike(f, c, s) /\ Lower(f, c, s)
      BY <1>4, <2>4, <2>6, SameSourcesAlike
    <2>8. IF a = Process THEN Due(c, t, m) ELSE Follows(f, c)
      <3>1. ASSUME a = Process, NEW s \in Sources PROVE Strict(c, s)
        BY <2>4, <2>7, <3>1 DEF Alike, Strict, Newest
      <3>2. a = Process => Due(c, t, m) BY <1>6, <3>1, NothingOwed
      <3> QED BY <2>7, <3>2 DEF Follows
    <2>9. clock' \in Nat /\ clock <= clock' /\ clock' = k BY <1>1, <1>4 DEF Calm
    <2>10. Grounded(c, src, clock') /\ Informed(a, t, m, src, clock') BY <1>6, <2>7, <2>9
    <2> QED BY <1>1, <1>2, <1>5, <1>6, <2>1, <2>2, <2>3, <2>4, <2>8, <2>9, <2>10, CalmSave
  <1> QED BY <1>7, <1>8, <1>9 DEF CreateProject

LEMMA MethodCalm ==
  ASSUME HomesInv, NEW src, StrictInv(src), NEW a \in Actors, Method(a)
  PROVE  \E q : StrictInv(q)'
  <1>1. CASE Overlapped
    <2>1. mishaps \subseteq mishaps'
      BY DEF Method, GetSource, AddSource, UpdateSource, RemoveSource, GetLatestSnapshot, CreateSnapshot,
             UpdateSnapshotSchema, GetProject, CreateProject, UpdateProject, TouchProject, DeleteProject,
             StartLoad, CompleteLoad, SetLoadedMapping, GetEntry, AddEntry, RemoveEntry, Truncate, Write,
             ReadTorn, Same, Kept
    <2> QED BY <1>1, <2>1 DEF Overlapped, StrictInv
  <1>2. CASE ~Overlapped
    <2>0. Calm(src) BY <1>2 DEF StrictInv
    <2>1. CASE GetSource(a) BY <2>0, <2>1, GetSourceCalm DEF StrictInv
    <2>2. CASE AddSource(a) BY <2>0, <2>2, AddSourceCalm DEF StrictInv
    <2>3. CASE UpdateSource(a) BY <2>0, <2>3, UpdateSourceCalm DEF StrictInv
    <2>4. CASE RemoveSource(a) BY <2>0, <2>4, RemoveSourceCalm DEF StrictInv
    <2>5. CASE GetLatestSnapshot(a) BY <2>0, <2>5, LatestCalm DEF StrictInv
    <2>6. CASE CreateSnapshot(a) BY <2>0, <2>6, CreateSnapshotCalm DEF StrictInv
    <2>7. CASE UpdateSnapshotSchema(a) BY <2>0, <2>7, UpdateSnapshotSchemaCalm DEF StrictInv
    <2>8. CASE GetProject(a) \/ UpdateProject(a) \/ TouchProject(a) \/ DeleteProject(a)
      BY <2>0, <2>8, ProjectsSparing, SparingCalm DEF StrictInv
    <2>9. CASE StartLoad(a) \/ CompleteLoad(a) \/ SetLoadedMapping(a)
      BY <2>0, <2>9, LoadsSparing, SparingCalm DEF StrictInv
    <2>10. CASE GetEntry(a) \/ AddEntry(a) \/ RemoveEntry(a)
      BY <2>0, <2>10, EntriesSparing, SparingCalm DEF StrictInv
    <2>11. CASE CreateProject(a) BY <2>0, <2>11, CreateProjectCalm DEF StrictInv
    <2>12. CASE Truncate(a)
      <3>1. CASE file = base[a] BY <2>0, <2>12, <3>1, TruncateCalm DEF StrictInv
      <3>2. CASE file # base[a]
        <4>1. mishaps' = mishaps \cup {"stale"} BY <2>12, <3>2 DEF Truncate
        <4> QED BY <4>1 DEF Overlapped, StrictInv
      <3> QED BY <3>1, <3>2
    <2>13. CASE Write(a) BY <2>0, <2>13, WriteCalm DEF StrictInv
    <2>14. CASE ReadTorn(a)
      <3>1. mishaps' = mishaps \cup {"torn"} BY <2>14 DEF ReadTorn
      <3> QED BY <3>1 DEF Overlapped, StrictInv
    <2> QED BY <2>1, <2>2, <2>3, <2>4, <2>5, <2>6, <2>7, <2>8, <2>9, <2>10, <2>11, <2>12, <2>13, <2>14
            DEF Method
  <1> QED BY <1>1, <1>2

-------------------------------------------------------------------------------

(* What handlers do between their calls, and no list depends on.           *)
LEMMA GoOnCalm ==
  ASSUME HomesInv, NEW src, Calm(src), NEW a \in Actors,
         \/ Resolve(a) \/ LoadConfig(a) \/ ResolveTarget(a) \/ Connect(a) \/ Try(a)
         \/ TellError(a) \/ Migrate(a)
  PROVE  Calm(src)'
  <1>1. PICK op \in {"bound", "resolve", "load_config", "resolve_target", "connect", "try", "error",
                     "migrate"} : Calls(a, op)
    BY DEF Resolve, LoadConfig, ResolveTarget, Reads, Connect, Try, TellError, Migrate
  <1>2. /\ todo[a] # <<>> /\ base[a] = Absent /\ Call(a).op = op /\ saving[a] = "no"
        /\ Ordinary(Call(a))
    BY <1>1, NotFounding DEF Calls, Call, Ordinary, SetsLevel
  <1>3. file' = file /\ clock' = clock /\ NoSave
    BY DEF Resolve, LoadConfig, ResolveTarget, Connect, Try, TellError, Migrate, Quiet, Still, NoSave
  <1>4. a # Process => op # "resolve" BY <1>2, FirstOf DEF ProcessOnly
  <1>5. mem = [mem EXCEPT ![a] = mem[a]] /\ Memory(mem[a]) BY SameMemory
  <1>6. \E m : mem' = [mem EXCEPT ![a] = m] /\ (a # Process => m.level = mem[a].level)
    <2>1. CASE Resolve(a)
      <3>1. CASE Calls(a, "resolve")
        <4>1. a = Process BY <1>2, <1>4, <3>1 DEF Calls, Call
        <4> QED BY <1>5, <2>1, <4>1 DEF Resolve, Learn
      <3>2. CASE ~Calls(a, "resolve") BY <1>5, <2>1, <3>2 DEF Resolve
      <3> QED BY <3>1, <3>2
    <2>2. CASE LoadConfig(a)
      <3>1. \A x, d : [mem[a] EXCEPT !.mapping = x, !.dry = d].level = mem[a].level
        BY <1>5 DEF Memory, MemFields
      <3>2. ASSUME NEW x, NEW d, Learn(a, [mem[a] EXCEPT !.mapping = x, !.dry = d])
            PROVE  \E m : mem' = [mem EXCEPT ![a] = m] /\ m.level = mem[a].level
        <4>1. PICK m : m = [mem[a] EXCEPT !.mapping = x, !.dry = d] OBVIOUS
        <4> QED BY <3>1, <3>2, <4>1 DEF Learn
      <3> QED BY <1>5, <2>2, <3>2 DEF LoadConfig
    <2>3. CASE ~Resolve(a) /\ ~LoadConfig(a)
      BY <1>5, <2>3 DEF ResolveTarget, Connect, Try, TellError, Migrate
    <2> QED BY <2>1, <2>2, <2>3
  <1>7. Return(a) \/ \E r \in Rescues : Then(a, r)
    <2>1. <<>> \in Rescues BY DEF Rescues
    <2>2. CASE ResolveTarget(a)
      <3>1. op = "resolve_target" BY <1>2, <2>2 DEF ResolveTarget, Reads, Calls, Call
      <3>2. Call(a) \in CallType BY <1>2, Popped DEF HomesInv
      <3>3. Call(a).otherwise \in Rescues BY <1>2, <3>1, <3>2, CallSays
      <3> QED BY <2>2, <3>3 DEF ResolveTarget
    <2>3. CASE ~ResolveTarget(a)
      BY <2>1, <2>3 DEF Resolve, LoadConfig, Connect, Try, TellError, Migrate, Stop
    <2> QED BY <2>2, <2>3
  <1> QED BY <1>1, <1>2, <1>3, <1>6, <1>7, EndCalm

(* What follows the call that needs what has just been learned.            *)
LEMMA NextOf ==
  ASSUME HomesInv, NEW src, Calm(src), NEW a \in Actors, todo[a] # <<>>,
         NEW op \in {"introspect", "accept"}, Call(a).op = op, NEW t, t = Tail(todo[a])
  PROVE  /\ Arranged(a, t) /\ t \in Seq(CallType) /\ (op = "accept" => a = Process)
         /\ a = Process => ~Resyncing(todo[a]) /\ ~Resyncing(t)
         /\ t # <<>> => t[1].op \notin {"introspect", "accept", "annotate", "update_snapshot_schema"}
         /\ a # Process => mem[a].level = 0
  <1>1. PICK l : l = todo[a] OBVIOUS
  <1>2. /\ l \in Seq(CallType) /\ l # <<>> /\ l[1].op = op /\ Arranged(a, l) /\ t = Tail(l)
        /\ a # Process => mem[a].level = 0 /\ l[1].op \notin ProcessOnly
        /\ a = Process => ~Resyncing(l)
        /\ t \in Seq(CallType)
    BY <1>1, FirstOf
  <1>3. ~SetsLevel(l[1]) BY <1>2 DEF SetsLevel
  <1>4. Arranged(a, t) /\ (a = Process => ~Resyncing(t)) BY <1>2, <1>3, ArrangedTail
  <1>5. t # <<>> => /\ t[1].op = "introspect" => Names(l[1], "get_source")
                    /\ t[1].op = "accept" => l[1].op = "get_latest_snapshot"
                    /\ t[1].op = "annotate" => Names(l[1], "get_latest_snapshot")
                    /\ t[1].op = "update_snapshot_schema" => l[1].op = "annotate"
    BY <1>2, ArrangedTail
  <1>6. ~Names(l[1], "get_source") /\ ~Names(l[1], "get_latest_snapshot") BY <1>2, NamesOp
  <1> QED BY <1>1, <1>2, <1>4, <1>5, <1>6 DEF ProcessOnly

LEMMA IntrospectCalm ==
  ASSUME HomesInv, NEW src, Calm(src), NEW a \in Actors, Introspect(a)
  PROVE  Calm(src)'
  <1>1. /\ Calls(a, "introspect") /\ file' = file /\ clock' = clock /\ NoSave
    BY DEF Introspect, Quiet, Still, NoSave
  <1>2. todo[a] # <<>> /\ base[a] = Absent /\ Call(a).op = "introspect" /\ saving[a] = "no"
    BY <1>1, NotFounding DEF Calls, Call
  <1>3. PICK t, m : t = Tail(todo[a]) /\ m = mem[a] OBVIOUS
  <1>4. /\ Arranged(a, t) /\ t \in Seq(CallType)
        /\ a = Process => ~Resyncing(todo[a]) /\ ~Resyncing(t)
        /\ t # <<>> => t[1].op \notin {"introspect", "accept", "annotate", "update_snapshot_schema"}
        /\ a # Process => m.level = 0
    BY <1>2, <1>3, NextOf
  <1>5. Memory(m) /\ mem = [mem EXCEPT ![a] = m] BY <1>3, SameMemory
  <1>6. CASE Stop(a) /\ UNCHANGED mem
    <2>1. PICK r : r = <<>> OBVIOUS
    <2>2. r \in Rescues BY <2>1 DEF Rescues
    <2>3. Arranged(a, r) /\ Informed(a, r, m, src, clock) /\ ~Resyncing(r) BY <1>3, <2>2, RescueCalm
    <2>4. a = Process => \A f : Due(f, todo[a], mem[a]) => Due(f, r, m) BY <1>4, <2>3, NothingOwed
    <2>5. todo' = [todo EXCEPT ![a] = r] /\ mem' = [mem EXCEPT ![a] = m]
      BY <1>5, <1>6, <2>1 DEF Stop, Then
    <2> QED BY <1>1, <1>2, <2>3, <2>4, <2>5, CalmNoSave
  <1>7. CASE ~ (Stop(a) /\ UNCHANGED mem)
    <2>1. PICK n : n = Annotated([id |-> 0, source |-> Call(a).name, level |-> 0,
                                  overlay |-> m.source.overlay, accepted |-> FALSE], m.source.level)
      OBVIOUS
    <2>2. PICK k : k = [m EXCEPT !.snapshot = n] OBVIOUS
    <2>3. mem' = [mem EXCEPT ![a] = k] /\ todo' = [todo EXCEPT ![a] = t]
      BY <1>3, <1>7, <2>1, <2>2 DEF Introspect, Learn, Return, Then
    <2>4. k.snapshot = n /\ k.source = m.source /\ k.level = m.level
      BY <1>5, <2>2 DEF Memory, MemFields
    <2>5. m.source \in SourceConfig
      <3>1. PICK l : l = todo[a] OBVIOUS
      <3>2. l # <<>> /\ l[1].op = "introspect" /\ Informed(a, l, m, src, clock)
        BY <1>2, <1>3, <3>1, FirstOf
      <3> QED BY <3>2 DEF Informed
    <2>6. Call(a).name \in Sources
      <3>1. Call(a) \in CallType BY <1>2, Popped DEF HomesInv
      <3> QED BY <1>2, <3>1, CallSays
    <2>7. m.source.level \in Levels /\ m.source.overlay \in Overlays \cup {Absent}
      BY <2>5 DEF SourceConfig
    <2>8. n \in SchemaSnapshot /\ n.id = 0 /\ n.level = m.source.level
      BY <2>1, <2>6, <2>7, CatalogAssumption DEF Annotated, SchemaSnapshot
    <2>9. Informed(a, t, k, src, clock)
      BY <1>4, <2>4, <2>8 DEF Informed
    <2>10. a = Process => \A f : Due(f, todo[a], mem[a]) => Due(f, t, k) BY <1>4, NothingOwed
    <2> QED BY <1>1, <1>2, <1>4, <2>3, <2>9, <2>10, CalmNoSave
  <1> QED BY <1>6, <1>7

LEMMA AcceptCalm ==
  ASSUME HomesInv, NEW src, Calm(src), NEW a \in Actors, Accept(a)
  PROVE  Calm(src)'
  <1>1. /\ Calls(a, "accept") /\ file' = file /\ clock' = clock /\ NoSave
    BY DEF Accept, Quiet, Still, NoSave
  <1>2. todo[a] # <<>> /\ base[a] = Absent /\ Call(a).op = "accept" /\ saving[a] = "no"
    BY <1>1, NotFounding DEF Calls, Call
  <1>3. PICK t, m : t = Tail(todo[a]) /\ m = mem[a] OBVIOUS
  <1>4. /\ Arranged(a, t) /\ a = Process /\ ~Resyncing(todo[a]) /\ ~Resyncing(t)
        /\ t # <<>> => t[1].op \notin {"introspect", "accept", "annotate", "update_snapshot_schema"}
    BY <1>2, <1>3, NextOf
  <1>5. Memory(m) BY <1>3, SameMemory
  <1>6. PICK k : k = [m EXCEPT !.accept = TRUE] OBVIOUS
  <1>7. mem' = [mem EXCEPT ![a] = k] BY <1>3, <1>6 DEF Accept, Learn
  <1>8. k.snapshot = m.snapshot BY <1>5, <1>6 DEF Memory, MemFields
  <1>9. m.snapshot.id # 0 /\ m.snapshot # Absent
    <2>1. PICK l : l = todo[a] OBVIOUS
    <2>2. l # <<>> /\ l[1].op = "accept" /\ Informed(a, l, m, src, clock)
      BY <1>2, <1>3, <2>1, FirstOf
    <2> QED BY <2>2 DEF Informed
  <1>10. Informed(a, t, k, src, clock) BY <1>4, <1>8, <1>9 DEF Informed
  <1>11. PICK r : r = <<>> OBVIOUS
  <1>12. Arranged(a, r) /\ Informed(a, r, k, src, clock) /\ ~Resyncing(r)
    BY <1>4, <1>11, RescueCalm DEF Rescues
  <1>13. todo' = [todo EXCEPT ![a] = t] \/ todo' = [todo EXCEPT ![a] = r]
    BY <1>3, <1>11 DEF Accept, Stop, Return, Then
  <1>14. \A f : Due(f, todo[a], mem[a]) => Due(f, t, k) /\ Due(f, r, k) BY <1>4, <1>12, NothingOwed
  <1> QED BY <1>1, <1>2, <1>4, <1>7, <1>10, <1>12, <1>13, <1>14, CalmNoSave

(* With no classification to write nothing is stricter than a snapshot.    *)
LEMMA AnnotateCalm ==
  ASSUME HomesInv, NEW src, Calm(src), NEW a \in Actors, Annotate(a)
  PROVE  Calm(src)'
  <1>1. /\ Calls(a, "annotate") /\ file' = file /\ clock' = clock /\ NoSave
    BY DEF Annotate, Quiet, Still, NoSave
  <1>2. todo[a] # <<>> /\ base[a] = Absent /\ Call(a).op = "annotate" /\ saving[a] = "no"
    BY <1>1, NotFounding DEF Calls, Call
  <1>3. PICK l, m : l = todo[a] /\ m = mem[a] OBVIOUS
  <1>4. PICK t : t = Tail(l) OBVIOUS
  <1>5. /\ l \in Seq(CallType) /\ l # <<>> /\ l[1].op = "annotate" /\ 1 \in DOMAIN l
        /\ Arranged(a, l) /\ Informed(a, l, m, src, clock)
        /\ l[1].op \in ProcessOnly => a = Process
    BY <1>2, <1>3, FirstOf
  <1>6. a = Process BY <1>5 DEF ProcessOnly
  <1>7. Recorded(m.snapshot, src, clock) BY <1>5 DEF Informed
  <1>8. Memory(m) /\ m.level \in Levels /\ m.level \in Nat BY <1>3, SameMemory, LevelIs
  <1>9. Resyncing(l) /\ \A s : Owing(l, m, s) <=> m.snapshot.source = s
    BY <1>5 DEF Resyncing, Owing, Subject
  <1>10. PICK n : n = Annotated(m.snapshot, m.level) OBVIOUS
  <1>11. PICK k : k = [m EXCEPT !.snapshot = n] OBVIOUS
  <1>12. mem' = [mem EXCEPT ![a] = k] /\ k.snapshot = n /\ k.level = m.level
    BY <1>3, <1>8, <1>10, <1>11 DEF Annotate, Learn, Memory, MemFields
  <1>13. CASE m.level = 0
    <2>1. PICK r : r = <<>> OBVIOUS
    <2>2. todo' = [todo EXCEPT ![a] = r] BY <1>3, <1>13, <2>1 DEF Annotate, Stop, Then
    <2>3. Arranged(a, r) /\ Informed(a, r, k, src, clock) /\ ~Resyncing(r)
      BY <1>6, <2>1, RescueCalm DEF Rescues
    <2>4. ASSUME NEW f, Sound(f), Grounded(f, src, clock), Due(f, l, m), NEW s \in Sources
          PROVE  Strict(f, s)
      <3>1. ASSUME Owed(f, l, m, s), f.sources[s] # Absent, NEW o \in Newest(f, s)
            PROVE  f.sources[s].level <= o.level
        <4>1. Within(f, m, s) BY <2>4, <3>1 DEF Due, Owed
        <4>2. f.sources[s].level \in Nat BY <2>4, <3>1, CatalogAssumption DEF Sound, SourceConfig
        <4>3. o.level \in Nat BY <2>4, RecordedIs DEF Grounded, Newest, Of
        <4> QED BY <1>13, <3>1, <4>1, <4>2, <4>3 DEF Within
      <3> QED BY <2>4, <3>1 DEF Due, Strict
    <2>5. \A f : Sound(f) /\ Grounded(f, src, clock) /\ Due(f, todo[a], mem[a]) => Due(f, r, k)
      BY <1>3, <2>3, <2>4, NothingOwed
    <2> QED BY <1>1, <1>2, <1>12, <2>2, <2>3, <2>5, CalmNoSave
  <1>14. CASE m.level # 0
    <2>1. todo' = [todo EXCEPT ![a] = t] BY <1>3, <1>4, <1>14 DEF Annotate, Return, Then
    <2>2. n = [m.snapshot EXCEPT !.level = m.level] BY <1>10, <1>14 DEF Annotated
    <2>3. Recorded(n, src, clock) /\ n.level = m.level /\ n.source = m.snapshot.source /\ n.id = m.snapshot.id
      <3>1. m.snapshot \in SchemaSnapshot BY <1>7 DEF Recorded
      <3>2. n \in SchemaSnapshot BY <1>8, <2>2, <3>1 DEF SchemaSnapshot
      <3>3. n.level = m.level /\ n.source = m.snapshot.source /\ n.id = m.snapshot.id
        BY <2>2, <3>1 DEF SchemaSnapshot
      <3> QED BY <1>7, <3>2, <3>3 DEF Recorded
    <2>4. Len(l) = 2 /\ l[2].op = "update_snapshot_schema"
      <3>1. Len(l) = 1 + 1 /\ l[1 + 1].op = "update_snapshot_schema"
        BY <1>5, <1>6 DEF Arranged, OfProcess
      <3> QED BY <3>1
    <2>5. /\ t \in Seq(CallType) /\ t # <<>> /\ t[1].op = "update_snapshot_schema" /\ Arranged(a, t)
      <3>1. t \in Seq(CallType) /\ Len(t) = 1 /\ \A i \in DOMAIN t : t[i] = l[i + 1]
        BY <1>4, <1>5, <2>4, TailIs
      <3>2. t # <<>> /\ 1 \in DOMAIN t BY <3>1
      <3>3. t[1] = l[2] BY <3>1, <3>2
      <3> QED BY <1>4, <1>5, <2>4, <3>1, <3>2, <3>3, ArrangedTail
    <2>6. Informed(a, t, k, src, clock) BY <1>6, <1>12, <2>3, <2>5 DEF Informed
    <2>7. Resyncing(t) /\ \A s : Owing(t, k, s) <=> m.snapshot.source = s
      BY <1>12, <2>3, <2>5 DEF Resyncing, Owing, Subject
    <2>8. ASSUME NEW f, Due(f, l, m) PROVE Due(f, t, k)
      <3>1. ASSUME NEW s, Owed(f, l, m, s) PROVE Owed(f, t, k, s)
        BY <1>5, <1>9, <1>12, <2>3, <2>7, <3>1 DEF Owed
      <3>2. ASSUME NEW s, Within(f, m, s) PROVE Within(f, k, s) BY <1>12, <3>2 DEF Within
      <3> QED BY <1>9, <2>7, <2>8, <3>1, <3>2 DEF Due
    <2>9. \A f : Due(f, todo[a], mem[a]) => Due(f, t, k) BY <1>3, <2>8
    <2> QED BY <1>1, <1>2, <1>12, <2>1, <2>5, <2>6, <2>9, CalmNoSave
  <1> QED BY <1>13, <1>14

(* A list with calls put in front of it.                                   *)
LEMMA RestOf ==
  ASSUME NEW a, a # Process, NEW k \in Seq(CallType), k # <<>>, Arranged(a, k),
         k[1].op \notin {"get_source", "introspect"}, NEW t, t = Tail(k)
  PROVE  OfStudio(t) /\ (t # <<>> => t[1].op \notin {"introspect", "create_snapshot"})
  <1>1. Arranged(a, t) BY ArrangedTail
  <1>2. t # <<>> /\ t[1].op = "introspect" => Names(k[1], "get_source") BY ArrangedTail
  <1>3. t # <<>> /\ t[1].op = "create_snapshot" => k[1].op = "introspect" BY ArrangedTail
  <1>4. ~Names(k[1], "get_source") BY NamesOp
  <1> QED BY <1>1, <1>2, <1>3, <1>4 DEF Arranged

LEMMA JoinedStudio ==
  ASSUME NEW x \in Seq(CallType), OfStudio(x), x # <<>>, NEW t \in Seq(CallType), OfStudio(t),
         t # <<>> => t[1].op \notin {"introspect", "create_snapshot"}, NEW l, l = x \o t
  PROVE  OfStudio(l) /\ l \in Seq(CallType) /\ l # <<>> /\ l[1] = x[1] /\ 1 \in DOMAIN x
  <1>1. PICK p, q : p = Len(x) /\ q = Len(t) OBVIOUS
  <1>2. /\ p \in Nat /\ q \in Nat /\ p > 0 /\ DOMAIN x = 1 .. p /\ DOMAIN t = 1 .. q
        /\ q > 0 => t # <<>>
    BY <1>1
  <1>3. /\ l \in Seq(CallType) /\ Len(l) = Len(x) + Len(t)
        /\ \A i \in 1 .. Len(x) + Len(t) : l[i] = IF i <= Len(x) THEN x[i] ELSE t[i - Len(x)]
    BY JoinedIs
  <1>4. /\ Len(l) = p + q /\ \A i \in 1 .. p + q : l[i] = IF i <= p THEN x[i] ELSE t[i - p]
    BY <1>1, <1>3
  <1>5. DOMAIN l = 1 .. p + q BY <1>3, <1>4
  <1>6. ASSUME NEW i \in 1 .. p + q
        PROVE  /\ l[i].op \notin ProcessOnly /\ ~SetsLevel(l[i])
               /\ l[i].op = "create_snapshot" /\ i > 1 => l[i - 1].op = "introspect"
               /\ l[i].op = "introspect" /\ i > 1 => Names(l[i - 1], "get_source")
    <2>1. CASE i <= p
      <3>1. i \in 1 .. p /\ l[i] = x[i] BY <1>2, <1>4, <2>1
      <3>2. i > 1 => i - 1 \in 1 .. p + q /\ i - 1 <= p BY <1>2, <2>1
      <3>3. i > 1 => l[i - 1] = x[i - 1] BY <1>4, <3>2
      <3> QED BY <1>2, <3>1, <3>3 DEF OfStudio
    <2>2. CASE ~ (i <= p)
      <3>1. PICK j : j = i - p OBVIOUS
      <3>2. j \in 1 .. q /\ (j = 1 \/ j > 1) BY <1>2, <2>2, <3>1
      <3>3. l[i] = t[j] BY <1>4, <2>2, <3>1
      <3>4. j > 1 => i - 1 \in 1 .. p + q /\ ~ (i - 1 <= p) /\ (i - 1) - p = j - 1
        BY <1>2, <2>2, <3>1
      <3>5. j > 1 => l[i - 1] = t[j - 1] BY <1>4, <3>4
      <3>6. q > 0 BY <1>2, <3>2
      <3>7. j = 1 => l[i].op \notin {"introspect", "create_snapshot"} BY <1>2, <3>3, <3>6
      <3> QED BY <1>2, <3>2, <3>3, <3>5, <3>7 DEF OfStudio
    <2> QED BY <2>1, <2>2
  <1>7. OfStudio(l) BY <1>5, <1>6 DEF OfStudio
  <1>8. 1 \in 1 .. p + q /\ 1 <= p /\ 1 \in DOMAIN x BY <1>2
  <1>9. l[1] = x[1] BY <1>4, <1>8
  <1>10. l # <<>> BY <1>2, <1>3, <1>4
  <1> QED BY <1>3, <1>7, <1>8, <1>9, <1>10

LEMMA InsertCalm ==
  ASSUME HomesInv, NEW src, Calm(src), NEW a \in Actors, a # Process, NEW op, Calls(a, op),
         op \notin {"get_source", "introspect", "create_project"},
         file' = file, NoSave, clock' = clock, mem' = mem,
         NEW x \in Seq(CallType), OfStudio(x), x # <<>>,
         x[1].op \notin {"introspect", "create_snapshot"},
         NEW l, l = x \o Tail(todo[a]), todo' = [todo EXCEPT ![a] = l]
  PROVE  Calm(src)'
  <1>1. todo[a] # <<>> /\ base[a] = Absent /\ Call(a).op = op /\ saving[a] = "no"
    BY NotFounding DEF Calls, Call
  <1>2. PICK k, t : k = todo[a] /\ t = Tail(k) OBVIOUS
  <1>3. /\ k \in Seq(CallType) /\ k # <<>> /\ k[1].op = op /\ Arranged(a, k) /\ t \in Seq(CallType)
        /\ mem[a].level = 0
    BY <1>1, <1>2, FirstOf
  <1>4. OfStudio(t) /\ (t # <<>> => t[1].op \notin {"introspect", "create_snapshot"})
    BY <1>2, <1>3, RestOf
  <1>5. OfStudio(l) /\ l # <<>> /\ l[1] = x[1] /\ 1 \in DOMAIN x
    BY <1>2, <1>3, <1>4, JoinedStudio
  <1>6. Arranged(a, l) BY <1>5 DEF Arranged
  <1>7. Informed(a, l, mem[a], src, clock) BY <1>3, <1>5 DEF Informed, OfStudio, ProcessOnly
  <1>8. mem' = [mem EXCEPT ![a] = mem[a]] BY SameMemory
  <1> QED BY <1>1, <1>6, <1>7, <1>8, CalmNoSave

LEMMA RunCalm ==
  ASSUME HomesInv, NEW src, Calm(src), NEW a \in Actors, Run(a)
  PROVE  Calm(src)'
  <1>1. PICK op \in {"run", "running"} : Calls(a, op) BY DEF Run
  <1>2. /\ todo[a] # <<>> /\ base[a] = Absent /\ Call(a).op = op /\ saving[a] = "no"
        /\ Ordinary(Call(a))
    BY <1>1, NotFounding DEF Calls, Call, Ordinary, SetsLevel
  <1>3. file' = file /\ clock' = clock /\ NoSave /\ mem' = mem BY DEF Run, Still, NoSave
  <1>4. mem' = [mem EXCEPT ![a] = mem[a]] BY <1>3, SameMemory
  <1>5. CASE Return(a) \/ Raise(a)
    <2>1. rescue[a] \in Rescues BY DEF HomesInv, Lists
    <2>2. Return(a) \/ \E r \in Rescues : Then(a, r) BY <1>5, <2>1 DEF Raise
    <2> QED BY <1>1, <1>2, <1>3, <1>4, <2>2, EndCalm
  <1>6. CASE ~ (Return(a) \/ Raise(a))
    <2>1. PICK x : x = <<To("running", Call(a).name)>> OBVIOUS
    <2>2. PICK l : l = x \o Tail(todo[a]) OBVIOUS
    <2>3. a = Thread /\ Calls(a, "run") /\ todo' = [todo EXCEPT ![a] = l]
      BY <1>6, <2>1, <2>2 DEF Run, Then
    <2>4. Call(a) \in CallType /\ Call(a).op = "run" BY <1>2, <2>3, Popped DEF HomesInv, Calls, Call
    <2>5. To("running", Call(a).name) \in CallType BY <2>4, CallSays, LoadCallIs DEF CallType
    <2>6. /\ x \in Seq(CallType) /\ x # <<>> /\ OfStudio(x)
          /\ x[1].op \notin {"introspect", "create_snapshot"}
      BY <2>1, <2>5 DEF OfStudio, ProcessOnly, SetsLevel, To
    <2> QED BY <1>3, <2>2, <2>3, <2>6, ProcessIs, InsertCalm
  <1> QED BY <1>5, <1>6

LEMMA DemoCalm ==
  ASSUME HomesInv, NEW src, Calm(src), NEW a \in Actors, DemoSource(a) \/ DemoSnapshot(a) \/ DemoProject(a)
  PROVE  Calm(src)'
  <1>1. PICK op \in {"demo_source", "demo_snapshot", "demo_project"} : Reads(a, op)
    BY DEF DemoSource, DemoSnapshot, DemoProject
  <1>2. /\ saving[a] = "no" /\ todo[a] # <<>> /\ Call(a).op = op /\ Call(a) \in CallType
        /\ base[a] = Absent /\ Calls(a, op) /\ Ordinary(Call(a))
    BY <1>1, FileSound, NotFounding DEF Ordinary, SetsLevel
  <1>3. a # Process BY <1>2, FirstOf DEF StudioOnly
  <1>4. file' = file /\ clock' = clock /\ NoSave
    BY DEF DemoSource, DemoSnapshot, DemoProject, Quiet, Still, NoSave
  <1>5. Memory(mem[a]) /\ mem = [mem EXCEPT ![a] = mem[a]] BY SameMemory
  <1>6. <<>> \in Rescues BY DEF Rescues
  <1>7. CASE DemoSource(a)
    <2>1. Call(a).op = "demo_source" /\ mem' = mem BY <1>7, FileSound DEF DemoSource
    <2>2. Call(a).name \in Sources BY <1>2, <2>1, CallSays
    <2>3. DemoOverlay \in Overlays BY CatalogAssumption DEF DemoOverlay
    <2>4. PICK c, d : /\ c = Add(Call(a).name, DemoOverlay, FALSE)
                      /\ d = [op |-> "update_source", name |-> Call(a).name, field |-> "overlay",
                              value |-> DemoOverlay]
      OBVIOUS
    <2>5. c \in CallType /\ d \in CallType BY <2>2, <2>3, <2>4, OtherCallIs DEF CallType
    <2>6. /\ c.op = "add_source" /\ d.op = "update_source" /\ ~SetsLevel(c) /\ ~SetsLevel(d)
      BY <2>4 DEF Add, SetsLevel
    <2>7. PICK e \in {c, d} : Then(a, <<e>> \o Tail(todo[a])) BY <1>7, <2>4 DEF DemoSource
    <2>8. PICK x : x = <<e>> OBVIOUS
    <2>9. PICK l : l = x \o Tail(todo[a]) OBVIOUS
    <2>10. /\ x \in Seq(CallType) /\ x # <<>> /\ OfStudio(x)
           /\ x[1].op \notin {"introspect", "create_snapshot"}
      BY <2>5, <2>6, <2>8 DEF OfStudio, ProcessOnly
    <2>11. todo' = [todo EXCEPT ![a] = l] BY <2>7, <2>8, <2>9 DEF Then
    <2> QED BY <1>2, <1>3, <1>4, <2>1, <2>9, <2>10, <2>11, InsertCalm
  <1>8. CASE DemoSnapshot(a)
    <2>1. Call(a).op = "demo_snapshot" BY <1>8, FileSound DEF DemoSnapshot
    <2>2. Call(a).name \in Sources BY <1>2, <2>1, CallSays
    <2>3. PICK x : x = Capture(Call(a).name) OBVIOUS
    <2>4. PICK l : l = x \o Tail(todo[a]) OBVIOUS
    <2>5. PICK n : n = Latest(Call(a).name) OBVIOUS
    <2>6. \/ Return(a) /\ Learn(a, [mem[a] EXCEPT !.snapshot = n])
          \/ todo' = [todo EXCEPT ![a] = l] /\ mem' = mem
      BY <1>8, <2>3, <2>4, <2>5 DEF DemoSnapshot, Then
    <2>7. CASE Return(a) /\ Learn(a, [mem[a] EXCEPT !.snapshot = n])
      <3>1. PICK m : m = [mem[a] EXCEPT !.snapshot = n] OBVIOUS
      <3>2. mem' = [mem EXCEPT ![a] = m] /\ m.level = mem[a].level
        BY <1>5, <2>7, <3>1 DEF Learn, Memory, MemFields
      <3> QED BY <1>2, <1>4, <2>7, <3>2, EndCalm
    <2>8. CASE todo' = [todo EXCEPT ![a] = l] /\ mem' = mem
      <3>1. PICK g, i, c : /\ g = To("get_source", Call(a).name) /\ i = To("introspect", Call(a).name)
                           /\ c = To("create_snapshot", Call(a).name)
        OBVIOUS
      <3>2. g \in CallType /\ i \in CallType /\ c \in CallType
        BY <2>2, <3>1, OtherCallIs DEF CallType
      <3>3. /\ g.op = "get_source" /\ i.op = "introspect" /\ c.op = "create_snapshot"
            /\ ~SetsLevel(g) /\ ~SetsLevel(i) /\ ~SetsLevel(c) /\ Names(g, "get_source")
        BY <2>2, <3>1 DEF To, SetsLevel, Names
      <3>4. x = <<g, i, c>> BY <2>3, <3>1 DEF Capture
      <3>5. /\ x \in Seq(CallType) /\ x # <<>> /\ x[1].op \notin {"introspect", "create_snapshot"}
        BY <3>2, <3>3, <3>4
      <3>6. OfStudio(x) BY <3>3, <3>4 DEF OfStudio, ProcessOnly
      <3> QED BY <1>2, <1>3, <1>4, <2>4, <2>8, <3>5, <3>6, InsertCalm
    <2> QED BY <2>6, <2>7, <2>8
  <1>9. CASE DemoProject(a)
    <2>1. Call(a).op = "demo_project" /\ mem' = mem BY <1>9, FileSound DEF DemoProject
    <2>2. Call(a).name \in Projects /\ Call(a).source \in Sources BY <1>2, <2>1, CallSays
    <2>3. PICK c : c = NewProject(Call(a).name, Call(a).source) OBVIOUS
    <2>4. c \in CallType /\ c.op = "create_project" BY <2>2, <2>3, OtherCallIs DEF CallType, NewProject
    <2>5. PICK x : x = <<c>> OBVIOUS
    <2>6. PICK l : l = x \o Tail(todo[a]) OBVIOUS
    <2>7. Return(a) \/ Then(a, <<>>) \/ todo' = [todo EXCEPT ![a] = l]
      BY <1>9, <2>3, <2>5, <2>6 DEF DemoProject, Return, Then
    <2>8. CASE Return(a) \/ Then(a, <<>>)
      <3>1. Return(a) \/ \E r \in Rescues : Then(a, r) BY <1>6, <2>8
      <3> QED BY <1>2, <1>4, <1>5, <2>1, <3>1, EndCalm
    <2>9. CASE todo' = [todo EXCEPT ![a] = l]
      <3>1. /\ x \in Seq(CallType) /\ x # <<>> /\ OfStudio(x)
            /\ x[1].op \notin {"introspect", "create_snapshot"}
        BY <2>4, <2>5 DEF OfStudio, ProcessOnly, SetsLevel
      <3> QED BY <1>2, <1>3, <1>4, <2>1, <2>6, <2>9, <3>1, InsertCalm
    <2> QED BY <2>7, <2>8, <2>9
  <1> QED BY <1>7, <1>8, <1>9

(* The thread, which had nothing to do, begins a list that the order does  *)
(* not matter in.                                                          *)
LEMMA SpawnCalm ==
  ASSUME HomesInv, NEW src, Calm(src), NEW a \in Actors, Spawn(a)
  PROVE  Calm(src)'
  <1>1. PICK l, h : l = Tail(todo[a]) /\ h = ThreadCalls(Call(a).name, mem[a].dry) OBVIOUS
  <1>2. /\ Calls(a, "spawn") /\ Free(Thread) /\ clock' = clock /\ file' = file
        /\ todo' = [todo EXCEPT ![a] = l, ![Thread] = h]
        /\ mem' = [mem EXCEPT ![Thread] = mem[a], ![a] = Blank]
        /\ base' = base /\ copy' = copy /\ saving' = saving
    BY <1>1 DEF Spawn, Still
  <1>3. /\ saving[a] = "no" /\ base[a] = Absent /\ todo[a] # <<>> /\ Call(a).op = "spawn"
        /\ Ordinary(Call(a)) /\ Call(a) \in CallType
    BY <1>2, NotFounding, Popped DEF HomesInv, Calls, Call, Ordinary, SetsLevel
  <1>4. a # Process /\ mem[a].level = 0 BY <1>3, FirstOf DEF StudioOnly
  <1>5. saving[Thread] = "no" /\ base[Thread] = Absent /\ a # Thread
    <2>1. Mine(Thread) BY ProcessIs DEF HomesInv
    <2> QED BY <1>2, <1>3, <2>1 DEF Free, Mine, Founding
  <1>6. Blank.level = 0 BY DEF Blank
  <1>7. /\ todo'[a] = l /\ mem'[a] = Blank /\ todo'[Thread] = h /\ mem'[Thread] = mem[a]
        /\ \A b \in Actors : b # a /\ b # Thread => todo'[b] = todo[b] /\ mem'[b] = mem[b]
    BY <1>2, <1>5, ProcessIs DEF HomesInv, Lists, Places
  <1>8. Arranged(a, l) /\ Informed(a, l, Blank, src, clock)
    BY <1>1, <1>3, <1>4, <1>6, OrdinaryTail
  <1>9. Arranged(Thread, h) /\ Informed(Thread, h, mem[a], src, clock)
    <2>1. h \in Seq(CallType)
      <3>1. Call(a).name \in Projects BY <1>3, CallSays
      <3>2. PICK r, c, s : /\ r = To("run", Call(a).name) /\ c = Complete("completed")
                           /\ s = To("set_loaded_mapping", Call(a).name)
        OBVIOUS
      <3>3. r \in CallType /\ c \in CallType /\ s \in CallType
        BY <3>1, <3>2, LoadCallIs DEF CallType
      <3>4. PICK x, y, z : x = <<r, c>> /\ y = <<s>> /\ z = <<>> OBVIOUS
      <3>5. h = x \o z \/ h = x \o y BY <1>1, <3>2, <3>4 DEF ThreadCalls
      <3>6. x \in Seq(CallType) /\ y \in Seq(CallType) /\ z \in Seq(CallType) BY <3>3, <3>4
      <3>7. x \o z \in Seq(CallType) /\ x \o y \in Seq(CallType) BY ONLY <3>6, JoinedIs
      <3> QED BY <3>5, <3>7
    <2>2. Tame(h) BY <1>1, TameLists
    <2> QED BY <1>4, <2>1, <2>2, ProcessIs, TameIs
  <1>10. todo'[Process] = todo[Process] /\ mem'[Process] = mem[Process]
    BY <1>4, <1>7, ProcessIs
  <1>11. ASSUME NEW b \in Actors PROVE Pending(b, src)'
    <2>1. Pending(b, src) BY DEF Calm
    <2>2. CASE b = a
      BY <1>2, <1>3, <1>4, <1>7, <1>8, <2>2 DEF Pending
    <2>3. CASE b = Thread
      BY <1>2, <1>5, <1>7, <1>9, <2>3, ProcessIs DEF Pending
    <2>4. CASE b # a /\ b # Thread
      BY <1>2, <1>7, <1>10, <2>1, <2>4 DEF Pending, Expected
    <2> QED BY <2>2, <2>3, <2>4
  <1> QED BY <1>2, <1>10, <1>11 DEF Calm, Expected

LEMMA BeginCalm ==
  ASSUME HomesInv, NEW src, Calm(src), NEW a \in Actors, Begin(a)
  PROVE  Calm(src)'
  <1>1. /\ Free(a) /\ file' = file /\ NoSave /\ clock' = clock /\ a # Thread
        /\ \E h \in Handlers(a) : todo' = [todo EXCEPT ![a] = h]
    BY DEF Begin, Then, NoSave
  <1>2. PICK m : m = Blank OBVIOUS
  <1>3. mem' = [mem EXCEPT ![a] = m] /\ m.level = 0 BY <1>2 DEF Begin, Learn, Blank
  <1>4. saving[a] = "no" /\ base[a] = Absent /\ todo[a] = <<>> BY <1>1 DEF Free, HomesInv, Mine, Founding
  <1>5. PICK h \in Handlers(a) : todo' = [todo EXCEPT ![a] = h] BY <1>1
  <1>6. Arranged(a, h) /\ Informed(a, h, m, src, clock) /\ ~Resyncing(h)
    BY <1>1, <1>3, HandlersArranged
  <1>7. ~Resyncing(todo[a]) BY <1>4 DEF Resyncing
  <1>8. \A f : Due(f, todo[a], mem[a]) => Due(f, h, m) BY <1>6, <1>7, NothingOwed
  <1> QED BY <1>1, <1>3, <1>4, <1>5, <1>6, <1>8, CalmNoSave

-------------------------------------------------------------------------------

LEMMA CalmStays ==
  ASSUME NEW src, Calm(src), UNCHANGED <<file, todo, mem, base, copy, saving, clock>>
  PROVE  Calm(src)'
  <1>1. ASSUME NEW b \in Actors PROVE Pending(b, src)' BY DEF Calm, Pending, Expected
  <1> QED BY <1>1 DEF Calm, Expected

(* What has gone wrong is not forgotten.                                   *)
LEMMA OverlappedStays ==
  ASSUME Overlapped, [Next]_vars
  PROVE  Overlapped'
  <1> SUFFICES mishaps \subseteq mishaps' BY DEF Overlapped
  <1>1. ASSUME NEW a \in Actors, Method(a) PROVE mishaps \subseteq mishaps'
    BY <1>1
    DEF Method, GetSource, AddSource, UpdateSource, RemoveSource, GetLatestSnapshot, CreateSnapshot,
        UpdateSnapshotSchema, GetProject, CreateProject, UpdateProject, TouchProject, DeleteProject,
        StartLoad, CompleteLoad, SetLoadedMapping, GetEntry, AddEntry, RemoveEntry, Truncate, Write,
        ReadTorn, Same, Kept
  <1>2. ASSUME NEW a \in Actors, Step(a), ~Method(a) PROVE mishaps \subseteq mishaps'
    BY <1>2
    DEF Step, Introspect, Accept, Resolve, Annotate, LoadConfig, ResolveTarget, Connect, Try, Spawn, Run,
        TellError, Migrate, DemoSource, DemoSnapshot, DemoProject, Quiet
  <1>3. ASSUME NEW a \in Actors, Begin(a) \/ Crash(a) PROVE mishaps \subseteq mishaps'
    BY <1>3 DEF Begin, Crash
  <1>4. CASE Poll \/ Follow \/ Stream
    BY <1>4 DEF Poll, Follow, Stream, StreamTakes, StreamLooks, Followed, catalogVars
  <1>5. CASE UNCHANGED vars BY <1>5 DEF vars, catalogVars
  <1> QED BY <1>1, <1>2, <1>3, <1>4, <1>5 DEF Next

LEMMA NextStrict ==
  ASSUME HomesInv, NEW src, StrictInv(src), [Next]_vars
  PROVE  \E q : StrictInv(q)'
  <1>1. CASE Overlapped BY <1>1, OverlappedStays DEF StrictInv
  <1>2. CASE Calm(src)
    <2>1. ASSUME NEW a \in Actors, Begin(a) PROVE \E q : StrictInv(q)'
      BY <1>2, <2>1, BeginCalm DEF StrictInv
    <2>2. ASSUME NEW a \in Actors, Step(a) PROVE \E q : StrictInv(q)'
      <3>1. CASE Method(a) BY <3>1, MethodCalm
      <3>2. CASE ~Method(a)
        <4>1. Calm(src)'
          BY <1>2, <2>2, <3>2, GoOnCalm, IntrospectCalm, AcceptCalm, AnnotateCalm, RunCalm, SpawnCalm,
             DemoCalm
          DEF Step
        <4> QED BY <4>1 DEF StrictInv
      <3> QED BY <3>1, <3>2
    <2>3. ASSUME NEW a \in Actors, Crash(a) PROVE \E q : StrictInv(q)'
      <3>1. mishaps' = mishaps \cup {"crash"} BY <2>3 DEF Crash
      <3> QED BY <3>1 DEF Overlapped, StrictInv
    <2>4. CASE Poll \/ Follow \/ Stream \/ UNCHANGED vars
      <3>1. UNCHANGED <<file, todo, mem, base, copy, saving, clock>>
        BY <2>4 DEF Poll, Follow, Stream, StreamTakes, StreamLooks, Followed, vars, catalogVars
      <3> QED BY <1>2, <3>1, CalmStays DEF StrictInv
    <2> QED BY <2>1, <2>2, <2>3, <2>4 DEF Next
  <1> QED BY <1>1, <1>2 DEF StrictInv

LEMMA InitStrict ==
  ASSUME Init
  PROVE  \E src : StrictInv(src)
  <1>1. PICK first \in Sources : first = CHOOSE s \in Sources : TRUE BY CatalogAssumption
  <1>2. PICK src : src = [i \in Nat |-> first] OBVIOUS
  <1>3. /\ clock = 2 /\ \A a \in Actors : /\ todo[a] = <<>> /\ mem[a] = Blank /\ base[a] = Absent
                                          /\ saving[a] = "no"
    BY DEF Init
  <1>4. Grounded(file, src, clock) /\ \A s \in Sources : Strict(file, s)
    <2>1. CASE file = NewCatalog
      <3>1. file.snapshots = {} /\ \A s \in Sources : file.sources[s] = Absent
        BY <2>1 DEF NewCatalog
      <3> QED BY <3>1 DEF Grounded, Strict
    <2>2. CASE file = Stocked
      <3>1. PICK n, x : /\ n = [id |-> 1, source |-> first, level |-> 0, overlay |-> Absent,
                               accepted |-> FALSE]
                        /\ x = [level |-> 0, overlay |-> Absent, bound |-> TRUE]
        OBVIOUS
      <3>2. /\ file.snapshots = {n}
            /\ file.sources = [s \in Sources |-> IF s = first THEN x ELSE Absent]
        BY <1>1, <2>2, <3>1 DEF Stocked
      <3>3. x \in SourceConfig /\ n \in SchemaSnapshot
        BY <3>1, CatalogAssumption DEF SourceConfig, SchemaSnapshot
      <3>4. x # Absent BY <3>3, CatalogAssumption
      <3>5. Recorded(n, src, clock) BY <1>2, <1>3, <3>1, <3>3 DEF Recorded
      <3>6. Grounded(file, src, clock)
        <4>1. n.source = first /\ file.sources[first] # Absent BY <3>1, <3>2, <3>4
        <4> QED BY <3>2, <3>5, <4>1 DEF Grounded
      <3>7. ASSUME NEW s \in Sources, file.sources[s] # Absent, NEW o \in Newest(file, s)
            PROVE  file.sources[s].level <= o.level
        <4>1. o = n /\ file.sources[s] = x BY <3>2, <3>7 DEF Newest, Of
        <4> QED BY <3>1, <4>1
      <3> QED BY <3>6, <3>7 DEF Strict
    <2> QED BY <2>1, <2>2 DEF Init
  <1>5. ASSUME NEW a \in Actors PROVE Pending(a, src)
    <2>1. PICK r : r = <<>> OBVIOUS
    <2>2. r \in Rescues BY <2>1 DEF Rescues
    <2>3. r \in Seq(CallType) /\ Tame(r) BY <2>2, RescuesTyped, TameLists
    <2>4. Blank.level = 0 BY DEF Blank
    <2>5. Arranged(a, r) /\ Informed(a, r, Blank, src, clock) BY <2>3, <2>4, TameIs
    <2> QED BY <1>3, <2>1, <2>5 DEF Pending
  <1>6. Expected(file)
    <2>1. ~Resyncing(todo[Process]) BY <1>3, ProcessIs DEF Resyncing
    <2> QED BY <1>4, <2>1, NothingOwed DEF Expected
  <1>7. Calm(src) BY <1>3, <1>4, <1>5, <1>6 DEF Calm
  <1> QED BY <1>7 DEF StrictInv

(* With the handlers done, and none having run into another, the latest    *)
(* snapshot of a source is classified as strictly as the source (catalog   *)
(* resync-classifications: "so the next entitlement report / load reflects *)
(* current policy").                                                       *)
THEOREM LatestStaysStrict == Spec => []LatestIsAsStrict
  <1> DEFINE Inv == HomesInv /\ \E src : StrictInv(src)
  <1>1. Init => Inv BY InitHomes, InitStrict
  <1>2. Inv /\ [Next]_vars => Inv'
    <2> SUFFICES ASSUME Inv, [Next]_vars PROVE Inv' OBVIOUS
    <2>1. HomesInv' BY NextHomes
    <2>2. PICK src : StrictInv(src) OBVIOUS
    <2>3. \E q : StrictInv(q)' BY <2>2, NextStrict
    <2> QED BY <2>1, <2>3
  <1>3. Inv => LatestIsAsStrict
    <2> SUFFICES ASSUME Inv, \A a \in Actors : Free(a), Readable(file), ~Overlapped,
                        NEW s \in Sources, file.sources[s] # Absent, Latest(s) # Absent
                 PROVE  Latest(s).level >= file.sources[s].level
      BY DEF LatestIsAsStrict
    <2>1. PICK src : Calm(src) BY DEF StrictInv
    <2>2. saving[Process] = "no" /\ todo[Process] = <<>> BY ProcessIs DEF Free
    <2>3. Grounded(file, src, clock) /\ Expected(file) /\ clock \in Nat BY <2>1, <2>2 DEF Calm
    <2>4. ~Resyncing(todo[Process]) BY <2>2 DEF Resyncing
    <2>5. Strict(file, s) BY <2>3, <2>4, NothingOwed DEF Expected
    <2>6. Of(file, s) # {} BY <2>3, LatestNone
    <2>7. Latest(s) \in Newest(file, s) /\ Recorded(Latest(s), src, clock) BY <2>3, <2>6, LatestIs
    <2>8. Latest(s).level \in Nat BY <2>7, RecordedIs
    <2>9. file.sources[s].level \in Nat
      BY CatalogAssumption DEF HomesInv, Sound, SourceConfig
    <2>10. file.sources[s].level <= Latest(s).level BY <2>5, <2>7 DEF Strict
    <2> QED BY <2>8, <2>9, <2>10
  <1> HIDE DEF Inv
  <1> QED BY <1>1, <1>2, <1>3, PTL DEF Spec
================================================================================
