--------------------------- MODULE StreamingPipeline ---------------------------
(***************************************************************************)
(* r2g/streaming/pipeline.py: a load reads every mapped table in a session *)
(* of its own view of the source, and writes documents, then edges, batch  *)
(* by batch.  With one worker all jobs share one session and the first     *)
(* exception ends the load; with more, each job has a session and a writer *)
(* of its own, and an exception is raised when every job of the phase has  *)
(* come to its end.  Loads follow each other on one target; the source     *)
(* goes on changing; any call may fail.                                    *)
(*                                                                         *)
(* A row is its key and the key its foreign key refers to, or NoRef; it    *)
(* becomes a document and, with a reference, an edge.  A collection is the *)
(* set of its documents.                                                   *)
(***************************************************************************)
EXTENDS Naturals, FiniteSets, SequencesExt

CONSTANTS
  Tables,       \* mapped tables, each with a primary key
  Parent,       \* the table a table's foreign key refers to, or NoTable
  NoTable, NoRef,
  Keys,         \* primary keys
  InitialRows,  \* what the source may hold at first
  DocOrder,     \* the tables, as topological_sort_tables orders them
  Delegated,    \* tables with an expression ArangoDB has to evaluate
  Recent,       \* keys of rows on or after --since
  RunOptions,   \* the options a load may be started with
  Layouts,      \* subset of {"pg", "lpg"}: graph_layout of the project
  BatchSize, ErrorCap,
  MaxRuns, MaxCommits, MaxFaults  \* bounds

Rows == [key : Keys, ref : Keys \cup {NoRef}]
Docs == [table : Tables, key : Keys, ref : Keys \cup {NoRef}]
Contents == [Tables -> SUBSET Rows]
Linking == {t \in Tables : Parent[t] # NoTable}
Jobs == ({"doc"} \X Tables) \cup ({"edge"} \X Linking)
(* Where a collection of the pg layout is named after its table, and an    *)
(* edge collection after the table it starts from, an lpg one is shared.   *)
Nodes == <<"nodes", NoTable>>
Links == <<"links", NoTable>>
Collections == Jobs \cup {Nodes, Links}

ASSUME PipelineAssumption ==
  /\ Parent \in [Tables -> Tables \cup {NoTable}] /\ NoTable \notin Tables
  /\ NoRef \notin Keys
  /\ DocOrder \in Seq(Tables) /\ \A t \in Tables : \E i \in DOMAIN DocOrder : DocOrder[i] = t
  /\ Delegated \subseteq Tables /\ Recent \subseteq Keys /\ Layouts \subseteq {"pg", "lpg"}
  /\ InitialRows \subseteq Contents
  /\ \A rows \in InitialRows : \A t \in Tables : IsFiniteSet(rows[t])
  /\ BatchSize \in Nat \ {0} /\ ErrorCap \in Nat \ {0} /\ RunOptions # {}
  /\ RunOptions \subseteq [workers : Nat \ {0}, drop : BOOLEAN, skip : BOOLEAN, dry : BOOLEAN,
                           graph : BOOLEAN, only : SUBSET Tables, since : BOOLEAN, keep : BOOLEAN]

VARIABLES
  source,   \* the rows of each table
  target,   \* the documents of each collection
  graph,    \* does the named graph exist?
  dead,     \* the dead letter queue: <<collection, document>>, or NoRef for the document
  layout,   \* config.graph_layout
  stage,    \* where the load is
  opts,     \* its options
  view,     \* what the session of a load with one worker sees
  jobs,     \* per job: where it is, what its session read, what is left of it
  errors,   \* per collection, the length of its list of errors
  commits, faults, runs,
  mishaps   \* history: "rejected", "moved", "resumed", "partial", "emptied"

database == <<target, graph, dead>>
bounds == <<commits, faults, runs>>
vars == <<source, database, layout, stage, opts, view, jobs, errors, bounds, mishaps>>

Nothing == [t \in Tables |-> {}]
Idle == [at |-> "queued", read |-> {}, left |-> {}, count |-> 0]
Places == {"queued", "prepare", "stream", "done", "skipped", "raised"}
Stages == {"idle", "check", "graphless", "prepare", "open", "doc", "edge", "graph",
           "completed", "failed"}

Consistent(rows) ==
  /\ \A t \in Tables : \A r, s \in rows[t] : r.key = s.key => r = s
  /\ \A t \in Tables : \A r \in rows[t] : r.ref # NoRef =>
        t \in Linking /\ \E s \in rows[Parent[t]] : s.key = r.ref

Init ==
  /\ source \in {rows \in InitialRows : Consistent(rows)}
  /\ target = [c \in Collections |-> {}] /\ graph = FALSE /\ dead = {}
  /\ layout \in Layouts
  /\ stage = "idle" /\ opts = (CHOOSE o \in RunOptions : TRUE) /\ view = Nothing
  /\ jobs = [j \in Jobs |-> Idle] /\ errors = [c \in Collections |-> 0]
  /\ commits = 0 /\ faults = 0 /\ runs = 0 /\ mishaps = {}

Running == {j \in Jobs : jobs[j].at \in {"prepare", "stream"}}
InProgress == stage \notin {"idle", "completed", "failed"}

(* The source: transactions that keep its keys and foreign keys.           *)
Commit ==
  /\ commits < MaxCommits
  /\ \E t \in Tables, r \in Rows :
       \/ source' = [source EXCEPT ![t] = {s \in @ : s.key # r.key} \cup {r}]
       \/ r \in source[t] /\ source' = [source EXCEPT ![t] = @ \ {r}]
  /\ source' # source /\ Consistent(source')
  /\ commits' = commits + 1
  /\ mishaps' = IF InProgress /\ opts.workers > 1 THEN mishaps \cup {"moved"} ELSE mishaps
  /\ UNCHANGED <<database, layout, stage, opts, view, jobs, errors, faults, runs>>

(***************************************************************************)
(* run                                                                     *)
(***************************************************************************)

(* A load is started with any of the options.                              *)
Begin ==
  /\ ~InProgress /\ runs < MaxRuns
  /\ opts' \in RunOptions
  /\ runs' = runs + 1 /\ stage' = "check"
  /\ jobs' = [j \in Jobs |-> Idle] /\ errors' = [c \in Collections |-> 0] /\ view' = Nothing
  /\ mishaps' = mishaps \cup (IF opts'.skip /\ runs > 0 THEN {"resumed"} ELSE {})
                        \cup (IF opts'.only # Tables \/ opts'.since THEN {"partial"} ELSE {})
  /\ UNCHANGED <<source, database, layout, commits, faults>>

Goto(place) == stage' = place

Fault == faults < MaxFaults /\ faults' = faults + 1

(* A call on the way to the jobs raises: the database cannot be reached,   *)
(* or cannot evaluate an expression (_check_delegations).                  *)
RaiseEarly ==
  /\ stage \in {"check", "graphless", "prepare", "open"} /\ Fault
  /\ Goto("failed")
  /\ UNCHANGED <<source, database, layout, opts, view, jobs, errors, commits, runs, mishaps>>

Check ==
  /\ stage = "check"
  /\ Goto("graphless")
  /\ UNCHANGED <<source, database, layout, opts, view, jobs, errors, bounds, mishaps>>

(* The named graph goes first, for ArangoDB keeps the collections of one.  *)
DropGraph ==
  /\ stage = "graphless"
  /\ graph' = (graph /\ ~(~opts.dry /\ opts.drop /\ opts.graph))
  /\ Goto("prepare")
  /\ UNCHANGED <<source, target, dead, layout, opts, view, jobs, errors, bounds, mishaps>>

(* ArangoDB: drop_collection of a collection of a graph raises.            *)
MayDrop == ~graph

(* _prepare_lpg_collections: the shared collections, once for all tables.  *)
Prepare ==
  /\ stage = "prepare"
  /\ IF ~opts.dry /\ layout = "lpg" /\ opts.drop
       THEN IF MayDrop
              THEN /\ target' = [target EXCEPT ![Links] = {}, ![Nodes] = {}]
                   /\ Goto("open")
              ELSE Goto("failed") /\ UNCHANGED target
       ELSE Goto("open") /\ UNCHANGED target
  /\ UNCHANGED <<source, graph, dead, layout, opts, view, jobs, errors, bounds, mishaps>>

(* One worker opens its session here, for documents and edges alike.       *)
Open ==
  /\ stage = "open"
  /\ view' = IF opts.workers = 1 THEN source ELSE Nothing
  /\ Goto("doc")
  /\ UNCHANGED <<source, database, layout, opts, jobs, errors, bounds, mishaps>>

(***************************************************************************)
(* Jobs                                                                    *)
(***************************************************************************)

(* _iter_document_jobs, _iter_edge_jobs: those of the tables that are      *)
(* included, in the order of the tables.                                   *)
JobsOf(phase) == {j \in Jobs : j[1] = phase /\ j[2] \in opts.only}
Position(t) == CHOOSE n \in DOMAIN DocOrder : DocOrder[n] = t
Earlier(j) == {i \in JobsOf(j[1]) : Position(i[2]) < Position(j[2])}

MayStart(j) ==
  /\ stage = j[1] /\ j \in JobsOf(stage) /\ jobs[j].at = "queued"
  /\ IF opts.workers = 1
       THEN \A i \in Earlier(j) : jobs[i].at \in {"done", "skipped"}
       ELSE /\ \A i \in Earlier(j) : jobs[i].at # "queued"
            /\ Cardinality(Running) < opts.workers

(* What a job reads: an edge job has nothing to do for a row without a     *)
(* reference.                                                              *)
Selected(j, rows) ==
  {r \in rows[j[2]] : /\ opts.since => r.key \in Recent
                      /\ j[1] = "edge" => r.ref # NoRef}

Start(j) ==
  /\ MayStart(j)
  /\ LET rows == Selected(j, IF opts.workers = 1 THEN view ELSE source)
     IN  jobs' = [jobs EXCEPT ![j] = [Idle EXCEPT !.at = "prepare", !.read = rows, !.left = rows]]
  /\ UNCHANGED <<source, database, layout, stage, opts, view, errors, bounds, mishaps>>

Home(j) == IF layout = "pg" THEN j ELSE IF j[1] = "doc" THEN Nodes ELSE Links

(* Mutant: every job drops the collection it writes to.                    *)
OwnsCollectionAlways(j) == TRUE
(* In the lpg layout the collections were prepared for all jobs at once.   *)
OwnsCollection(j) == layout = "pg"

JobAt(j, place) == jobs' = [jobs EXCEPT ![j].at = place]

(* _should_skip_collection, which takes any exception for "no"; then the   *)
(* collection is dropped, where asked, and made.                           *)
PrepareCollection(j) ==
  /\ jobs[j].at = "prepare"
  /\ \/ /\ opts.dry \/ ~OwnsCollection(j)
        /\ JobAt(j, "stream") /\ UNCHANGED <<target, faults>>
     \/ /\ ~opts.dry /\ OwnsCollection(j) /\ opts.skip /\ target[Home(j)] # {}
        /\ JobAt(j, "skipped") /\ UNCHANGED <<target, faults>>
     \/ /\ ~opts.dry /\ OwnsCollection(j)
        /\ IF opts.skip /\ target[Home(j)] # {} THEN Fault ELSE UNCHANGED faults
        /\ IF opts.drop /\ ~MayDrop
             THEN JobAt(j, "raised") /\ UNCHANGED target
             ELSE /\ JobAt(j, "stream")
                  /\ target' = IF opts.drop THEN [target EXCEPT ![Home(j)] = {}] ELSE target
  /\ UNCHANGED <<source, graph, dead, layout, stage, opts, view, errors, commits, runs, mishaps>>

(* The _key of a document is the row's, under its label where tables share *)
(* a collection; that of an edge has both ends.                            *)
(* Mutant: without the label.                                              *)
SameKeyAnyTable(j, d, e) == d.key = e.key /\ (j[1] = "edge" => d.ref = e.ref)
SameKey(j, d, e) == d.table = e.table /\ d.key = e.key /\ (j[1] = "edge" => d.ref = e.ref)

DocOf(j, r) == [table |-> j[2], key |-> r.key, ref |-> r.ref]

(* import_batch: documents that are stored replace those of the same key,  *)
(* or, with on_duplicate = ignore, leave them.                             *)
Stored(j, docs) ==
  LET old == target[Home(j)]
      clash(d, others) == \E e \in others : SameKey(j, d, e)
  IN  IF opts.keep
        THEN old \cup {d \in docs : ~clash(d, old)}
        ELSE {d \in old : ~clash(d, docs)} \cup docs

(* The next batch of a job, of as many rows as there are up to BatchSize.  *)
Batches(j) ==
  {b \in SUBSET jobs[j].left :
     Cardinality(b) = IF Cardinality(jobs[j].left) < BatchSize
                        THEN Cardinality(jobs[j].left) ELSE BatchSize}

Capped(n) == IF n > ErrorCap THEN ErrorCap ELSE n

Streamed(j, b) == jobs' = [jobs EXCEPT ![j].left = @ \ b, ![j].count = @ + Cardinality(b)]

Rejected(c, letters, n) ==
  /\ errors' = [errors EXCEPT ![c] = Capped(@ + n)]
  /\ mishaps' = mishaps \cup {"rejected"}
  /\ dead' \in {dead, dead \cup letters}  \* a letter that cannot be written is only logged

(* A batch is transformed and, unless this is a dry run, stored.           *)
StreamBatch(j) ==
  /\ jobs[j].at = "stream" /\ jobs[j].left # {}
  /\ \E b \in Batches(j) :
       /\ Streamed(j, b)
       /\ target' = IF opts.dry THEN target
                    ELSE [target EXCEPT ![Home(j)] = Stored(j, {DocOf(j, r) : r \in b})]
  /\ UNCHANGED <<source, graph, dead, layout, stage, opts, view, errors, bounds, mishaps>>

(* _flush_batch: ArangoDB refuses some documents, and says no more of them *)
(* than that: what is queued has no row.                                   *)
ImportPartly(j) ==
  /\ jobs[j].at = "stream" /\ jobs[j].left # {} /\ ~opts.dry /\ Fault
  /\ \E b \in Batches(j) : \E refused \in (SUBSET b) \ {{}} :
       /\ Streamed(j, b)
       /\ target' = [target EXCEPT ![Home(j)] = Stored(j, {DocOf(j, r) : r \in b \ refused})]
       /\ Rejected(Home(j), {<<Home(j), NoRef>>}, Cardinality(refused))
  /\ UNCHANGED <<source, graph, layout, stage, opts, view, commits, runs>>

(* _apply_delegation fails: no document of the batch is stored.            *)
DelegationFails(j) ==
  /\ jobs[j].at = "stream" /\ jobs[j].left # {} /\ ~opts.dry /\ Fault
  /\ j[1] = "doc" /\ j[2] \in Delegated
  /\ \E b \in Batches(j) :
       /\ Streamed(j, b)
       /\ Rejected(<<"doc", j[2]>>, {<<<<"doc", j[2]>>, DocOf(j, r)>> : r \in b}, 1)
  /\ UNCHANGED <<source, target, graph, layout, stage, opts, view, commits, runs>>

(* Any other exception ends the job; the request may have been carried out *)
(* whole or in part.                                                       *)
JobRaises(j) ==
  /\ jobs[j].at \in {"prepare", "stream"} /\ Fault
  /\ JobAt(j, "raised")
  /\ \/ UNCHANGED target
     \/ /\ jobs[j].at = "stream" /\ ~opts.dry
        /\ \E b \in Batches(j) : \E s \in SUBSET b :
             target' = [target EXCEPT ![Home(j)] = Stored(j, {DocOf(j, r) : r \in s})]
  /\ UNCHANGED <<source, graph, dead, layout, stage, opts, view, errors, commits, runs, mishaps>>

FinishJob(j) ==
  /\ jobs[j].at = "stream" /\ jobs[j].left = {}
  /\ JobAt(j, "done")
  /\ UNCHANGED <<source, database, layout, stage, opts, view, errors, bounds, mishaps>>

(***************************************************************************)
(* Phases                                                                  *)
(***************************************************************************)

Over(j) == jobs[j].at \in {"done", "skipped", "raised"}
SomeRaised == \E j \in JobsOf(stage) : jobs[j].at = "raised"

(* Mutants: an exception of a pool's job is not looked at; one worker      *)
(* waits for the jobs after the one that raised.                           *)
EndPhaseAnyway ==
  /\ stage \in {"doc", "edge"}
  /\ \A j \in JobsOf(stage) : Over(j)
  /\ Goto(IF stage = "doc" THEN "edge" ELSE "graph")
  /\ UNCHANGED <<source, database, layout, opts, view, jobs, errors, bounds, mishaps>>

EndPhaseWaits ==
  /\ stage \in {"doc", "edge"}
  /\ \A j \in JobsOf(stage) : Over(j)
  /\ Goto(IF SomeRaised THEN "failed" ELSE IF stage = "doc" THEN "edge" ELSE "graph")
  /\ UNCHANGED <<source, database, layout, opts, view, jobs, errors, bounds, mishaps>>

(* A load that empties each collection when its job comes to it has, when  *)
(* it fails, emptied some and left others as they were; until all are      *)
(* loaded again.                                                           *)
Piecemeal == layout = "pg" /\ opts.drop /\ ~opts.dry
AfterPhase ==
  IF Piecemeal /\ SomeRaised THEN mishaps \cup {"emptied"}
  ELSE IF Piecemeal /\ stage = "edge" THEN mishaps \ {"emptied"} ELSE mishaps

(* With one worker an exception ends the phase at once; a pool waits for   *)
(* all its jobs, those still queued too, before it is raised.              *)
EndPhase ==
  /\ stage \in {"doc", "edge"}
  /\ \/ \A j \in JobsOf(stage) : Over(j)
     \/ opts.workers = 1 /\ SomeRaised
  /\ IF SomeRaised
       THEN Goto("failed")
       ELSE Goto(IF stage = "doc" THEN "edge" ELSE "graph")
  /\ mishaps' = AfterPhase
  /\ UNCHANGED <<source, database, layout, opts, view, jobs, errors, bounds>>

(* create_named_graph: the old definition is dropped, the new one made.    *)
CreateGraph ==
  /\ stage = "graph"
  /\ \/ /\ graph' = (graph \/ (~opts.dry /\ opts.graph))
        /\ Goto("completed") /\ UNCHANGED faults
     \/ /\ ~opts.dry /\ opts.graph /\ Fault
        /\ graph' \in {graph, FALSE} /\ Goto("failed")
  /\ UNCHANGED <<source, target, dead, layout, opts, view, jobs, errors, commits, runs, mishaps>>

JobStep(j) ==
  \/ Start(j) \/ PrepareCollection(j) \/ FinishJob(j)
  \/ StreamBatch(j) \/ ImportPartly(j) \/ DelegationFails(j) \/ JobRaises(j)

RunStep ==
  \/ Check \/ DropGraph \/ Prepare \/ Open \/ RaiseEarly
  \/ EndPhase \/ CreateGraph

Next == Commit \/ Begin \/ RunStep \/ \E j \in Jobs : JobStep(j)

(* A load runs on a thread or in a command of its own, and every call of   *)
(* its jobs returns or raises.                                             *)
Fairness == WF_vars(RunStep) /\ \A j \in Jobs : WF_vars(JobStep(j))

Spec == Init /\ [][Next]_vars /\ Fairness

(***************************************************************************)
(* Properties                                                              *)
(***************************************************************************)

Letter == (Collections \X Docs) \cup (Collections \X {NoRef})

(* The types of the variables.                                             *)
TypeOK ==
  /\ source \in Contents /\ target \in [Collections -> SUBSET Docs]
  /\ graph \in BOOLEAN /\ dead \subseteq Letter
  /\ layout \in Layouts /\ stage \in Stages /\ opts \in RunOptions /\ view \in Contents
  /\ jobs \in [Jobs -> [at : Places, read : SUBSET Rows, left : SUBSET Rows, count : Nat]]
  /\ errors \in [Collections -> 0 .. ErrorCap]
  /\ mishaps \subseteq {"rejected", "moved", "resumed", "partial", "emptied"}

Loaded == stage = "completed" /\ ~opts.dry

(* A load that completes has stored every row its jobs read, or lists an   *)
(* error for the collection the row was to go to: no table erases or       *)
(* overwrites what another has loaded, and no batch is passed over.        *)
RowsAccountedFor ==
  Loaded => \A j \in JobsOf("doc") \cup JobsOf("edge") :
    jobs[j].at = "skipped" \/ errors[Home(j)] > 0 \/ errors[<<j[1], j[2]>>] > 0
      \/ \A r \in jobs[j].read : \E d \in target[Home(j)] :
            SameKey(j, d, DocOf(j, r)) /\ d.table = j[2]

Has(j, key) == \E d \in target[Home(j)] : d.table = j[2] /\ d.key = key

(* When a load has completed, both ends of every edge are there, with one  *)
(* worker even if the source changed while it was read.  Not so once       *)
(* documents were refused, tables left out, or an earlier load was taken   *)
(* up with skip_existing (it skips documents of a source that has changed, *)
(* or was read in part, and loads their edges); nor with several workers   *)
(* on a source that changes; nor while the edges are still there of which  *)
(* a failed load has emptied the ends.                                     *)
EdgesHaveEnds ==
  Loaded /\ mishaps \cap {"rejected", "moved", "resumed", "partial", "emptied"} = {} =>
    \A t \in Linking : \A e \in target[Home(<<"edge", t>>)] :
      e.table = t => Has(<<"doc", t>>, e.key) /\ Has(<<"doc", Parent[t]>>, e.ref)

(* What a full load of rows makes of a job's table.                        *)
Image(j, rows) == {DocOf(j, r) : r \in {s \in rows[j[2]] : j[1] = "edge" => s.ref # NoRef}}

(* A load that drops the collections first leaves exactly what its view of *)
(* the source holds, whatever earlier loads left behind.                   *)
ReloadIsFresh ==
  Loaded /\ opts.drop /\ ~opts.skip /\ opts.workers = 1
    /\ mishaps \cap {"rejected", "partial"} = {} =>
    \A j \in Jobs : {d \in target[Home(j)] : d.table = j[2]} = Image(j, view)

(* Every load comes to an end, completed or failed.                        *)
EveryRunEnds == InProgress ~> ~InProgress

(* --skip-existing, "for resuming partial runs": a load that completes has *)
(* every row of its view in the target.                                    *)
ResumedIsWhole ==
  Loaded /\ opts.skip /\ opts.workers = 1 /\ commits = 0
    /\ mishaps \cap {"rejected", "moved", "partial"} = {} =>
    \A j \in Jobs : \A r \in Image(j, view) : \E d \in target[Home(j)] :
      d.table = j[2] /\ d.key = r.key

(* "Parallelism does not break read consistency": with several workers too *)
(* every edge of a load that completes finds its ends.                     *)
ParallelIsConsistent ==
  Loaded /\ mishaps \cap {"rejected", "resumed", "partial"} = {} =>
    \A t \in Linking : \A e \in target[Home(<<"edge", t>>)] :
      e.table = t => Has(<<"doc", t>>, e.key) /\ Has(<<"doc", Parent[t]>>, e.ref)
=============================================================================
