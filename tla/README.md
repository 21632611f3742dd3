# r2g-arango in TLA+

r2g copies relational databases into ArangoDB, keeps the copy up to date by
change data capture (CDC), can keep its history, migrates it when its mapping
changes, and, under a control plane, governs the mappings it works by. This
directory holds TLA+ models of the parts of `src/src/r2g` whose correctness
depends on the order in which things happen, the TLC configurations that check
them, and TLAPS proofs about them.

Paths below are relative to `src/src/r2g/` unless they start with `src/`,
`docs/` or `README.md`, which are the repository's own.

    tlc -workers 2 -config KafkaConsumer.cfg MCKafkaConsumer     # a run
    tlapm KafkaProofs.tla                                        # the proofs

Contents: 1 the system and what is hard about it; 2 the modules and how they
correspond to the code; 3 the runs; 4 where the code and its documents disagree;
5 the theorems; 6 what is not modelled; 7 the plan.

## 1. Inventory

### 1.1 Components

| component | code | state | operations | modelled by |
|---|---|---|---|---|
| ArangoDB writer | `connectors/arango_writer.py` | none of its own; the target database | insert, replace, delete, import, each in a retry loop | `ArangoOps`, `ArangoWriter` |
| Conflict resolver | `cdc/conflict.py` | policy, counts | resolve_insert, _replace, _delete | `ConflictResolver` |
| Delta transformer | `cdc/delta_transformer.py`, `transformers/` | mapping | event → deltas of a document and its edges | `DeltaTransformer` |
| CDC handler | `cdc/handler.py` | stats | handle_event, handle_transaction, group_by_transaction | `CDCHandler` |
| Kafka consumer | `cdc/kafka_consumer.py`, `cdc/kafka_parser.py` | position, running flag; committed offsets at the broker | run, _consume_batch, _commit, stop | `KafkaConsumer` |
| PostgreSQL listener | `cdc/pg_listener.py`, `cdc/parsers.py`, `main.py` cdc-* | slot position (server), running flag | create_slot, drop_slot, poll_once, run, stop | `PgListener` |
| Temporal applier | `temporal/applier.py` | versions, proxies, edges in the database | apply_insert, _update, _delete, TTL | `TemporalApplier` |
| Temporal queries | `temporal/queries.py` | none | snapshot, history, diff texts | – (`IntervalsDisjoint` is what they rely on) |
| History outbox | `governed.py` class Outbox | `pending/`, `done/`, a lock, a worker | send, deliver, deliver_pending, start_worker | `Outbox` |
| Governed saves | `ui/server.py`, `control_plane.py`, `mapping_changes.py` | mapping files, kept versions, save locks | save_mapping, create_project, govern, keep_version, record | `GovernedSave` |
| Streaming pipeline | `streaming/pipeline.py`, `dlq.py`, `topo_sort.py`, `lpg.py` | phases, per-collection counts and errors, dead letter queue | run, prepare, stream tables and edges, create the graph | `StreamingPipeline` |
| Mapping diff and migration | `config_migrate.py`, `mapping_diff.py`, `schema_diff.py`, `mapping_changes.py` | none | default configuration, migrate_config, diff_schemas, diff_mappings, migration_items | `Mapping` |
| Selective reload | `selective_reload.py`, migrate in `ui/server.py`, `main.py` | plan, done steps, errors | every action of a plan | `Migration` |
| Catalog | `catalog.py`, `snapshot.py` | one JSON file | every operation on sources, snapshots, projects, loads, targets, catalogs | `Catalog` |
| Server loads and progress, tools, commands | `ui/server.py`, `mcp_server.py`, `main.py` | `_active_loads`, event queue, stream | handlers as lists of catalog calls; start_load, run_pipeline, status, stream_progress | `CatalogClients` |
| Source connectors and sessions | `connectors/*.py`, `input/dump_reader.py` | a connection, its snapshot | get_schema, count, stream, dump | `SourceSessions`, `Introspection` |
| Import generator, offline commands | `generators/arangoimport.py`, `main.py` | files in directories | dump-tables, source dump, transform-*, generate-*, and the scripts themselves | `OfflineImport` |
| Schema analysis, LLM, visualizer, Forge, security, masking, governance, data catalogs | see PROJECT.json | none that outlives a call | sequential transformations and I/O | not modelled (section 6) |

### 1.2 How they interact

    source database ──(slot / topics)──> PgListener | KafkaConsumer
          │                                   │ batch of parsed events
          │                                   v
          │          CDCHandler ──> DeltaTransformer (event -> deltas)
          │              ├──> ConflictResolver ──> ArangoWriter ──> target
          │              └──> TemporalApplier  ──> ArangoWriter ──> target
          │
          ├──(get_schema)──> snapshot in the catalog ──> default mapping
          ├──(session)─────> StreamingPipeline ──────> ArangoWriter ──> target
          └──(dump)──> CSV ──(transform)──> JSONL ──(script)──> arangoimport ──> target

    mapping edited ──> diff with the mapping on record ──> plan ──> SelectiveReload ──> target
    browser ──> server: save_mapping ──> control plane decides ──> file saved
                    │         └──> Outbox.send ──> deliver (request | worker) ──> control plane
                    └──> start_load ──> thread: pipeline ──> queue ──> progress stream
    Studio, its load thread, commands, MCP tools ──> CatalogManager ──> catalog.json

* A consumer calls the handler synchronously with a batch; exceptions come back
  through it and abandon the batch.
* The handler calls the transformer before the resolver for a whole event or
  transaction, so a transform that raises leaves the target alone.
* The resolver turns writer exceptions (duplicate key, document not found) into
  decisions. Under FAIL it raises a conflict; any other error is raised to the
  handler, which counts it and goes on except under FAIL.
* The writer hides transient errors behind retries, and so turns one call into
  several requests.
* The outbox is shared by request tasks and one worker thread, and by successive
  processes through its two directories.
* The catalog file is shared by everything, and locked by nothing. A handler of the Studio
  runs on the event loop up to its next `await`; the load thread and other processes do not wait for it.
* The steps of the offline way in share only files, and the person who gives the commands.

### 1.3 What is hard here

The complete list with lines is `hazards` in PROJECT.json. In short:

* **redelivery**: Kafka hands out again what was not committed; the writer's own
  retry meets the effect of a request whose reply was lost;
* **loss**: the PostgreSQL slot moves when changes are read, before they are handled;
* **order**: `group_by_transaction` reorders what interleaved partitions deliver;
  the slot may be made before the initial load, so changes are applied over a
  snapshot that already has them;
* **multi-call operations without a transaction**: a new version is up to five
  database calls, a migration a plan of renames, drops and reloads, finishing an outbox entry two
  file operations, saving a file a truncation and a write;
* **lost updates**: two managers of the catalog, or two saves of a mapping, each read, change and
  write back a whole file;
* **consistent reads**: the tables of a load or a dump are read one after the other while the source
  commits; its catalog is read statement by statement;
* **partial success**: an import stores part of a batch and raises; arangoimport exits with zero though
  it rejected rows; a dump passes over a table; a migration goes on after a failed step;
* **starvation**: a round of the worker only tries the oldest `limit` files;
* **stale state**: LSNs, compared on INSERT and not on REPLACE; edges of an old
  foreign key; classifications of an older snapshot; files and collections that earlier commands left.

### 1.4 What correctness means, per component

* Writer: a call ends; it ends in one of a list of outcomes, which for success says that the work is done.
* Resolver, transformer and handler: applied in log order, with redelivery from
  any committed point, the deltas of a table's changes leave the image of the table.
* Kafka consumer: no offset is committed past an event that was not handled; order
  inside a partition, as far as transactions that span partitions leave it; catching up.
* PostgreSQL listener: nothing is handled twice; nothing is lost unless something
  was interrupted; a stop signal is not an interruption; catching up.
* Temporal applier: versions of an entity are disjoint in time, closed versions are
  immutable, every version is attached to its proxies, the current version is the row.
* Outbox: an entry is never lost, finished only for a reason, never brought back, and
  always finished in the end.
* Governed saves: no part of a mapping changes without the policy's answer on its class before
  and after; what is replaced is kept; the history accounts for the file; the lock is released.
* Pipeline: every row read is stored or reported; edges have their ends; a load that drops first leaves
  the image of its source and nothing else; a load ends.
* Catalog and its clients: a project has its source; what is on record as completed or loaded was; gates use
  classifications as strict as the source's; loads and progress streams end.
* Mapping and migration: what is on record as loaded is what the target holds, through edits, failures and
  repetitions; a migration writes nothing it was not checked on; a migrated configuration fits the schema and is stable.
* Sources: what one session reads is one committed state; a schema is the source's, and one read while the catalog is altered is put
  together of parts that were.
* Offline import: a script that exits with zero has stored every row of every file; a column gets into the database in
  clear only by a file or script that was made while the mapping said so.

## 2. The modules

| module | models | extends / instantiates |
|---|---|---|
| `ArangoOps` | the server's answer to one call and `WriterOutcomes`, all that a caller of the writer can see | |
| `ArangoWriter` | the retry loop; shows that it produces exactly such outcomes | ArangoOps |
| `ConflictResolver` | the four policies, as sets of outcomes | ArangoOps |
| `DeltaTransformer` | rows → deltas, for a table with one nullable foreign key | |
| `SourceTable` | the source database and the events of its transactions (external) | DeltaTransformer |
| `CDCHandler` | grouping and application, one delta per step | ConflictResolver, DeltaTransformer |
| `KafkaConsumer` | the consumer loop, with the source and the handler | CDCHandler, SourceTable |
| `PgListener` | the slot, the loop, cdc-setup / -start / -teardown, the initial load | CDCHandler, SourceTable |
| `DeliveredLog` | abstract specification: at-least-once delivery of a partitioned log | instantiated by KafkaConsumer |
| `TemporalApplier` | versioning, one database call per step, and TTL | |
| `Outbox` | send, deliver, the worker, crashes | |
| `GovernedSave` | the requests that write a mapping under a control plane, with their lock, the policy, the versions and the entries | |
| `StreamingPipeline` | loads with all their options, one after the other, over a changing source | |
| `Catalog` | the catalog's records as functions of the file; reading, truncating, writing | |
| `CatalogClients` | the handlers of Studio, load thread, commands and MCP tools as lists of calls; the progress stream | Catalog |
| `Mapping` | default configuration, migration of a configuration, diffs, plans (pure operators) | |
| `Migration` | edits, loads, migrations and their execution | Mapping |
| `SourceSessions` | what a session on each kind of source sees | |
| `Introspection` | reading the catalog of each kind of source into a schema | |
| `OfflineImport` | dumps, transformations, scripts, and their runs | SourceSessions, Introspection |
| `MC*` | constants for TLC | the module they are named for |
| `KafkaProofs`, `PgProofs`, `TemporalProofs`, `CatalogProofs`, `GovernedProofs`, `StreamingProofs`, `OfflineProofs` | theorems; those about the outbox are in `GovernedProofs`, those about the writer in `StreamingProofs` | the module they are named for (CatalogClients, for `CatalogProofs`); Outbox; ArangoWriter |
| `MirrorProofs` | the lemmas that the convergence proofs of the two consumers share | CDCHandler, SourceTable |

### 2.1 State and actions against the code

**ArangoOps, ArangoWriter.** `store` is the target, from `<collection, _key>` to a
document. `Execute` is the server's answer to one request (duplicate key on INSERT,
not found on REPLACE, per-document errors of an import with `halt_on_error=False`).
`Reply`, `RequestLost`, `ReplyLost` and `NonRetryable` are the ways one turn of the
loop `for attempt in range(self.max_retries + 1)` can go; `RetryOrRaise` is its
`except` clause. The consumers are checked with `WriterOutcomes`, not with the loop: the
run *writer* and the theorem `CallsEndAsListed` are what entitles them to it.

**CDCHandler.** A batch is a function from messages to events, with their arrival
order. `StartGroup` is the beginning of `handle_event` or `handle_transaction`:
`group_by_transaction` picks the group, `transform` all of it, and raises before
anything is written. `ApplyDelta` is one `_apply_delta`; crashes and signals fall
between two of them. `FinishGroup` is the return.

**KafkaConsumer.** `committed` is at the broker, `position` in the consumer. `Consume`
is `_consume_batch`: librdkafka advances the position when it hands messages out.
`Commit` is `_commit`, which logs a failure and goes on, so it may leave `committed`
as it was. `CatchError` is the `except` of `run`, after which the next batch is
consumed *without* going back. `StopSignal`/`Exit` are the signal handler and the loop
condition. `Crash` may come at any time; `Start` resumes from the committed offsets.

**PgListener.** `slot` is `confirmed_flush_lsn` as far as r2g is concerned.
`Poll` is `poll_once`: the server stops at a transaction's end when it has reached the
requested number of changes, and moves the slot. `PollLost` is the same with the answer
lost. `base` is a history variable: the point up to which the initial load is what
brings the changes.

**TemporalApplier.** One action per database call of `apply_insert`, `apply_update` and
`apply_delete`; `Abort` is an exception or a crash at any of them: the change is dropped
(the handler counts a failed delta) or will be delivered again. The proxies are two
actions because they are two imports; the two hasVersion edges of a version are one
import and one element.

**Outbox.** A thread is the worker or, for the request that queued an entry, the entry.
`phase` is the place in `deliver()`, between two file operations or calls. `queue` keeps
the order of modification times, by which `deliver_pending` sorts. `Raises` is an exception that `deliver` does not handle: it leaves the
file in its place, and the worker's round, which is caught only as a whole, ends with it. A crash forgets
everything but the files, the control plane and the clock.

**GovernedSave.** A request is a save or a creation, and `pc` is its place in `_governed_save` or
`create_project`. A save holds `_save_locks[name]` from `Lock` to `End`; a creation runs on the event loop and
gives it up only while it asks, so `loop` is what excludes other creations and the start of other saves. The file is emptied (`Open`, `Seed`) and
written (`Write`) in two steps because `save_config` opens it with "w"; an emptied file reads as a mapping without parts. `Govern` is
`govern`: all terms, old and new, of all parts that differ; the policy's answers are any
subset of what was asked. `Fail` is a file operation that raises, `Crash` the end of the process. An entry is
queued by `Record`; from there on it is `Outbox`'s.

**StreamingPipeline.** `stage` is the place in `run()`: the checks, the removal of the named graph, the
preparation of shared collections (lpg), the session of a single worker, documents, edges, the graph. A *job* is a
table's documents or edges: `Start` opens its session (with one worker, all share `view`), `PrepareCollection` drops it, or skips or
counts it, `StreamBatch` reads and imports a batch, `FinishJob` ends it. `ImportPartly` is a batch the server stores
in part, `JobRaises` any exception in a job, after which a single worker is at its end and several go on to the end of their phase.
`errors` is the length of a collection's error list, which `ErrorCap` cuts short as the code's cap of recorded errors does, and `dead` is the dead letter queue.

**Catalog, CatalogClients.** A handler is a list of calls (`todo`), the calls of its except clause (`rescue`), and what it has read
(`mem`). Each call of a `CatalogManager` reads `file` whole; one that changes something sets `copy`, then `Truncate`s and writes: three
steps between which anybody else may take theirs, except that handlers of the Studio are turns of one event loop (`LoopTurn`). `Empty` and `Mixed` are what a
reader finds between truncation and write, or after two writers; reading either raises. The lists are written next to the names of their
commands, tools and routes. `queue` and `stream` are the events of the Studio's load and who follows them. `Crash` is the end of a process, the Studio's with its thread.

**Mapping, Migration.** A mapping has collections by table (name, properties, included and excluded columns, term, and a field expression, of which all that matters
is the property it makes), edges, a key separator and type overrides. Edges may have one name. `GenerateDefaultConfig`, `MigrateConfig`, `DiffSchemas`, the mapping diff with its detection of renames, and
`migration_items` are operators. `SaveMapping` is any one edit, those of expressions included, which the mapping diff does not see; `Evolve` another schema and snapshot; `Load` a load of all tables, or of those the request
names (one step here), after which the whole mapping is on record as loaded; `Migrate` and `SelectiveReload` the Studio's and the command's way into an execution: they plan from `loaded` (or,
without it, reload), check, and hand the plan to `RunStep`, one action per action of the plan. `Fails` is an action that raises, also between drop
and reload; `Crash` the end; `End` records what the code records, which is the whole mapping even if the plan left part of what had changed as it was (`Unseen`).

**SourceSessions, Introspection.** `SessionOf` says for each kind when its view is fixed, when the file of a dump is opened, and what an
error leaves of the connection. `history` is every state the source has committed; `session.seen` the one the session is held to.
`Introspection` lists the tables and asks for each one's columns, key and foreign keys, while `Alterations` may happen between any two statements. `reading.catalogs` are the catalogs there have been since the list of tables was read. A key has a name, by which
PostgreSQL's query finds its columns (`KeyRows`): without the table's name, so that those of another table's foreign key of that name come with them.

**OfflineImport.** `dumps` and `jsonl` are the files, `script` the last script generated, `cmd` the command that runs or ran last with what it has left. Reads, dumps
and dump-tables go table by table, transform-all job by job, the script job by job; each may fail at any of them, leaving what it was writing in part. `Into` says which collection, and so which file, a job writes:
edge definitions may share one, and then each empties what the one before it has written. A table without a key has documents, and no edges. `EditMapping` puts other masks into the mapping file between two commands: a column is masked in place,
or renamed and masked, when the mask makes a property beside the one that is in clear, or not at all. Documents carry whether they are in clear, and the mask the mapping had when their file or script was made.

### 2.2 Abstractions

* A row is a key, a nullable foreign key and (in the CDC modules) one other value; a document is its body and
  its `_r2g_lsn`; an edge is its two ends. Formatting of keys is injective (the code's
  own `_edge_key` uses both ends), so ids are tuples; in OfflineImport `Encode` stands for `sanitize_key_component`.
* The text parsers (`parsers.py`, `kafka_parser.py`) are what they return: an event, or
  nothing (`Tombstone`). What Debezium puts on a topic is taken from the parser's tests.
  `HasTids` says whether the plugin reports transaction ids (test_decoding does, the
  wal2json parser sets none).
* LSNs are numbers in log order, and compared through `LexRank`, because the code compares
  them as strings: the MC modules make the first LSN sort after the later ones, as "9"
  does after "10".
* A mapping has table parts, each with a class, and relationship parts, which fall under their start table's
  class; mapping-wide settings are checked like a table without a class (`ProjectWide`).
* Catalog records keep only what another record, a gate or a history depends on: sensitivity, key overlay,
  binding to an external catalog, the snapshot of a project, the mapping on record as loaded.
* In Migration a collection holds one document for each table loaded into it: what differs between the rows of a
  table does not matter to a rename, a drop or a reload.
* One consumer of the topic: rebalancing is left out. One load at a time per Studio, one more process.
* `now_ts()` never goes back, and the next change of the temporal model is made when the
  feed has delivered the others: nothing in the applier looks at the table.
* Changes of a foreign or primary key, replica identities other than FULL and values that
  cannot be coerced are in the models (`ChangeKinds`, `ReplicaIdentity`, `BadVals`) and switched off in the runs:
  the properties of the runs are false with them (section 4).

## 3. The runs

| run | expects | bounds | shows |
|---|---|---|---|
| writer | pass | 2 documents, 3 contents (one refused), 2 retries, both faults | every call ends, with one of the outcomes the other modules assume |
| kafka | pass | 2 rows on 2 partitions, 3 events in transactions of 1–2, batches of ≤ 3, 1 restart, all policies | at-least-once, refinement of DeliveredLog, partition order but for transactions that span partitions, convergence, catching up |
| pg | pass | 2 rows, 3 events in transactions of 1–2, slot before load, 1 interruption, 1 stop, lost replies | at most once, loss only by interruption, convergence over the initial load, catching up |
| temporal | pass | 1 entity, 2 contents, 3 changes, 1 abort, 1 redelivery, 3 ticks, TTL | disjoint versions, attached to proxies, immutable past, current = row |
| outbox | pass | 2 entries (one refused for good), rounds of 1, 2 crashes | never lost, finished for a reason, never back, finished in the end |
| governed | pass | 2 requests, 4 mappings over 2 classes, 1 failure or crash, any remains of earlier processes | saves change only what was checked, keep what they replace, record what they changed, and end |
| pipeline | pass | 2 tables with a foreign key between them, 7 sets of options, both layouts, batches of 1, error lists of 1, 3 loads, 1 commit, 1 fault | rows stored or reported, edges with their ends, a fresh reload, every load ends |
| catalog | pass | one name of each kind, 2 sensitivities, 2 handlers (of 3 actors), 1 crash, 1 poll | projects keep their sources, histories are true, snapshots as strict as sources, loads and streams end |
| migration | pass | 2 tables, 4 schemas, 2 mappings to begin with (one with two edges in a collection), 2 changes of mapping or source, 3 loads or migrations, 4 of these in all, 1 fault | what is on record as loaded is live, migrated configurations fit, writes are checked |
| offline | pass | 3 tables (one without a key), 3 relationships (two in one collection), 3 keys (one illegal), 3 contents, 2 choices of masks, 4 kinds of session and 7 of catalog, 4 commands beside edits, 1 commit, 1 fault | reads of one state, exit codes that are true, masks kept, schemas that are true |
| kafka_swallow | violation | refused writes | a failed delta's offset is committed |
| graph_again | violation | as offline, one kind of source, no fault | a script run again drops what it has loaded |

The runs take between seconds and three minutes; the largest (*offline*) has 6.8 million states, *temporal* 4.7 million,
*pipeline* 1.3 million, *migration* 0.8 million, *kafka* 0.7 million, the others from 4 000 to 600 000.

**Why the bounds are enough.** Three events are an INSERT, an UPDATE and a DELETE of one
row, or an interleaving of two rows: one redelivery then puts any prefix over any later
state, and every pair of delta and document (missing, older, newer, equal) occurs.
Two partitions are what makes a batch interleave; a batch can be cut in its middle
by a crash and by a stop. Two rows in a transaction are the smallest one that a batch
boundary could cut, and three messages on two partitions, two of them of one transaction, the smallest batch whose regrouping moves a message ahead of another
of its partition. Three changes with one abort and one redelivery close a version,
supersede it and close it again, with the feed back at any of them. Rounds of one entry
with two entries are the smallest case in which one entry can starve another; two crashes
let the second hit the recovery from the first. Two requests on a mapping interleave in every way one
lock and one event loop allow, and since earlier processes may have left anything, the remains of a third are there too. Three attempts are a first, a middle and a
last one.

*pipeline*: two tables are documents, edges, and a collection they share (lpg); a batch of one row makes every cut between two batches a
state; with two loads the second meets what the first has left in whole or in part, and it takes a third to build on what a failed second has left of
the first ("emptied" in section 3.1: with two loads it cannot happen); the option sets have each option once, and drop with
one worker, with two, and without the graph. *catalog*: with one name of each kind all handlers are about the same records, which is where they can
hurt each other; two handlers besides the load thread make three managers with the file open at once. *migration*: two edits, or an edit and an
evolution, between a load and two migrations; the second migration starts from whatever the first, or its failure, has left; what a fourth turn adds to that is another load. The schemas
add two references to one table, take the place of one by another, and lose a column and a table; one of the mappings to begin with has edges of tables of different classes in one collection.
*offline*: four commands are a dump, a transformation, a script generated and run; edits of the mapping are not counted, and come between any two. A JSONL file or script of an earlier round is met because each of the four may be
left out or given again; loads, and introspections before any command, are looked at by themselves. SQL Server's and Snowflake's sessions have the same record as the CSV source's and are
not run again. `LogLimit` is 1 for arangoimport's 20: one rejected row logged and one not is the smallest case. Commits happen during reads only,
since nothing else looks at the source.

The parameters named `Max…` and `Never` are the only bounds.

`CHECK_DEADLOCK` is off where the bounded environment stops and the component, having caught up or come to its
end, has nothing to do: in all runs but *writer*.

Types are stated in `TypeOK` of the modules that have processes; for Temporal, Outbox, governed saves and the pipeline they are
proved (section 5).

### 3.1 Properties worth a comment

* `ImplementsDelivery` (kafka): the consumer, with handler and resolver inside, implements
  `DeliveredLog`: acknowledged offsets only grow, and only over messages delivered before.
  Under FAIL, or with values that cannot be coerced, a batch is abandoned with the position
  past it, so a later commit covers it: there commits count for nothing (`Acknowledged`,
  `Gone`), and the same exclusion is in `AtLeastOnce`.
* `CaughtUpMeansMirror` (kafka, pg): with every event applied and none failed, the target
  equals what a full load would make. It is the sum of resolver, transformer and redelivery, and
  holds under source_wins, last_write_wins and log_and_skip alike for inserts,
  updates of contents and deletes. Only the bodies are compared, not the LSN stamps.
  In the run of *kafka* it is said of logs in which no transaction is on two partitions (`Contained`): one that is may overtake another (section 4).
* `PartitionOrder` (kafka) says how far "Preserves Kafka partition ordering" (`kafka_consumer.py:15`) goes: `group_by_transaction` puts a transaction where its first
  message arrived, so a message of it can pass an earlier one of its partition only if the transaction also has a message of another partition, which arrived before that one.
* `OnlyInterruptionsLose` and `AtLeastOnce` (pg): the first holds; the second, which is what
  the PRD says, does not (section 4).
* `IntervalsDisjoint` (temporal) excludes behaviours in which a change is replayed or cut short after TTL
  removed something; `NoPhantomVersion` shows why it has to.
* `CaughtUpMeansCurrent` (temporal) excludes keys used twice: an INSERT after a DELETE finds version 0
  and is ignored.
* `SaveIsChecked` (governed) compares with what is in the file when the save empties it: the lock has to
  hold the comparison and the write together. `HistoryAccounts` says that the entries, read in order,
  explain the file part by part.
* `StreamIsTrue` (CatalogClients) is checked by hand only: a progress stream that says complete follows a load that returned, unless
  the status route took its last event or it looked just before it. `StreamsEnd` is its companion in the run.
* `RowsAccountedFor` (pipeline) is about the rows a job has read: what `--since` and `--include` leave out was not. It holds
  with a faulty target, several workers, and shared collections; the error list of either the collection or the job's own name counts,
  since delegated expressions report under the latter.
* `ReadsAreOneState` (offline) is said of PostgreSQL and MySQL, and of CSV only that it streams the rows it counted.
  Of the others it is false: SQL Server's and ClickHouse's classes claim no snapshot; Snowflake's claims one committed snapshot for the whole session (`snowflake.py:11-15`, `450-452`), which
  its transaction of READ COMMITTED statements does not give; `base.py:71` promises one of every session (section 4).
* `ExitZeroMeansDone` (offline) allows what IMPORT_GUARD documents as its limit (`arangoimport.py:60-65`), edges with a NULL foreign key or of a table without a key (which the edge transformer
  drops, `edge_transformer.py:143-147`), and leaves a script that creates its graph again to `GraphIsCreatedAgain`. Of jobs that write one collection with overwriting, or one file, it is said of the last (`Stays`, `StaysWritten`): the others' edges
  are gone with exit code zero, as `EveryJobLands` shows (section 4).
* `MaskedStaysMasked` (offline): masks may be put in, changed and taken out between any two commands. A document in clear was made under (`under`) no mask, under a mask of a column that is renamed as well, or by transform-nodes without
  `--config` ("unconfigured", `main.py:793`); never under a mask in place. That a mask put in later holds for what was made before is not so (`MaskedNowIsMasked`, section 4).
* `SchemaIsTrue` (offline), of a catalog that is altered while it is read: the columns, the key and the foreign keys of each table are those of catalogs there were, in the order they were asked for, none older than the list of tables; where one
  statement reads all, of one; the foreign keys of partitions, exactly, are at the table they are partitions of.
* `MigratedConfigFits` (migration) is a statement about every mapping and schema the run reaches, with the operators of
  `Mapping`: fixpoint, coverage of every reference, kept names, unique edge names where they were unique and no edge bears the suffixed name of another reference (`SuffixFree`),
  columns left out that stay out unless a list of included ones empties. Without these two conditions it is false (section 4).
* `WritesAreChecked` (migration) leaves out the edges that a reload of a collection drops although the plan does not name their collection, because an edge of the collection's own is in it together with edges of tables of another class
  (`BesideOthers`): these are not checked, as `AllWritesAreChecked` shows (section 4).

Many of these properties exclude something by a *history variable* called `mishaps`. Each is a real hole, which the
model shows when the exclusion is taken away:

| module | mishaps | what happens |
|---|---|---|
| GovernedSave | cut, recreated, orphaned | a process that dies or a disk that is full between the write and the last entry (against PRD P14.11); a second creation of a project while it is saved; a catalog record whose file was never written, which lets a creation overtake a save |
| StreamingPipeline | rejected, moved, resumed, partial, emptied | refused documents leave edges without ends; with several workers each job has its own view of a source that moves; skip_existing takes up a load of an older source or half of one; `--include`, `--since`; a load that drops collection by collection fails between documents and edges, and the edges an earlier load left have lost their ends until all tables have been loaded with drop again: a plain load over them completes |
| CatalogClients | stale, crossed, crash, torn, mixed | somebody wrote between a read and its write; a snapshot was written from a source or an older snapshot that a handler had changed meanwhile; a process died; a reader met the emptied file; two writers met in it |
| CatalogClients | early, polled, raced | a load is on record as running before its connector is made; the status route took the stream's last event; the stream looked at the thread just before its last event |
| Migration | partial, part, unseen, shared, evolved, taken, lost, offline, cli, dropped, overwritten | edits over a migration that did not come to its end; a load of some of the tables, after which the whole mapping is on record as loaded; a change of an expression, which the mapping diff does not see and a migration of something else puts on record; two parts of a mapping in one collection; a source that changed; a step skipped because its name was taken, its collection gone or its source out of reach; a migration by the command, which records nothing; an edge collection dropped after its reload; a property renamed over another |

### 3.2 Fairness, and what justifies it

* *writer*: `WF(Attempt)`: a request returns or times out.
* *kafka*: WF of `Run`, the loop's next step or, when the process is down, `Start`: the loop is sequential and runs while the process does, and an operator brings the process up again.
  *pg*: WF of the steps of the loop, and of `Start`, `Setup` and `Load`. No
  fairness for the source, the broker's `Commit` succeeding, signals or crashes.
* *governed*: WF of each request's steps. A request waits for the lock at most as often as there are other
  requests, so strong fairness is not needed.
* *outbox*: WF of the worker's steps, of `Restart` and of the rewriting of a file (`Retry`); `SF` of *some* thread's `WriteDone` and `Unlink`, since a file operation does not fail every time (an entry whose delivery always raises would stay the oldest, section 4); `SF(Read(t))` for each thread, because a lock
  that is released again and again is handed to each of its waiters; `SF` of *some* thread's
  `Answered`, the control plane answers again and again; `WF` of `Expire`, contexts carry an expiry
  time. Without the last one an entry the control plane refuses to attribute might be retried
  for ever.
* *pipeline*: WF of the run's own steps and of each job's: a load is a thread or a command, and every call of it returns or raises.
* *catalog*: WF of *some* actor taking a step, which is less than each getting its turn (every list of calls is finite, so it is enough), and of the
  stream, which a task of the event loop follows. None for handlers being begun, polls and crashes.
* *temporal*, *migration*, *offline*: safety only.

## 4. Findings

Two places where the code does something else than the repository says of it have runs of their own (`findings` in PROJECT.json):

* **kafka_swallow.** A delta whose write failed on every attempt is counted, and its offset is committed (`cdc/handler.py:141-152`,
  against `cdc/kafka_consumer.py:11`, "Commits offsets only after successful processing").
* **graph_again.** The command that creates the named graph first drops a graph of that name *with its collections*
  (`generators/arangoimport.py:252`), after the script has filled them: a second run ends with exit code zero and empty collections. The
  docstring calls the command idempotent (`arangoimport.py:235`).

The following are stated in the modules next to the properties that hold. Each is false; TLC shows it within a minute or two when it is added to
the cfg as the INVARIANT or PROPERTY, with the change of constants named:

| definition | what it says, and where | what happens |
|---|---|---|
| `KafkaConsumer.NeverOlder` (PROPERTY; only policy last_write_wins) | stale events are rejected by LSN (`cdc/conflict.py:34`, `README.md:644`) | LSNs are compared when an INSERT meets a document, not on REPLACE: a redelivered UPDATE puts an older row over a newer one until its successor comes |
| `KafkaConsumer.NoStaleEdge` (`ChangeKinds = {"insert", "update_fk"}`) | "On UPDATE edges are replaced to reflect new FK values" (`cdc/delta_transformer.py:44`) | the edge of the old value stays |
| `KafkaConsumer.NeverOvertaken` (PROPERTY) | "Preserves Kafka partition ordering" (`cdc/kafka_consumer.py:15`) | a transaction with messages on two partitions is put where the first of them arrived (`cdc/handler.py:289`): the other passes earlier messages of its partition |
| `TemporalApplier.NoPhantomVersion` | a replayed INSERT makes no phantom version (`temporal/applier.py:16`) | it does when version 0 has aged out |
| `PgListener.AtLeastOnce` | at-least-once (`docs/PRD.md:183`) | the slot has moved past the changes of an interrupted batch |
| `StreamingPipeline.ResumedIsWhole` | `--skip-existing` is "for resuming partial runs" (`main.py:979`) | a collection that was loaded in part is skipped |
| `StreamingPipeline.ParallelIsConsistent` | "parallelism does not break read consistency" (`streaming/pipeline.py:8`) | every worker has a session of its own: an edge's end may have been committed between the two |
| `Migration.LoadedIsWhatIsLive` | `loaded_mapping` is the mapping live in the target (`docs/PRD.md:470`) | a load of some tables records the whole mapping (`ui/server.py:1967-1969`, `2047-2048`, `2071-2072`); a change of an expression, which the diff does not see (`mapping_changes.py:14-17`), is recorded by a migration of something else (`ui/server.py:1516-1517`); so is a goal of which a step has dropped what an earlier one reloaded |
| `Migration.AllWritesAreChecked` (PROPERTY) | "migrations are checked on what they write: ... each relationship, on its start table's class" (`mapping_changes.py:19-20`) | the reload of a collection drops the edge collections of its table (`selective_reload.py:182`) with the edges of other classes' tables in them, which the plan does not name |
| `Migration.NamesStayUnique` | an edge whose name is taken gets another (`config_migrate.py:153-157`) | the name with the column's suffix may be taken as well |
| `Migration.LeftOutStaysOut` | migrate-config "preserves user customizations" (`main.py:1295`) | a list of included columns that the new schema empties becomes no list, which means all columns (`config_migrate.py:127`) |
| `OfflineImport.EveryJobLands` | every import that the script says was done was | relationships in one edge collection, which a mapping may have (`mapping_changes.py:71`): the script imports each with `--overwrite true` (`arangoimport.py:937`, `973-1005`), and transform-all opens one file "w" for each (`main.py:409`, `419`); the last one's edges are left |
| `OfflineImport.MaskedNowIsMasked` | a mask destroys or replaces the value (`masking.py:8-12`) | a script or a file from before the mask is run as it is; and a column that has another name is masked under its own, and written in clear under the other (`masking.py:39`, `node_transformer.py:231-234`) |
| `Introspection.KeysAreTheTables` (in *offline*'s cfg; `MaxCommands = 0`) | a table's key is its key (`postgres.py:193-206`) | the query joins on the constraint's name and schema: a foreign key of another table that has the name of the key adds its columns |

Met on the way, without a property of their own:

* `source dump` prints "Done. N CSV files written" (`main.py:2435`) and exits with zero though tables failed; with PostgreSQL a failed
  statement aborts the transaction, and every later table is an emptied file.
* `connectors/base.py:71` promises consistent-snapshot semantics of every session; SQL Server's, Snowflake's, ClickHouse's and the CSV source's have no
  common view of their tables, nor has `dump-tables` of PostgreSQL. Snowflake's own class says it has one (`snowflake.py:11-15`, `450-452`).
* An entry of the outbox that raises what `deliver` does not handle, a file that cannot be read for one, stays the oldest and ends every round of the worker before the others (`governed.py:289-299`, `308-313`).
* transform-edges writes all edges of a table that share a collection to the file it opened last for it.
* A relationship whose start table has no primary key has no edges, with a warning for each row and exit code zero (`edge_transformer.py:143-147`).
* A save cut short leaves an emptied mapping, and the next one is checked against that (`config.py:433`).
* ClickHouse dumps an empty table as a file without a header, which transform-all then raises at. transform-all passes over tables without a dump, and exits with zero.
* Edges loaded from CSV files have no `_key`: a second run without `--overwrite` duplicates them.
* The dead letter queue records a rejected import with an empty row.
* PostgreSQL's query for primary keys has no ORDER BY: the order of a composite key may differ between two introspections.
* `source infer-fks --accept` writes a new snapshot from the schema it had read at its start: a newer snapshot is hidden by it.
* The MCP server's start_load has none of the Studio's gates.

## 5. Theorems

Each is proved for every value of the constants under the assumptions named in the modules.

**TemporalProofs** (assumes `TimesAssumption`, `NoRowAssumption`). The invariant has two halves.
Always: types, stamps that are not in the future and created ≤ expired, one version per number and entity, progress of
the change in hand (what `pc` says of `n` and `now`), proxies there before a version. While
`~ReplayedAfterAging`: an entity with a change between closing and writing has no live version, numbers
start at 0 and grow with time, and the version about to be written comes after all others. The second
half gives `IntervalsDisjoint`, the first `VersionsHaveProxies` and `HistoryUnchanged`.
`CaughtUpIsCurrent` is `Spec => []CaughtUpMeansCurrent`. Its invariant, `CurrentInv`, adds that the changes of an entity begin with an INSERT and that the last of them left what
the table has (`Opened`, `Reopened`, `Recorded`), and that each entity shows what some place of the history left of it: not before the place the feed is at, and that place
itself if the feed never went back (`Shows`). Redelivery moves the feed away from it; a replayed INSERT, or an UPDATE that finds nothing, meets version 0 and leaves it
where it is, which is right because that version can only be of a later place (`ShowsWritten`, with `OfOneLife`: no key is used twice); a replayed UPDATE or DELETE that finds a version sets it to the feed's place.
That what an update writes is not there yet needs that the live version has the highest number (`LiveIsLast`). At the end of the history only one place is left.
TLC had checked the invariant with two entities, four changes and two redeliveries.

**KafkaProofs** (assumes `BoundsAssumption`, the assumptions of ArangoOps and, for its last theorem, `PoliciesAssumption`, `TopicAssumption`, `TableAssumption` and
`TargetAssumption`: partitions belong to keys, a tombstone is no event, no document is no document, rows are at their keys). The
invariant says where each fetched event is: below `position` a message is a tombstone, handled, or in hand
(`todo`, `group`), nothing is in hand when the handler is idle or has finished, and what is in hand lies above
`committed`. From it `CommittedWasHandled` (`AtLeastOnce`) and, action by action, the
refinement: `DeliversTheLog` is `Spec => ImplementsDelivery`, safety part of the
implementation of `DeliveredLog`.
`OrderIsKept` is `Spec => PartitionOrder`, whatever the transactions. It adds that a batch is of the log, each partition of it in the order of arrival (`Arrived`), and that ids do not fall
along a partition (`Stamps`). Of two messages of a partition the later can be handed over first only with its transaction (`OrderStep`): the group is chosen by where its first message arrived, which is before the earlier of
the two; were that first message of the same partition, it would come before both in the log, with the id of the later one, and the earlier, whose id lies between, would be of the transaction too.
`CaughtUpIsMirrored` is `Spec => []CaughtUpMeansMirror` for transactions of one row, or without ids (`MaxRowsPerTxn = 1 \/ ~HasTids`; the run has some of two), when values can be coerced, deletes log the whole old row and updates leave primary and foreign
key alone (`OnlyKinds`; `NoStaleEdge` in section 4 says what a changed foreign key does). Any `Faults` and `BadDocs` are allowed: they show in `failed`. Its invariant, `Shown`, has three parts, which
TLC had checked on the instances of *kafka* before. `Told`: the log of a partition tells the history of each of its rows, so that a row has stood at every place, each event
is a legal change of the one before, and the last is the table's. `AtHand`: what is in hand is all the events from its first to the position, in the order of the log. `Faithful`: each document is
that of the row at some place of the log, since when every event that touches the document and has been read is pending; after a crash, "read" means committed. Redelivery moves that place back, never
past a pending event. The step that matters is a delta that a conflict made void (`ShowsAfter`): an INSERT that left a document which was there, or an update that found none, can only be a
redelivered one, because the place of its document would else be just before the event, where `Legal` says the opposite; so the place already lies at or behind it. `StretchKept`, by the least
counterexample, carries a document over a stretch of the log that does not touch it; the lemmas `Inserted` to `ResolvedItem` say what a delta
leaves under each policy, lost replies and retries included.

**PgProofs** (assumes `SlotAssumption`: no slot is not a position; its last theorem also those of ArangoOps and `PoliciesAssumption`, `TableAssumption`, `TargetAssumption`). The invariant places every change: the slot stands at the end
of a transaction, everything handed out lies at or before it (`Behind`), nothing is in hand between two batches (`Quiet`), and, without an
interruption, whatever the slot has passed since the load is handled or in hand (`InHand`). `HandedOutOnce` (`NeverTwice`) needs
`Behind` alone: a poll hands out what lies after the slot. `StopsLoseNothing` (`OnlyInterruptionsLose`) is `InHand`; it needs `Quiet` because a
listener that stops or polls forgets its batch.
`CaughtUpIsMirrored` is `Spec => []CaughtUpMeansMirror`, for transactions of one or two rows, with or without ids, when values can be coerced and changes are of `OnlyKinds`. Interruptions are
not excluded: a lost change is what the property itself excludes (`Lost = {}`), and a listener that was set up and loaded again has lost none. The invariant, `Shown`, was model-checked on the instance of
*pg* first. `Told` and `Dated`: `wal` tells the history of every row, and the id of a transaction names its first event. `AtHand`: what has been polled and not handled reaches without a gap up to the
slot, the group in progress before the rest, and the groups that are left are whole; so a group is the first event left, perhaps with the next (`FirstGroup`). `InLine`: of a group's deltas the first have been applied, event by
event, and the rest is still to come in that order. That is where this proof differs from Kafka's, whose groups are single messages: between the two events of a transaction a document shows
neither the row before nor the row after it. `Faithful`: while loaded, with nothing lost, failed or raised (`Calm`), each document is that of the row at some place of the log since when every event that
touches the document is in hand (`ShowsAt`). The load sets the place to the end of the log, ahead of the slot, and the changes the slot then brings are older than what is in the target; as with a redelivery,
an INSERT that meets a document, and an update or delete that meets none, leave the place where it is, and `Legal` says why that is right. Once caught up, nothing is in hand, so no event since touches the
document, and by `StretchKept` it is the table's.

**MirrorProofs** has what both proofs of convergence rest on: how a log tells the history of a row (`Tells`, `Stood`, `StretchKept`, `StoodBefore`), what a delta that did not fail makes of its document under each
policy (`Inserted` to `ResolvedItem`), and how a change of the table continues its log.

**CatalogProofs** (assumes `CatalogAssumption`, `ClientsAssumption`). Nothing locks the catalog's file, so its invariants speak of every copy of a catalog that somebody holds: what has been read, what is
about to be written, and the file when it can be read. `HomesInv` gives `ProjectsKeepSources` (`Spec => []ProjectsHaveSources`): each of these catalogs is `Sound`, a
project in it has its source; a creation that has looked for its source in the file it read (`Founding`) still has it there, since it writes that very copy; and the calls of each actor are of the
lists that handlers are made of, which takes a lemma over all of them (`HandlersTyped`). `HistoryStaysTrue` is `Spec => []HistoryIsTrue`. A record is written several calls after the load it is about, from
what the actor remembers, so its invariant, `TrueInv`, is about the lists of calls left to make: in a list that loads (`Chain`) the call that completes a load stands behind the one that
runs it and the call that records a mapping behind a migration or a completion, all about one project; when such a call is next, what it will say has returned (`Ready`); of every catalog
held, what it says has returned (`Told`). Loads are numbered by a clock, and that the number an actor remembers is of the project its calls are about is a fact about the past that no
variable keeps: `prj`, a function from numbers to projects, is a witness of it, and the invariant is that there is one, extended each time a load is opened.
`LatestStaysStrict` is `Spec => []LatestIsAsStrict`: as long as no handler has run into another, and nobody is at work, the latest snapshot of each source is classified as strictly as the source.
Between the write that raises the level of a source and the write of its annotated snapshot this is false, and the Studio may read, capture and write in between; so its invariant, `Calm`, says what
the process still owes (`Due`): a source whose latest snapshot is less strict is the one the process is annotating, to a level the source does not exceed, and the snapshot it has in mind is still there
(`Owed`, `Within`). What others write in place of what they have read keeps that (`Follows`): for each source they leave level and snapshots alone, or leave it with a snapshot as strict, and
they never raise a level, because only commands and tools do (`ProcessOnly`, `SetsLevel`). A copy settled before the process raised the level would undo it, and is what "stale" excludes: who truncates the
file finds in it what it read. The lists are again what makes a handler's memory say something (`Arranged`, `Informed`): a snapshot is made of what was introspected or accepted just before, and a level is followed by
the reading, the annotation and the update of the latest snapshot with nothing in between. That a snapshot is of the source it was read for although the file is written again in between takes a witness like `prj`:
`src`, from the numbers of snapshots to their sources. That the latest snapshot is one (`LatestIs`) is by the least difference to the clock.

**GovernedProofs** (assumes `MappingsAssumption`). Two invariants, for any number of requests. `Inv`, always: who writes holds the lock or, as a creation, the
event loop (`Holding`); a project in the catalog has its file unless one was orphaned, so that no creation writes while a save is under way (`Filed`); between comparing
and emptying, what the policy was asked about is what is in the file, and it is kept (`Checked`); the versions to be named in an entry are kept
(`Versions`). It gives `ReferencesAreKept`, and the two action properties `NothingUnchecked` and `NothingOverwritten`. `History`, while nothing was cut or created
twice: a creation is alone (`Alone`), the items a request will record cover all it changes (`Covering`), and the last entry about each part says what
the file will say once the writer is done, but for the parts it has yet to record (`Accounted`). It gives `HistoryIsComplete`. The lemmas are
about the last entry of a growing sequence, and about changes that go through a third mapping.

**GovernedProofs, outbox** (assumes `OutboxAssumption`). The inductive invariant adds to `OutboxTypeOK` who is where:
a thread past `Read` holds the lock, so there is at most one; the entry it is at is pending until it
unlinks it; in phase "delivered" the entry is in `history`, in phase "undeliverable" it is expired
or invalid, and in phase "unlink" it has its done file. `NeverLost` and `FinishedForAReason` are conjuncts of it;
`StaysFinished` follows because only the holder of the lock rewrites a file, and only one it found pending.

**StreamingProofs** (assumes `PipelineAssumption`: a mapped table's parent is a mapped table, the layout is one of the two, tables are finite). The invariant
relates the stage to the places of the jobs (`Phases`), what a job has in hand to what it read (`Progress`), and what it read to its session's view (`Viewed`). Four of its
parts carry the theorems. `Accounted`: of a row that has left a job's hand there is a document, or the collection has an error; it survives the other jobs because a batch
replaces a document only by one of the same key, which with shared collections includes the table (`Homes`, `BatchStored`). `Linked`: what an edge job reads refers to rows the document jobs have
read: with one worker by the view, with several because nobody committed. `Tied`: a table's edges have their ends, but for those a
load has still to empty (`Stale`) or has failed to ("emptied"); it holds through every step of a load, not only at its end. `Reloaded`: with drop, a table's part of its collection is
exactly what its job has stored. They give `RowsAreAccountedFor`, `NoEdgeDangles` and `ReloadLeavesNothingElse`. `Tied` is how the mishap "emptied" was found: without it
the step that fails a phase does not keep the invariant, and three loads show why.

**StreamingProofs, writer.** `CallsEndAsListed` is `WriterSpec => []OutcomeIsListed`: the bridge between the retry loop and all the modules that
use `WriterOutcomes` instead of it. The invariant says that a call under way has changed nothing, or has left what lost replies may
leave (`UnderWay`). The heart is `PartialTwice`: what a lost reply of an import has left, met by the next attempt, is again something one lost reply could have
left; for the single-document calls, that executing a call on its own effect answers "duplicate", "not found" or changes nothing.

**OfflineProofs** (assumes `OfflineAssumption`). `MasksHold` is `Spec => []MaskedStaysMasked`, whatever edits of the masks come between two commands. The invariant adds that
documents in the files that are in clear were made under no mask in place (`FilesDressed`), and that a script for CSV files, whose documents bear the masks it was generated under, was generated under
none (`ScriptFaithful`): the gate is at the generation, the run comes any number of commands and edits later.
`OneStateIsRead` is `Spec => []ReadsAreOneState`: while a command reads by a snapshot, the state its session is held to is the one all it has noted is of, and
if it is held to none it has noted nothing (`OneState`); a commit only appends, so that state stays where it was, and a failed or cut table leaves the
session's view alone. Of a csv session, the table counted last has its rows in the frame (`Framed`).
`ZeroMeansDone` is `Spec => []ExitZeroMeansDone`: of every job that is not left to do, and whose collection or file no later job that is done overwrites, all is there (`ScriptLands`, `Transforms`). What is left to do is
always the end of the list of jobs, so that a later job overwrites what an earlier one has written and never the other way (`Rest`, `JobsInOrder`, `AfterDone`), tables before relationships (`TablesFirst`).
That an edge which the guard lets pass may be left out needs that no row was rejected of a table whose import is done (`ScriptSteps`): the row's own
key is then legal, and an illegal key it refers to is no row's. The proof makes no use of what was logged: by then a rejected edge is one
of a NULL key, of a table without keys, or of an orphaned illegal one, which the guard may miss as it says of itself.

**Only model-checked.** Liveness (`KeepsCatchingUp`, `EventuallyFinished`, `EveryCallEnds`, `EveryRequestEnds`, `EveryRunEnds`, `LoadsEnd`, `StreamsEnd`): liveness under
fairness and ENABLED are out of TLAPS' reach. `LoadedIsLive`, `MigratedConfigFits` and `WritesAreChecked`: what a reload leaves in the target, and what a migrated configuration holds, is the
result of a fold over tables, and what a fold computes takes an induction over data. `SchemaIsTrue`, which folds over tables and uses paths of a graph.

## 6. Not modelled

* *Temporal queries, schema analysis, LLM assistance, visualizer, Forge*: they build texts, names or schemas from their arguments and hold no state
  across calls; what could be wrong with them is a matter for examples, and that is what their tests are.
* *Security, masking of values, governance reports, external data catalogs, expressions*: pure checks and rewrites of values, or calls to services. Where they gate something
  (masks of a script, classes of a save, a migration or a load, the system database as a target) the gate is an action's guard in the module of what it gates.
* *Within modelled parts*: creation of databases and indexes and smart graphs (writer, pipeline); join tables, composite keys and expressions (transformer); rebalancing
  (Kafka consumer); topology edges between proxies (temporal applier); the check of ontology terms and update_project_metadata (governed saves); encryption and
  modes of the catalog file; awaits of `govern` that only a control plane causes (`ui/server.py:1088`, `1091`, `1128`, `1475`, `1950`), which are turns of the event loop in `GovernedSave` and not in `CatalogClients`; the sensitivity gate of a load, which
  a migration does not apply; a source table that is mapped more than once; more than one foreign key of a table in `OfflineImport`, and the ambiguity of edge keys made of two keys with a separator; a load before the slot (PgListener); conversion of values and connection parameters (connectors); sampling of Kafka topics; reports, exports and argument handling (interfaces).
* Reading the mapping for a migration while a save has emptied it is one step in `Migration`: the plan it would lead to, the drop of everything, is there as the plan for an empty mapping only by
  way of edits.

## 7. Plan

1. Proofs: the steps of `Migration` that reload nothing could be shown to keep `WritesAreChecked`; its reloads, which fold, could not.
2. CDC, wider: values that cannot be coerced, replica identity DEFAULT, changes of primary keys, two consumers and a rebalance, the load before the slot.
3. Temporal: topology edges between proxies; migration and saves composed over one mapping file.
4. Governed saves: ontology terms, which are looked up before the lock is taken.
