---------------------------- MODULE StreamingProofs ----------------------------
(***************************************************************************)
(* Of StreamingPipeline.tla, for any tables, keys, options, number of      *)
(* workers, loads, commits and faults: what a load that completes has      *)
(* stored, that its edges have their ends, and that a load which drops the *)
(* collections leaves what its view holds and nothing else.  And of the    *)
(* writer it stores them with (ArangoWriter.tla): how its calls end when   *)
(* requests and replies are lost.                                          *)
(***************************************************************************)
EXTENDS StreamingPipeline, ArangoWriter, FiniteSetTheorems, TLAPS

(***************************************************************************)
(* The inductive invariant                                                 *)
(***************************************************************************)

Job == [at : Places, read : SUBSET Rows, left : SUBSET Rows, count : Nat]

Before == {"idle", "check", "graphless", "prepare", "open"}
Going(j) == jobs[j].at \in {"prepare", "stream"}
Written(j) == jobs[j].at \in {"stream", "done"}
Finished(j) == jobs[j].at \in {"done", "skipped"}

(* The source, and a view of it, keep their keys and have an end.          *)
Sound(rows) == Consistent(rows) /\ \A t \in Tables : IsFiniteSet(rows[t])
Sourced == Sound(source) /\ Sound(view)

Progress(j) ==
  /\ jobs[j].left \subseteq jobs[j].read /\ IsFiniteSet(jobs[j].left)
  /\ jobs[j].at \in {"queued", "prepare"} => jobs[j].left = jobs[j].read
  /\ jobs[j].at = "done" => jobs[j].left = {}
  /\ jobs[j].at = "skipped" => opts.skip
  /\ jobs[j].at # "queued" => j \in JobsOf(j[1])
Progressing == \A j \in Jobs : Progress(j)

(* Where the load is and where its jobs are.  A job still going when its   *)
(* load has failed belongs to a load that is known to have emptied some    *)
(* collections only, if it emptied any.                                    *)
Phases ==
  /\ stage \in Before => \A j \in Jobs : jobs[j].at = "queued"
  /\ stage = "doc" => \A j \in Jobs : j[1] = "edge" => jobs[j].at = "queued"
  /\ stage \in {"edge", "graph", "completed"} => \A j \in JobsOf("doc") : Finished(j)
  /\ stage \in {"graph", "completed"} => \A j \in JobsOf("edge") : Finished(j)
  /\ \A j \in Jobs : Going(j) =>
       stage = j[1] \/ (stage = "failed" /\ (Piecemeal => "emptied" \in mishaps))
  /\ \A j \in Jobs : j[1] = "edge" /\ jobs[j].at # "queued" => \A i \in JobsOf("doc") : Finished(i)

(* Every row that a job has taken in hand is stored, or reported.          *)
Reported(j) == errors[Home(j)] > 0 \/ errors[<<j[1], j[2]>>] > 0
Present(j, r) == \E d \in target[Home(j)] : SameKey(j, d, DocOf(j, r)) /\ d.table = j[2]
Accounted ==
  ~opts.dry => \A j \in Jobs : Written(j) =>
    Reported(j) \/ \A r \in jobs[j].read \ jobs[j].left : Present(j, r)

(* What follows from what has not gone wrong.                              *)
FirstLoad == runs \in Nat /\ (runs = 0 => stage = "idle" /\ \A c \in Collections : target[c] = {})
NoErrors == "rejected" \notin mishaps => \A c \in Collections : errors[c] = 0
Whole == stage # "idle" /\ "partial" \notin mishaps => opts.only = Tables /\ ~opts.since
NotResumed ==
  "resumed" \notin mishaps => \A j \in Jobs :
    /\ jobs[j].at # "skipped"
    /\ opts.skip /\ layout = "pg" /\ jobs[j].at \in {"queued", "prepare"} => target[j] = {}

Viewed == \A j \in Jobs : jobs[j].at # "queued" =>
  /\ opts.workers = 1 => jobs[j].read = Selected(j, view)
  /\ opts.workers # 1 /\ InProgress /\ "moved" \notin mishaps => jobs[j].read = Selected(j, source)

Untroubled == mishaps \cap {"rejected", "moved", "resumed", "partial"} = {}

(* What the edge jobs read refers to what the document jobs have read.     *)
Linked ==
  Untroubled => \A t \in Linking : jobs[<<"edge", t>>].at # "queued" =>
    \A r \in jobs[<<"edge", t>>].read :
      /\ \E s \in jobs[<<"doc", t>>].read : s.key = r.key
      /\ \E s \in jobs[<<"doc", Parent[t]>>].read : s.key = r.ref

(* The edges of a table have their ends, but for those that a load has     *)
(* still to empty, or has failed to.                                       *)
Stale(t) ==
  IF Piecemeal /\ stage \in {"doc", "edge"}
    THEN jobs[<<"edge", t>>].at \in {"queued", "prepare", "raised"} ELSE "emptied" \in mishaps
EdgeTied(t) == \A e \in target[Home(<<"edge", t>>)] :
  e.table = t => Has(<<"doc", t>>, e.key) /\ Has(<<"doc", Parent[t]>>, e.ref)
Tied == Untroubled => \A t \in Linking : Stale(t) \/ EdgeTied(t)

(* With one worker that drops the collections: a table's part of its       *)
(* collection is what its job has stored.                                  *)
Reload == opts.drop /\ ~opts.skip /\ ~opts.dry /\ opts.workers = 1 /\ "rejected" \notin mishaps
Of(j) == {d \in target[Home(j)] : d.table = j[2]}
Emptied(j) ==
  layout # "pg" /\
    (jobs[j].at = "prepare" \/ (jobs[j].at = "queued" /\ stage \in {"open", "doc", "edge"}))
Reloaded == Reload => \A j \in Jobs : Written(j) \/ Emptied(j) =>
  Of(j) = {DocOf(j, r) : r \in jobs[j].read \ jobs[j].left}

Inv ==
  /\ TypeOK /\ Sourced /\ Progressing /\ Phases /\ Accounted
  /\ FirstLoad /\ NoErrors /\ Whole /\ NotResumed
  /\ Viewed /\ Linked /\ Tied /\ Reloaded

(***************************************************************************)
(* Jobs and their collections                                              *)
(***************************************************************************)

LEMMA JobParts ==
  ASSUME NEW j \in Jobs
  PROVE  /\ j = <<j[1], j[2]>> /\ j[2] \in Tables /\ j[1] \in {"doc", "edge"}
         /\ j[1] = "edge" => j[2] \in Linking
         /\ j \in Collections /\ Home(j) \in Collections
  BY DEF Jobs, Linking, Collections, Home

LEMMA TableJobs ==
  ASSUME NEW t \in Tables
  PROVE  /\ <<"doc", t>> \in Jobs
         /\ t \in Linking => <<"edge", t>> \in Jobs /\ Parent[t] \in Tables /\ <<"doc", Parent[t]>> \in Jobs
  BY PipelineAssumption DEF Jobs, Linking

(* Two jobs that share a collection are of one phase, for two tables.      *)
LEMMA Homes ==
  ASSUME NEW i \in Jobs, NEW j \in Jobs, Home(i) = Home(j)
  PROVE  i[1] = j[1] /\ (i # j => layout # "pg" /\ i[2] # j[2])
  <1>1. CASE layout = "pg" BY <1>1 DEF Home
  <1>2. CASE layout # "pg"
    <2>1. i[1] = j[1] BY <1>2, JobParts DEF Home, Nodes, Links
    <2> QED BY <1>2, <2>1, JobParts
  <1> QED BY <1>1, <1>2

LEMMA DocTyped ==
  ASSUME NEW j \in Jobs, NEW r \in Rows
  PROVE  /\ DocOf(j, r) \in Docs /\ DocOf(j, r).table = j[2]
         /\ DocOf(j, r).key = r.key /\ DocOf(j, r).ref = r.ref
  BY JobParts DEF DocOf, Docs, Rows

(* What the steps of a job do to the types.                                *)
LEMMA StoredTyped ==
  ASSUME TypeOK, NEW j \in Jobs, NEW docs \in SUBSET Docs PROVE Stored(j, docs) \in SUBSET Docs
  BY JobParts DEF TypeOK, Stored

LEMMA JobMoved ==
  ASSUME TypeOK, NEW j \in Jobs, NEW p \in Places, JobAt(j, p)
  PROVE  /\ jobs' \in [Jobs -> Job]
         /\ jobs'[j].at = p /\ jobs'[j].read = jobs[j].read /\ jobs'[j].left = jobs[j].left
         /\ \A i \in Jobs : i # j => jobs'[i] = jobs[i]
  BY DEF TypeOK, Job, JobAt

LEMMA BatchTaken ==
  ASSUME TypeOK, NEW j \in Jobs, IsFiniteSet(jobs[j].left), NEW b \in Batches(j), Streamed(j, b)
  PROVE  /\ b \subseteq jobs[j].left /\ IsFiniteSet(b) /\ b \subseteq Rows
         /\ jobs' \in [Jobs -> Job]
         /\ jobs'[j].at = jobs[j].at /\ jobs'[j].read = jobs[j].read /\ jobs'[j].left = jobs[j].left \ b
         /\ \A i \in Jobs : i # j => jobs'[i] = jobs[i]
  <1>1. b \subseteq jobs[j].left BY DEF Batches
  <1>2. IsFiniteSet(b) BY <1>1, FS_Subset
  <1>3. Cardinality(b) \in Nat BY <1>2, FS_CardinalityType
  <1>4. jobs[j].left \subseteq Rows BY DEF TypeOK
  <1>5. jobs \in [Jobs -> Job] BY DEF TypeOK, Job
  <1> DEFINE n == [at |-> jobs[j].at, read |-> jobs[j].read, left |-> jobs[j].left \ b,
                   count |-> jobs[j].count + Cardinality(b)]
  <1>6. n \in Job BY <1>3, <1>5 DEF Job
  <1>7. n.at = jobs[j].at /\ n.read = jobs[j].read /\ n.left = jobs[j].left \ b OBVIOUS
  <1>8. jobs' = [jobs EXCEPT ![j] = n]
    <2>1. jobs[j] \in Job BY <1>5
    <2>2. ASSUME NEW x \in Job, NEW l, NEW c
          PROVE  [[x EXCEPT !.left = l] EXCEPT !.count = c] =
                 [at |-> x.at, read |-> x.read, left |-> l, count |-> c]
      <3>1. x = [at |-> x.at, read |-> x.read, left |-> x.left, count |-> x.count] BY DEF Job
      <3>2. [x EXCEPT !.left = l] = [at |-> x.at, read |-> x.read, left |-> l, count |-> x.count]
        BY <3>1
      <3>3. [[at |-> x.at, read |-> x.read, left |-> l, count |-> x.count] EXCEPT !.count = c] =
              [at |-> x.at, read |-> x.read, left |-> l, count |-> c]
        OBVIOUS
      <3> QED BY <3>2, <3>3
    <2>3. jobs' = [jobs EXCEPT ![j] = [[jobs[j] EXCEPT !.left = @ \ b]
                                         EXCEPT !.count = jobs[j].count + Cardinality(b)]]
      BY <1>5 DEF Streamed
    <2>4. n = [[jobs[j] EXCEPT !.left = @ \ b] EXCEPT !.count = jobs[j].count + Cardinality(b)]
      BY <2>1, <2>2
    <2> QED BY <2>3, <2>4
  <1> HIDE DEF n
  <1> QED BY <1>1, <1>2, <1>4, <1>5, <1>6, <1>7, <1>8

(***************************************************************************)
(* What storing a batch does                                               *)
(***************************************************************************)

(* Of every key that was there, or is stored, there is a document.         *)
LEMMA StoredCovers ==
  ASSUME NEW j \in Jobs, NEW docs, NEW d \in target[Home(j)] \cup docs
  PROVE  \E e \in Stored(j, docs) : SameKey(j, e, d)
  <1>1. \A x : SameKey(j, x, x) BY DEF SameKey
  <1>2. \A x, y : SameKey(j, x, y) => SameKey(j, y, x) BY DEF SameKey
  <1>3. CASE opts.keep BY <1>1, <1>2, <1>3 DEF Stored
  <1>4. CASE ~opts.keep BY <1>1, <1>2, <1>4 DEF Stored
  <1> QED BY <1>3, <1>4

LEMMA StoredOnly ==
  ASSUME NEW j \in Jobs, NEW docs
  PROVE  Stored(j, docs) \subseteq target[Home(j)] \cup docs
  BY DEF Stored

(* A batch of one job takes nothing away from what another has stored.     *)
LEMMA BatchStored ==
  ASSUME TypeOK, NEW j \in Jobs, NEW b \in SUBSET Rows, UNCHANGED <<layout, opts>>,
         target' = [target EXCEPT ![Home(j)] = Stored(j, {DocOf(j, r) : r \in b})]
  PROVE  /\ target' \in [Collections -> SUBSET Docs]
         /\ \A c \in Collections : c # Home(j) => target'[c] = target[c]
         /\ target'[Home(j)] = Stored(j, {DocOf(j, r) : r \in b})
         /\ \A i \in Jobs : Home(i)' = Home(i)
         /\ \A i \in Jobs : \A r : Present(i, r) => Present(i, r)'
         /\ \A r \in b : Present(j, r)'
         /\ \A i \in Jobs : \A k : Has(i, k) => Has(i, k)'
  <1> DEFINE docs == {DocOf(j, r) : r \in b}
  <1>1. docs \in SUBSET Docs BY DocTyped
  <1>2. Stored(j, docs) \in SUBSET Docs BY <1>1, StoredTyped
  <1>3. Home(j) \in Collections /\ target \in [Collections -> SUBSET Docs] BY JobParts DEF TypeOK
  <1>4. \A c \in Collections : target'[c] = IF c = Home(j) THEN Stored(j, docs) ELSE target[c]
    BY <1>3
  <1>5. target' \in [Collections -> SUBSET Docs] BY <1>2, <1>3
  <1>6. \A i \in Jobs : Home(i)' = Home(i) /\ Home(i) \in Collections BY JobParts DEF Home
  <1>7. \A d \in target[Home(j)] \cup docs : \E e \in Stored(j, docs) : SameKey(j, e, d)
    BY StoredCovers
  <1> HIDE DEF docs
  <1>8. ASSUME NEW i \in Jobs, NEW d \in target[Home(i)]
        PROVE  \E e \in target'[Home(i)] : SameKey(i, e, d)
    <2>1. CASE Home(i) # Home(j)
      <3>1. d \in target'[Home(i)] BY <1>4, <1>6, <2>1
      <3> QED BY <3>1 DEF SameKey
    <2>2. CASE Home(i) = Home(j)
      <3>1. i[1] = j[1] BY <2>2, Homes
      <3>2. PICK e \in Stored(j, docs) : SameKey(j, e, d) BY <1>7, <2>2
      <3>3. e \in target'[Home(i)] BY <1>4, <1>6, <2>2
      <3> QED BY <3>1, <3>2, <3>3 DEF SameKey
    <2> QED BY <2>1, <2>2
  <1>9. ASSUME NEW i \in Jobs, NEW r, Present(i, r) PROVE Present(i, r)'
    <2>1. PICK d \in target[Home(i)] : SameKey(i, d, DocOf(i, r)) /\ d.table = i[2]
      BY <1>9 DEF Present
    <2>2. PICK e \in target'[Home(i)] : SameKey(i, e, d) BY <1>8
    <2> QED BY <1>6, <2>1, <2>2 DEF Present, SameKey, DocOf
  <1>10. ASSUME NEW r \in b PROVE Present(j, r)'
    <2>1. DocOf(j, r) \in docs BY DEF docs
    <2>2. PICK e \in Stored(j, docs) : SameKey(j, e, DocOf(j, r)) BY <1>7, <2>1
    <2>3. e \in target'[Home(j)] BY <1>4, <1>6
    <2> QED BY <1>6, <2>2, <2>3 DEF Present, SameKey, DocOf
  <1>11. ASSUME NEW i \in Jobs, NEW k, Has(i, k) PROVE Has(i, k)'
    <2>1. PICK d \in target[Home(i)] : d.table = i[2] /\ d.key = k BY <1>11 DEF Has
    <2>2. PICK e \in target'[Home(i)] : SameKey(i, e, d) BY <1>8
    <2> QED BY <1>6, <2>1, <2>2 DEF Has, SameKey
  <1>12. target'[Home(j)] = Stored(j, {DocOf(j, r) : r \in b}) BY <1>3
  <1>13. \A c \in Collections : c # Home(j) => target'[c] = target[c] BY <1>4
  <1> QED BY <1>5, <1>6, <1>9, <1>10, <1>11, <1>12, <1>13

(***************************************************************************)
(* What any step of a job does: where it goes, and what it changes in      *)
(* common.                                                                 *)
(***************************************************************************)

Sight(j) == Selected(j, IF opts.workers = 1 THEN view ELSE source)

Starts(j) ==
  /\ MayStart(j) /\ jobs'[j].at = "prepare"
  /\ jobs'[j].read = Sight(j) /\ jobs'[j].left = jobs'[j].read
Prepares(j) ==
  /\ jobs[j].at = "prepare" /\ jobs'[j].at \in {"stream", "skipped", "raised"}
  /\ jobs'[j].read = jobs[j].read /\ jobs'[j].left = jobs[j].left
  /\ jobs'[j].at = "skipped" => opts.skip /\ layout = "pg" /\ target[j] # {}
Streams(j) ==
  /\ jobs[j].at = "stream" /\ jobs'[j].at \in {"stream", "done", "raised"}
  /\ jobs'[j].read = jobs[j].read /\ jobs'[j].left \subseteq jobs[j].left
  /\ jobs'[j].at = "done" => jobs'[j].left = {}

Reports ==
  /\ mishaps' = mishaps \cup {"rejected"} /\ errors' \in [Collections -> 0 .. ErrorCap]
  /\ \A c \in Collections : errors[c] <= errors'[c]

JobChange(j) ==
  /\ UNCHANGED <<source, layout, stage, opts, view, runs>>
  /\ jobs' \in [Jobs -> Job] /\ \A i \in Jobs : i # j => jobs'[i] = jobs[i]
  /\ Starts(j) \/ Prepares(j) \/ Streams(j)
  /\ UNCHANGED <<mishaps, errors>> \/ Reports
  /\ graph' \in BOOLEAN /\ dead' \subseteq Letter

Drops(j) ==
  jobs[j].at = "prepare" /\ jobs'[j].at = "stream" /\ Piecemeal /\ target' = [target EXCEPT ![j] = {}]
Stores(j) ==
  /\ jobs[j].at = "stream" /\ ~opts.dry
  /\ \E s \in SUBSET jobs[j].left : target' = [target EXCEPT ![Home(j)] = Stored(j, {DocOf(j, r) : r \in s})]
TargetChange(j) ==
  \/ UNCHANGED target /\ (jobs[j].at = "prepare" /\ jobs'[j].at = "stream" => ~Piecemeal)
  \/ Drops(j)
  \/ Stores(j)

LEMMA SelectedPart ==
  ASSUME NEW j \in Jobs, NEW rows \in Contents, \A t \in Tables : IsFiniteSet(rows[t])
  PROVE  Selected(j, rows) \subseteq rows[j[2]] /\ Selected(j, rows) \subseteq Rows
         /\ IsFiniteSet(Selected(j, rows))
  <1>1. Selected(j, rows) \subseteq rows[j[2]] BY DEF Selected
  <1>2. j[2] \in Tables BY JobParts
  <1>3. IsFiniteSet(Selected(j, rows)) BY <1>1, <1>2, FS_Subset
  <1> QED BY <1>1, <1>2, <1>3 DEF Contents

LEMMA SightPart ==
  ASSUME TypeOK, Sourced, NEW j \in Jobs
  PROVE  Sight(j) \subseteq Rows /\ IsFiniteSet(Sight(j))
  BY SelectedPart DEF TypeOK, Sourced, Sound, Sight

LEMMA StartStep ==
  ASSUME TypeOK, Sourced, NEW j \in Jobs, Start(j)
  PROVE  JobChange(j) /\ TargetChange(j)
  <1> DEFINE n == [Idle EXCEPT !.at = "prepare", !.read = Sight(j), !.left = Sight(j)]
  <1>1. jobs' = [jobs EXCEPT ![j] = n] BY DEF Start, Sight
  <1>2. n.at = "prepare" /\ n.read = Sight(j) /\ n.left = Sight(j) BY DEF Idle
  <1>3. n \in Job
    <2>1. Sight(j) \in SUBSET Rows /\ "prepare" \in Places /\ 0 \in Nat BY SightPart DEF Places
    <2> HIDE DEF Sight
    <2> QED BY <2>1 DEF Job, Idle
  <1>4. jobs \in [Jobs -> Job] BY DEF TypeOK, Job
  <1>5. jobs' \in [Jobs -> Job] /\ jobs'[j] = n /\ \A i \in Jobs : i # j => jobs'[i] = jobs[i]
    BY <1>1, <1>3, <1>4
  <1>6. Starts(j)
    <2>1. MayStart(j) BY DEF Start
    <2> HIDE DEF n
    <2> QED BY <1>2, <1>5, <2>1 DEF Starts
  <1>7. jobs[j].at = "queued" BY DEF Start, MayStart
  <1>8. UNCHANGED <<source, layout, stage, opts, view, runs, mishaps, errors, graph, dead, target>>
    BY DEF Start, database, bounds
  <1> QED BY <1>5, <1>6, <1>7, <1>8 DEF JobChange, TargetChange, TypeOK

LEMMA PrepareStep ==
  ASSUME TypeOK, NEW j \in Jobs, PrepareCollection(j)
  PROVE  JobChange(j) /\ TargetChange(j)
  <1> USE DEF OwnsCollection
  <1>1. UNCHANGED <<source, layout, stage, opts, view, runs, mishaps, errors, graph, dead>>
    BY DEF PrepareCollection
  <1>2. jobs[j].at = "prepare" BY DEF PrepareCollection
  <1>3. layout = "pg" => Home(j) = j BY DEF Home
  <1>4. \/ JobAt(j, "stream") /\ UNCHANGED target /\ ~Piecemeal
        \/ JobAt(j, "skipped") /\ opts.skip /\ layout = "pg" /\ target[j] # {} /\ UNCHANGED target
        \/ JobAt(j, "raised") /\ UNCHANGED target
        \/ JobAt(j, "stream") /\ Piecemeal /\ target' = [target EXCEPT ![j] = {}]
    BY <1>3 DEF PrepareCollection, Piecemeal
  <1>5. {"stream", "skipped", "raised"} \subseteq Places BY DEF Places
  <1>6. CASE JobAt(j, "stream") /\ UNCHANGED target /\ ~Piecemeal
    BY <1>1, <1>2, <1>5, <1>6, JobMoved DEF JobChange, TargetChange, Prepares, TypeOK
  <1>7. CASE JobAt(j, "skipped") /\ opts.skip /\ layout = "pg" /\ target[j] # {} /\ UNCHANGED target
    BY <1>1, <1>2, <1>5, <1>7, JobMoved DEF JobChange, TargetChange, Prepares, TypeOK
  <1>8. CASE JobAt(j, "raised") /\ UNCHANGED target
    BY <1>1, <1>2, <1>5, <1>8, JobMoved DEF JobChange, TargetChange, Prepares, TypeOK
  <1>9. CASE JobAt(j, "stream") /\ Piecemeal /\ target' = [target EXCEPT ![j] = {}]
    BY <1>1, <1>2, <1>5, <1>9, JobMoved DEF JobChange, TargetChange, Drops, Prepares, TypeOK
  <1> QED BY <1>4, <1>6, <1>7, <1>8, <1>9

(* A batch is stored, or what has become of it is reported.                *)
Batch(j) == target' = [target EXCEPT ![Home(j)] =
                         Stored(j, {DocOf(j, r) : r \in jobs[j].left \ jobs'[j].left})]
Books(j) ==
  /\ jobs[j].at = "stream" /\ jobs'[j].at = "stream" => (Reports /\ Reported(j)') \/ opts.dry \/ Batch(j)
  /\ jobs[j].at = "stream" /\ jobs'[j].at = "done" => jobs[j].left = {} /\ UNCHANGED target

LEMMA StreamBatchStep ==
  ASSUME TypeOK, NEW j \in Jobs, Progress(j), StreamBatch(j)
  PROVE  JobChange(j) /\ TargetChange(j) /\ Books(j)
  <1>1. UNCHANGED <<source, layout, stage, opts, view, runs, mishaps, errors, graph, dead>>
    BY DEF StreamBatch, bounds
  <1>2. jobs[j].at = "stream" /\ IsFiniteSet(jobs[j].left) BY DEF StreamBatch, Progress
  <1>3. PICK b \in Batches(j) :
          /\ Streamed(j, b)
          /\ target' = IF opts.dry THEN target
                       ELSE [target EXCEPT ![Home(j)] = Stored(j, {DocOf(j, r) : r \in b})]
    BY DEF StreamBatch
  <1>4. /\ b \subseteq jobs[j].left /\ jobs' \in [Jobs -> Job]
        /\ jobs'[j].at = "stream" /\ jobs'[j].read = jobs[j].read /\ jobs'[j].left = jobs[j].left \ b
        /\ \A i \in Jobs : i # j => jobs'[i] = jobs[i]
    BY <1>2, <1>3, BatchTaken
  <1>5. jobs[j].left \ jobs'[j].left = b BY <1>4
  <1>6. JobChange(j) BY <1>1, <1>2, <1>4 DEF JobChange, Streams, TypeOK
  <1>7. (opts.dry /\ UNCHANGED target) \/ (~opts.dry /\ Batch(j)) BY <1>3, <1>5 DEF Batch
  <1>8. TargetChange(j) BY <1>2, <1>3, <1>4 DEF TargetChange, Stores
  <1> QED BY <1>4, <1>6, <1>7, <1>8 DEF Books

(* A list of errors that grows has an error.                               *)
LEMMA ErrorListed ==
  ASSUME TypeOK, NEW c \in Collections, NEW letters, letters \subseteq Letter,
         NEW n \in Nat \ {0}, Rejected(c, letters, n)
  PROVE  Reports /\ errors'[c] > 0 /\ dead' \subseteq Letter
  <1>1. ErrorCap \in Nat \ {0} BY PipelineAssumption
  <1>2. errors \in [Collections -> 0 .. ErrorCap] /\ dead \subseteq Letter BY DEF TypeOK
  <1>3. errors' = [errors EXCEPT ![c] = Capped(@ + n)] /\ mishaps' = mishaps \cup {"rejected"}
        /\ dead' \in {dead, dead \cup letters}
    BY DEF Rejected
  <1>4. \A m \in 0 .. ErrorCap : Capped(m + n) \in 0 .. ErrorCap /\ Capped(m + n) > 0 /\ m <= Capped(m + n)
    BY <1>1 DEF Capped
  <1>5. errors' \in [Collections -> 0 .. ErrorCap] BY <1>2, <1>3, <1>4
  <1>6. \A d \in Collections : errors[d] <= errors'[d] BY <1>1, <1>2, <1>3, <1>4
  <1>7. errors'[c] > 0 BY <1>2, <1>3, <1>4
  <1> QED BY <1>2, <1>3, <1>5, <1>6, <1>7 DEF Reports

LEMMA ImportPartlyStep ==
  ASSUME TypeOK, NEW j \in Jobs, Progress(j), ImportPartly(j)
  PROVE  JobChange(j) /\ TargetChange(j) /\ Books(j)
  <1>1. UNCHANGED <<source, layout, stage, opts, view, runs, graph>> BY DEF ImportPartly
  <1>2. jobs[j].at = "stream" /\ IsFiniteSet(jobs[j].left) /\ ~opts.dry BY DEF ImportPartly, Progress
  <1>3. PICK b \in Batches(j) : \E refused \in (SUBSET b) \ {{}} :
          /\ Streamed(j, b)
          /\ target' = [target EXCEPT ![Home(j)] = Stored(j, {DocOf(j, r) : r \in b \ refused})]
          /\ Rejected(Home(j), {<<Home(j), NoRef>>}, Cardinality(refused))
    BY DEF ImportPartly
  <1>r. PICK refused \in (SUBSET b) \ {{}} :
        /\ target' = [target EXCEPT ![Home(j)] = Stored(j, {DocOf(j, r) : r \in b \ refused})]
        /\ Rejected(Home(j), {<<Home(j), NoRef>>}, Cardinality(refused))
    BY <1>3
  <1>4. /\ b \subseteq jobs[j].left /\ IsFiniteSet(b) /\ jobs' \in [Jobs -> Job]
        /\ jobs'[j].at = "stream" /\ jobs'[j].read = jobs[j].read /\ jobs'[j].left = jobs[j].left \ b
        /\ \A i \in Jobs : i # j => jobs'[i] = jobs[i]
    BY <1>2, <1>3, BatchTaken
  <1>5. Cardinality(refused) \in Nat \ {0}
    <2>1. IsFiniteSet(refused) /\ refused # {} BY <1>r, <1>4, FS_Subset
    <2> QED BY <2>1, FS_CardinalityType, FS_EmptySet
  <1>6. Home(j) \in Collections BY JobParts
  <1>7. {<<Home(j), NoRef>>} \subseteq Letter BY <1>6 DEF Letter
  <1>8. Reports /\ errors'[Home(j)] > 0 /\ dead' \subseteq Letter BY <1>r, <1>5, <1>6, <1>7, ErrorListed
  <1>9. Home(j)' = Home(j) BY <1>1 DEF Home
  <1>10. Reported(j)' BY <1>8, <1>9 DEF Reported
  <1>11. JobChange(j) BY <1>1, <1>2, <1>4, <1>8 DEF JobChange, Streams, TypeOK
  <1>12. TargetChange(j)
    <2>1. b \ refused \in SUBSET jobs[j].left BY <1>4
    <2> QED BY <1>2, <1>r, <2>1 DEF TargetChange, Stores
  <1> QED BY <1>4, <1>8, <1>10, <1>11, <1>12 DEF Books

LEMMA DelegationStep ==
  ASSUME TypeOK, NEW j \in Jobs, Progress(j), DelegationFails(j)
  PROVE  JobChange(j) /\ TargetChange(j) /\ Books(j)
  <1>1. UNCHANGED <<source, layout, stage, opts, view, runs, graph, target>> BY DEF DelegationFails
  <1>2. jobs[j].at = "stream" /\ IsFiniteSet(jobs[j].left) /\ j[1] = "doc" BY DEF DelegationFails, Progress
  <1>3. PICK b \in Batches(j) :
          /\ Streamed(j, b)
          /\ Rejected(<<"doc", j[2]>>, {<<<<"doc", j[2]>>, DocOf(j, r)>> : r \in b}, 1)
    BY DEF DelegationFails
  <1>4. /\ b \subseteq jobs[j].left /\ b \subseteq Rows /\ jobs' \in [Jobs -> Job]
        /\ jobs'[j].at = "stream" /\ jobs'[j].read = jobs[j].read /\ jobs'[j].left = jobs[j].left \ b
        /\ \A i \in Jobs : i # j => jobs'[i] = jobs[i]
    BY <1>2, <1>3, BatchTaken
  <1>5. <<"doc", j[2]>> \in Collections BY <1>2, JobParts
  <1>6. {<<<<"doc", j[2]>>, DocOf(j, r)>> : r \in b} \subseteq Letter
    BY <1>4, <1>5, DocTyped DEF Letter
  <1>7. Reports /\ errors'[<<"doc", j[2]>>] > 0 /\ dead' \subseteq Letter
    <2> DEFINE letters == {<<<<"doc", j[2]>>, DocOf(j, r)>> : r \in b}
    <2> HIDE DEF letters
    <2>1. Rejected(<<"doc", j[2]>>, letters, 1) /\ letters \subseteq Letter BY <1>3, <1>6 DEF letters
    <2> QED BY <1>5, <2>1, ErrorListed
  <1>8. Reported(j)' BY <1>2, <1>7 DEF Reported
  <1>9. JobChange(j) BY <1>1, <1>2, <1>4, <1>7 DEF JobChange, Streams, TypeOK
  <1>10. TargetChange(j) BY <1>1, <1>2 DEF TargetChange
  <1> QED BY <1>4, <1>7, <1>8, <1>9, <1>10 DEF Books

LEMMA RaiseStep ==
  ASSUME TypeOK, NEW j \in Jobs, Progress(j), JobRaises(j)
  PROVE  JobChange(j) /\ TargetChange(j) /\ Books(j)
  <1>1. UNCHANGED <<source, layout, stage, opts, view, runs, mishaps, errors, graph, dead>>
    BY DEF JobRaises
  <1>2. jobs[j].at \in {"prepare", "stream"} /\ JobAt(j, "raised") BY DEF JobRaises
  <1>3. /\ jobs' \in [Jobs -> Job] /\ jobs'[j].at = "raised" /\ jobs'[j].read = jobs[j].read
        /\ jobs'[j].left = jobs[j].left /\ \A i \in Jobs : i # j => jobs'[i] = jobs[i]
    BY <1>2, JobMoved DEF Places
  <1>4. JobChange(j) BY <1>1, <1>2, <1>3 DEF JobChange, Prepares, Streams, TypeOK
  <1>5. UNCHANGED target \/ Stores(j)
    <2>1. UNCHANGED target \/
            /\ jobs[j].at = "stream" /\ ~opts.dry
            /\ \E b \in Batches(j) : \E s \in SUBSET b :
                 target' = [target EXCEPT ![Home(j)] = Stored(j, {DocOf(j, r) : r \in s})]
      BY DEF JobRaises
    <2>2. \A b \in Batches(j) : SUBSET b \subseteq SUBSET jobs[j].left BY DEF Batches
    <2> QED BY <2>1, <2>2 DEF Stores
  <1> QED BY <1>3, <1>4, <1>5 DEF TargetChange, Books

LEMMA FinishStep ==
  ASSUME TypeOK, NEW j \in Jobs, FinishJob(j)
  PROVE  JobChange(j) /\ TargetChange(j) /\ Books(j)
  <1>1. UNCHANGED <<source, layout, stage, opts, view, runs, mishaps, errors, graph, dead, target>>
    BY DEF FinishJob, database, bounds
  <1>2. jobs[j].at = "stream" /\ jobs[j].left = {} /\ JobAt(j, "done") BY DEF FinishJob
  <1>3. /\ jobs' \in [Jobs -> Job] /\ jobs'[j].at = "done" /\ jobs'[j].read = jobs[j].read
        /\ jobs'[j].left = jobs[j].left /\ \A i \in Jobs : i # j => jobs'[i] = jobs[i]
    BY <1>2, JobMoved DEF Places
  <1> QED BY <1>1, <1>2, <1>3 DEF JobChange, TargetChange, Streams, Books, TypeOK

LEMMA JobSteps ==
  ASSUME TypeOK, Sourced, Progressing, NEW j \in Jobs, JobStep(j)
  PROVE  JobChange(j) /\ TargetChange(j) /\ Books(j)
  <1>1. Progress(j) BY DEF Progressing
  <1>2. CASE Start(j)
    <2>1. jobs[j].at = "queued" BY <1>2 DEF Start, MayStart
    <2> QED BY <1>2, <2>1, StartStep DEF Books
  <1>3. CASE PrepareCollection(j)
    <2>1. jobs[j].at = "prepare" BY <1>3 DEF PrepareCollection
    <2> QED BY <1>3, <2>1, PrepareStep DEF Books
  <1> QED BY <1>1, <1>2, <1>3, StreamBatchStep, ImportPartlyStep, DelegationStep, RaiseStep, FinishStep
       DEF JobStep

(***************************************************************************)
(* A step of a job keeps the invariant                                     *)
(***************************************************************************)

LEMMA JobTarget ==
  ASSUME TypeOK, NEW j \in Jobs, JobChange(j), TargetChange(j)
  PROVE  /\ target' \in [Collections -> SUBSET Docs]
         /\ \A i \in Jobs : Home(i)' = Home(i)
         /\ Drops(j) => /\ layout = "pg" /\ target'[j] = {}
                        /\ \A c \in Collections : c # j => target'[c] = target[c]
         /\ ~Drops(j) => /\ \A i \in Jobs : \A r : Present(i, r) => Present(i, r)'
                         /\ \A i \in Jobs : \A k : Has(i, k) => Has(i, k)'
  <1>1. \A i \in Jobs : Home(i)' = Home(i) BY DEF JobChange, Home
  <1>2. target \in [Collections -> SUBSET Docs] /\ j \in Collections BY JobParts DEF TypeOK
  <1>3. CASE Drops(j) BY <1>1, <1>2, <1>3 DEF Drops, Piecemeal
  <1>4. CASE UNCHANGED target /\ ~Drops(j)
    BY <1>1, <1>2, <1>4 DEF Present, Has, SameKey, DocOf
  <1>5. CASE Stores(j) /\ ~Drops(j)
    <2>1. PICK s \in SUBSET jobs[j].left :
            target' = [target EXCEPT ![Home(j)] = Stored(j, {DocOf(j, r) : r \in s})]
      BY <1>5 DEF Stores
    <2>2. s \in SUBSET Rows BY <2>1 DEF TypeOK
    <2>3. UNCHANGED <<layout, opts>> BY DEF JobChange
    <2> QED BY <1>1, <1>5, <2>1, <2>2, <2>3, BatchStored
  <1> QED BY <1>3, <1>4, <1>5 DEF TargetChange

LEMMA JobTypes ==
  ASSUME Inv, NEW j \in Jobs, JobChange(j), TargetChange(j)
  PROVE  TypeOK'
  <1>1. TypeOK BY DEF Inv
  <1>2. target' \in [Collections -> SUBSET Docs] BY <1>1, JobTarget
  <1> QED BY <1>1, <1>2 DEF TypeOK, JobChange, Job, Reports

LEMMA JobProgress ==
  ASSUME Inv, NEW j \in Jobs, JobChange(j)
  PROVE  Progressing'
  <1> SUFFICES ASSUME NEW i \in Jobs PROVE Progress(i)' BY DEF Progressing
  <1>1. Progress(i) /\ Progress(j) BY DEF Inv, Progressing
  <1>2. UNCHANGED opts /\ (i # j => jobs'[i] = jobs[i]) BY DEF JobChange
  <1>3. \A phase : JobsOf(phase)' = JobsOf(phase) BY <1>2 DEF JobsOf
  <1>4. CASE i # j BY <1>1, <1>2, <1>3, <1>4 DEF Progress
  <1>5. CASE i = j /\ Starts(j)
    <2>1. IsFiniteSet(Sight(j)) BY SightPart DEF Inv
    <2>2. j \in JobsOf(j[1]) BY <1>5 DEF Starts, MayStart
    <2> QED BY <1>3, <1>5, <2>1, <2>2 DEF Progress, Starts
  <1>6. CASE i = j /\ Prepares(j) BY <1>1, <1>3, <1>6, <1>2 DEF Progress, Prepares
  <1>7. CASE i = j /\ Streams(j)
    <2>1. IsFiniteSet(jobs'[j].left) BY <1>1, <1>7, FS_Subset DEF Progress, Streams
    <2> QED BY <1>1, <1>3, <1>7, <2>1 DEF Progress, Streams
  <1> QED BY <1>4, <1>5, <1>6, <1>7 DEF JobChange

LEMMA JobPhases ==
  ASSUME Inv, NEW j \in Jobs, JobChange(j)
  PROVE  Phases'
  <1> USE DEF Going, Finished
  <1>1. Phases BY DEF Inv
  <1>2. UNCHANGED <<opts, stage, layout>> /\ \A i \in Jobs : i # j => jobs'[i] = jobs[i]
    BY DEF JobChange
  <1>3. mishaps \subseteq mishaps' BY DEF JobChange, Reports
  <1>4. \A phase : JobsOf(phase)' = JobsOf(phase) /\ JobsOf(phase) \subseteq Jobs BY <1>2 DEF JobsOf
  <1>5. (Piecemeal' <=> Piecemeal) BY <1>2 DEF Piecemeal
  <1>6. jobs[j].at \in {"queued", "prepare", "stream"} /\ ~Finished(j)
    BY DEF JobChange, Starts, MayStart, Prepares, Streams
  <1>7. \/ jobs[j].at = "queued" /\ stage = j[1] /\ jobs'[j].at = "prepare"
        \/ Going(j)
    BY DEF JobChange, Starts, MayStart, Prepares, Streams
  <1>8. j[1] \in {"doc", "edge"} BY JobParts
  <1>9. stage \notin Before BY <1>1, <1>6, <1>7, <1>8 DEF Phases, Before
  <1>10. stage = "doc" => j[1] # "edge" BY <1>1, <1>7 DEF Phases
  <1>11. \A phase : (\A i \in JobsOf(phase) : Finished(i)) => \A i \in JobsOf(phase) : Finished(i)'
    BY <1>2, <1>4, <1>6
  <1>12. Going(j)' => stage = j[1] \/ (stage = "failed" /\ (Piecemeal => "emptied" \in mishaps))
    BY <1>1, <1>7 DEF Phases
  <1>13. j[1] = "edge" => \A i \in JobsOf("doc") : Finished(i)
    BY <1>1, <1>7 DEF Phases
  <1> HIDE DEF Going, Finished
  <1>14. \A i \in Jobs : i # j => (Going(i)' <=> Going(i)) BY <1>2 DEF Going
  <1>15. (stage \in Before => \A i \in Jobs : jobs[i].at = "queued")'
    BY <1>2, <1>9
  <1>16. (stage = "doc" => \A i \in Jobs : i[1] = "edge" => jobs[i].at = "queued")'
    BY <1>1, <1>2, <1>10 DEF Phases
  <1>17. (stage \in {"edge", "graph", "completed"} => \A i \in JobsOf("doc") : Finished(i))'
    BY <1>1, <1>2, <1>4, <1>11 DEF Phases
  <1>18. (stage \in {"graph", "completed"} => \A i \in JobsOf("edge") : Finished(i))'
    BY <1>1, <1>2, <1>4, <1>11 DEF Phases
  <1>19. (\A i \in Jobs : Going(i) =>
           stage = i[1] \/ (stage = "failed" /\ (Piecemeal => "emptied" \in mishaps)))'
    BY <1>1, <1>2, <1>3, <1>5, <1>12, <1>14 DEF Phases
  <1>20. (\A i \in Jobs : i[1] = "edge" /\ jobs[i].at # "queued" => \A k \in JobsOf("doc") : Finished(k))'
    BY <1>1, <1>2, <1>4, <1>11, <1>13 DEF Phases
  <1> QED BY <1>15, <1>16, <1>17, <1>18, <1>19, <1>20 DEF Phases

LEMMA JobAccounted ==
  ASSUME Inv, NEW j \in Jobs, JobChange(j), TargetChange(j), Books(j)
  PROVE  Accounted'
  <1> SUFFICES ASSUME ~opts'.dry, NEW i \in Jobs, Written(i)'
               PROVE  Reported(i)' \/ \A r \in jobs'[i].read \ jobs'[i].left : Present(i, r)'
    BY DEF Accounted
  <1>1. TypeOK /\ Accounted /\ Progress(j) BY DEF Inv, Progressing
  <1>2. UNCHANGED <<opts, layout>> /\ \A k \in Jobs : k # j => jobs'[k] = jobs[k] BY DEF JobChange
  <1>3. \A k \in Jobs : Home(k)' = Home(k) /\ Home(k) \in Collections /\ <<k[1], k[2]>> \in Collections
    BY <1>1, JobTarget, JobParts
  <1>4. \A k \in Jobs : Reported(k) => Reported(k)'
    <2>1. \A c \in Collections : errors[c] > 0 => errors'[c] > 0
      BY <1>1, PipelineAssumption DEF JobChange, Reports, TypeOK
    <2> QED BY <1>3, <2>1 DEF Reported
  <1>5. CASE ~Drops(j)
    <2>1. \A k \in Jobs : \A r : Present(k, r) => Present(k, r)' BY <1>1, <1>5, JobTarget
    <2>2. CASE i # j
      <3>1. Written(i) /\ jobs'[i] = jobs[i] BY <1>2, <2>2 DEF Written
      <3> QED BY <1>1, <1>2, <1>4, <2>1, <3>1 DEF Accounted
    <2>3. CASE i = j
      <3>1. jobs'[j].at \in {"stream", "done"} BY <2>3 DEF Written
      <3>2. CASE Prepares(j)
        <4>1. jobs'[j].read \ jobs'[j].left = {} BY <1>1, <3>2 DEF Prepares, Progress
        <4> QED BY <2>3, <4>1
      <3>3. CASE Streams(j) /\ jobs'[j].at = "done"
        <4>1. jobs[j].at = "stream" /\ jobs[j].left = {} /\ jobs'[j].left = {} /\ jobs'[j].read = jobs[j].read
          BY <3>3 DEF Streams, Books
        <4>2. Reported(j) \/ \A r \in jobs[j].read : Present(j, r)
          BY <1>1, <1>2, <4>1 DEF Accounted, Written
        <4> QED BY <1>4, <2>1, <2>3, <4>1, <4>2
      <3>4. CASE Streams(j) /\ jobs'[j].at = "stream"
        <4>1. jobs[j].at = "stream" /\ jobs'[j].read = jobs[j].read /\ jobs'[j].left \subseteq jobs[j].left
          BY <3>4 DEF Streams
        <4>2. Reported(j) \/ \A r \in jobs[j].read \ jobs[j].left : Present(j, r)
          BY <1>1, <1>2, <4>1 DEF Accounted, Written
        <4>3. Reported(j)' \/ \A r \in jobs[j].left \ jobs'[j].left : Present(j, r)'
          <5>1. Reported(j)' \/ Batch(j) BY <1>2, <3>4, <4>1 DEF Books
          <5>2. jobs[j].left \ jobs'[j].left \in SUBSET Rows BY <1>1 DEF TypeOK
          <5> QED BY <1>1, <1>2, <5>1, <5>2, BatchStored DEF Batch
        <4> QED BY <1>4, <2>1, <2>3, <4>1, <4>2, <4>3
      <3>5. ~Starts(j) BY <3>1 DEF Starts
      <3> QED BY <3>1, <3>2, <3>3, <3>4, <3>5 DEF JobChange
    <2> QED BY <2>2, <2>3
  <1>6. CASE Drops(j)
    <2>1. /\ layout = "pg" /\ target'[j] = {} /\ \A c \in Collections : c # j => target'[c] = target[c]
      BY <1>1, <1>6, JobTarget
    <2>2. CASE i # j
      <3>1. Written(i) /\ jobs'[i] = jobs[i] BY <1>2, <2>2 DEF Written
      <3>2. Home(i) = i /\ target'[i] = target[i] /\ Home(i)' = i
        BY <1>3, <2>1, <2>2, JobParts DEF Home
      <3>3. \A r : Present(i, r) => Present(i, r)' BY <3>2 DEF Present, SameKey, DocOf
      <3> QED BY <1>1, <1>2, <1>4, <3>1, <3>3 DEF Accounted
    <2>3. CASE i = j
      <3>1. Prepares(j) BY <1>6 DEF Drops, JobChange, Starts, MayStart, Streams
      <3>2. jobs'[j].read \ jobs'[j].left = {} BY <1>1, <3>1 DEF Prepares, Progress
      <3> QED BY <2>3, <3>2
    <2> QED BY <2>2, <2>3
  <1> QED BY <1>5, <1>6

(* In a first load, every collection is new to its job.                    *)
LEMMA JobWatched ==
  ASSUME Inv, NEW j \in Jobs, JobChange(j), TargetChange(j)
  PROVE  FirstLoad' /\ NoErrors' /\ Whole' /\ NotResumed'
  <1>1. TypeOK /\ FirstLoad /\ NoErrors /\ Whole /\ NotResumed /\ Phases BY DEF Inv
  <1>2. UNCHANGED <<opts, layout, stage, runs>> /\ \A k \in Jobs : k # j => jobs'[k] = jobs[k]
    BY DEF JobChange
  <1>3. \A m \in {"partial", "resumed"} : m \in mishaps' <=> m \in mishaps BY DEF JobChange, Reports
  <1>4. stage # "idle"
    <2>1. Starts(j) => stage = j[1] BY DEF Starts, MayStart
    <2>2. Prepares(j) \/ Streams(j) => Going(j) BY DEF Prepares, Streams, Going
    <2> QED BY <1>1, <2>1, <2>2, JobParts DEF JobChange, Phases
  <1>5. FirstLoad' BY <1>1, <1>2, <1>4 DEF FirstLoad
  <1>6. NoErrors' BY <1>1 DEF NoErrors, JobChange, Reports
  <1>7. Whole' BY <1>1, <1>2, <1>3 DEF Whole
  <1>8. ASSUME "resumed" \notin mishaps', NEW i \in Jobs
        PROVE  /\ jobs'[i].at # "skipped"
               /\ opts'.skip /\ layout' = "pg" /\ jobs'[i].at \in {"queued", "prepare"} => target'[i] = {}
    <2>1. \A k \in Jobs : /\ jobs[k].at # "skipped"
                          /\ opts.skip /\ layout = "pg" /\ jobs[k].at \in {"queued", "prepare"} => target[k] = {}
      BY <1>1, <1>3, <1>8 DEF NotResumed
    <2>2. CASE i # j
      <3>1. jobs'[i] = jobs[i] BY <1>2, <2>2
      <3>2. layout = "pg" => target'[i] = {} \/ target'[i] = target[i]
        <4>1. layout = "pg" => Home(j) = j BY DEF Home
        <4>2. i \in Collections /\ target \in [Collections -> SUBSET Docs] BY <1>1, JobParts DEF TypeOK
        <4> QED BY <2>2, <4>1, <4>2 DEF TargetChange, Drops, Stores
      <3> QED BY <1>2, <2>1, <3>1, <3>2
    <2>3. CASE i = j
      <3>1. Prepares(j) => jobs'[j].at \in {"stream", "raised"}
        BY <2>1 DEF Prepares
      <3>2. Starts(j) => UNCHANGED target /\ jobs[j].at = "queued" /\ jobs'[j].at = "prepare"
        BY DEF Starts, MayStart, TargetChange, Drops, Stores
      <3>3. Streams(j) => jobs'[j].at \in {"stream", "done", "raised"} BY DEF Streams
      <3> QED BY <1>2, <2>1, <2>3, <3>1, <3>2, <3>3 DEF JobChange
    <2> QED BY <2>2, <2>3
  <1> QED BY <1>5, <1>6, <1>7, <1>8 DEF NotResumed

LEMMA JobViewed ==
  ASSUME Inv, NEW j \in Jobs, JobChange(j)
  PROVE  Viewed'
  <1>1. Viewed BY DEF Inv
  <1>2. UNCHANGED <<opts, stage, view, source>> /\ \A k \in Jobs : k # j => jobs'[k] = jobs[k]
    BY DEF JobChange
  <1>3. "moved" \notin mishaps' => "moved" \notin mishaps BY DEF JobChange, Reports
  <1>4. Starts(j) \/ (jobs[j].at # "queued" /\ jobs'[j].read = jobs[j].read)
    BY DEF JobChange, Prepares, Streams
  <1>5. \A k \in Jobs : /\ Selected(k, view)' = Selected(k, view)
                        /\ Selected(k, source)' = Selected(k, source)
    BY <1>2 DEF Selected
  <1>6. Starts(j) => jobs'[j].read = Sight(j) BY DEF Starts
  <1>7. InProgress' <=> InProgress BY <1>2 DEF InProgress
  <1> QED BY <1>1, <1>2, <1>3, <1>4, <1>5, <1>6, <1>7 DEF Viewed, Sight

(* In an untroubled load every document job has read all of the one view.  *)
LEMMA DocsRead ==
  ASSUME Inv, Untroubled, stage = "edge", NEW u \in Tables
  PROVE  jobs[<<"doc", u>>].read = IF opts.workers = 1 THEN view[u] ELSE source[u]
  <1> DEFINE d == <<"doc", u>>
  <1>1. opts.only = Tables /\ ~opts.since BY DEF Inv, Whole, Untroubled
  <1>2. d \in JobsOf("doc") /\ d \in Jobs BY <1>1, TableJobs DEF JobsOf
  <1>3. jobs[d].at # "queued" BY <1>2 DEF Inv, Phases, Finished
  <1>4. InProgress /\ "moved" \notin mishaps BY DEF InProgress, Untroubled
  <1>5. \A rows : Selected(d, rows) = rows[u] BY <1>1 DEF Selected
  <1> QED BY <1>2, <1>3, <1>4, <1>5 DEF Inv, Viewed

LEMMA JobLinked ==
  ASSUME Inv, NEW j \in Jobs, JobChange(j)
  PROVE  Linked'
  <1> SUFFICES ASSUME Untroubled', NEW t \in Linking, jobs'[<<"edge", t>>].at # "queued",
                      NEW r \in jobs'[<<"edge", t>>].read
               PROVE  /\ \E s \in jobs'[<<"doc", t>>].read : s.key = r.key
                      /\ \E s \in jobs'[<<"doc", Parent[t]>>].read : s.key = r.ref
    BY DEF Linked
  <1>1. Untroubled BY DEF Untroubled, JobChange, Reports
  <1>2. t \in Tables /\ <<"doc", t>> \in Jobs /\ <<"edge", t>> \in Jobs /\ Parent[t] \in Tables
        /\ <<"doc", Parent[t]>> \in Jobs
    BY TableJobs DEF Linking
  <1>3. \A k \in Jobs : k # j => jobs'[k] = jobs[k] BY DEF JobChange
  <1>4. CASE ~Starts(j)
    <2>1. jobs[j].at # "queued" /\ jobs'[j].read = jobs[j].read
      BY <1>4 DEF JobChange, Prepares, Streams
    <2>2. \A k \in Jobs : jobs'[k].read = jobs[k].read BY <1>3, <2>1
    <2>3. jobs[<<"edge", t>>].at # "queued" BY <1>2, <1>3, <2>1
    <2> QED BY <1>1, <1>2, <2>2, <2>3 DEF Inv, Linked
  <1>5. CASE Starts(j)
    <2>1. stage = j[1] BY <1>5 DEF Starts, MayStart
    <2>2. CASE j # <<"edge", t>>
      <3>1. jobs[<<"edge", t>>].at # "queued" /\ jobs[<<"edge", t>>].read = jobs'[<<"edge", t>>].read
        BY <1>2, <1>3, <2>2
      <3>2. stage # "doc" BY <1>2, <3>1 DEF Inv, Phases
      <3>3. \A u \in Tables : jobs'[<<"doc", u>>] = jobs[<<"doc", u>>]
        <4> TAKE u \in Tables
        <4>1. <<"doc", u>>[1] = "doc" OBVIOUS
        <4>2. <<"doc", u>> # j BY <2>1, <3>2, <4>1
        <4> QED BY <1>3, <4>2, TableJobs
      <3> QED BY <1>1, <1>2, <3>1, <3>3 DEF Inv, Linked
    <2>3. CASE j = <<"edge", t>>
      <3> DEFINE rows == IF opts.workers = 1 THEN view ELSE source
      <3>1. stage = "edge" BY <2>1, <2>3
      <3>2. r \in Selected(j, rows) BY <1>5, <2>3 DEF Starts, Sight
      <3>3. r \in rows[t] /\ r.ref # NoRef BY <2>3, <3>2 DEF Selected
      <3>4. Consistent(rows) BY DEF Inv, Sourced, Sound
      <3>5. \E s \in rows[Parent[t]] : s.key = r.ref BY <1>2, <3>3, <3>4 DEF Consistent
      <3>6. \A u \in Tables : jobs'[<<"doc", u>>].read = rows[u]
        <4> TAKE u \in Tables
        <4>1. jobs'[<<"doc", u>>] = jobs[<<"doc", u>>] BY <1>3, <2>3, TableJobs
        <4>2. jobs[<<"doc", u>>].read = rows[u] BY <1>1, <3>1, DocsRead
        <4> QED BY <4>1, <4>2
      <3> QED BY <1>2, <3>3, <3>5, <3>6
    <2> QED BY <2>2, <2>3
  <1> QED BY <1>4, <1>5

(* Once edges are read, in an untroubled load, the documents are there.    *)
LEMMA DocsThere ==
  ASSUME Inv, Untroubled, ~opts.dry, stage # "idle", NEW t \in Linking,
         jobs[<<"edge", t>>].at # "queued",
         NEW u \in Tables, NEW s \in jobs[<<"doc", u>>].read
  PROVE  Has(<<"doc", u>>, s.key)
  <1> DEFINE d == <<"doc", u>>
  <1>1. opts.only = Tables BY DEF Inv, Whole, Untroubled
  <1>2. d \in JobsOf("doc") /\ d \in Jobs /\ <<"edge", t>> \in Jobs BY <1>1, TableJobs DEF JobsOf, Linking
  <1>3. Finished(d) BY <1>2 DEF Inv, Phases
  <1>4. jobs[d].at # "skipped" BY <1>2 DEF Inv, NotResumed, Untroubled
  <1>5. jobs[d].at = "done" /\ jobs[d].left = {} BY <1>2, <1>3, <1>4 DEF Finished, Inv, Progressing, Progress
  <1>6. ~Reported(d)
    <2>1. d \in Collections /\ Home(d) \in Collections /\ d = <<d[1], d[2]>> BY <1>2, JobParts
    <2>2. \A c \in Collections : errors[c] = 0 BY DEF Inv, NoErrors, Untroubled
    <2> QED BY <2>1, <2>2 DEF Reported
  <1>7. Present(d, s) BY <1>2, <1>5, <1>6 DEF Inv, Accounted, Written
  <1> QED BY <1>7 DEF Present, Has, SameKey, DocOf

LEMMA JobTied ==
  ASSUME Inv, NEW j \in Jobs, JobChange(j), TargetChange(j), Phases', NotResumed'
  PROVE  Tied'
  <1> SUFFICES ASSUME Untroubled', NEW t \in Linking PROVE Stale(t)' \/ EdgeTied(t)'
    BY DEF Tied
  <1> DEFINE E == <<"edge", t>>
  <1>1. Untroubled BY DEF Untroubled, JobChange, Reports
  <1>2. TypeOK /\ (Stale(t) \/ EdgeTied(t)) BY <1>1 DEF Inv, Tied
  <1>3. t \in Tables /\ <<"doc", t>> \in Jobs /\ E \in Jobs /\ Parent[t] \in Tables
        /\ <<"doc", Parent[t]>> \in Jobs /\ E[1] = "edge"
    BY TableJobs DEF Linking
  <1>4. UNCHANGED <<opts, layout, stage>> /\ (Piecemeal' <=> Piecemeal)
        /\ ("emptied" \in mishaps' <=> "emptied" \in mishaps)
    BY DEF JobChange, Piecemeal, Reports
  <1>5. \A k \in Jobs : k # j => jobs'[k] = jobs[k] BY DEF JobChange
  <1>6. \A k \in Jobs : Home(k)' = Home(k) /\ Home(k) \in Collections BY <1>2, JobTarget, JobParts
  <1>7. CASE Stale(t) /\ j # E BY <1>3, <1>4, <1>5, <1>7 DEF Stale
  <1>8. CASE Stale(t) /\ j = E /\ ~(Piecemeal /\ stage \in {"doc", "edge"})
    BY <1>4, <1>8 DEF Stale
  <1>9. CASE Stale(t) /\ j = E /\ Piecemeal /\ stage \in {"doc", "edge"}
    <2>1. jobs[E].at \in {"queued", "prepare", "raised"} BY <1>9 DEF Stale
    <2>2. jobs'[E].at # "skipped" BY <1>3 DEF NotResumed, Untroubled
    <2>3. CASE jobs'[E].at = "stream"
      <3>1. Drops(j) BY <1>9, <2>1, <2>3 DEF TargetChange, Stores, JobChange, Starts, Prepares, Streams
      <3>2. target'[E] = {} /\ layout = "pg" BY <1>2, <1>9, <3>1, JobTarget
      <3>3. Home(E)' = E BY <1>3, <1>6, <3>2 DEF Home
      <3> QED BY <3>2, <3>3 DEF EdgeTied
    <2>4. CASE jobs'[E].at # "stream"
      <3>1. jobs'[E].at \in {"prepare", "raised"}
        BY <1>9, <2>1, <2>2, <2>4 DEF JobChange, Starts, Prepares, Streams
      <3> QED BY <1>4, <1>9, <3>1 DEF Stale
    <2> QED BY <2>3, <2>4
  <1>10. CASE EdgeTied(t) /\ Drops(j)
    <2>1. layout = "pg" /\ target'[j] = {} /\ \A c \in Collections : c # j => target'[c] = target[c]
      BY <1>2, <1>10, JobTarget
    <2>2. CASE j = E
      <3>1. Home(E)' = E BY <1>3, <1>6, <2>1 DEF Home
      <3> QED BY <2>1, <2>2, <3>1 DEF EdgeTied
    <2>3. CASE j # E /\ j[1] = "edge"
      <3>1. \A k \in Jobs : Home(k) = k /\ Home(k)' = k BY <1>6, <2>1 DEF Home
      <3>2. <<"doc", t>> # j /\ <<"doc", Parent[t]>> # j BY <2>3
      <3>3. target'[E] = target[E] /\ target'[<<"doc", t>>] = target[<<"doc", t>>]
            /\ target'[<<"doc", Parent[t]>>] = target[<<"doc", Parent[t]>>]
        BY <1>3, <2>1, <2>3, <3>2, JobParts
      <3> QED BY <1>3, <1>10, <3>1, <3>3 DEF EdgeTied, Has
    <2>4. CASE j[1] = "doc"
      <3>1. Going(j) /\ Piecemeal BY <1>10 DEF Drops, Going
      <3>2. stage = "doc" \/ (stage = "failed" /\ "emptied" \in mishaps)
        BY <2>4, <3>1 DEF Inv, Phases
      <3>3. j # E BY <2>4
      <3>4. CASE stage = "doc"
        <4>1. jobs[E].at = "queued" BY <1>3, <3>4 DEF Inv, Phases
        <4> QED BY <1>3, <1>4, <1>5, <3>1, <3>3, <3>4, <4>1 DEF Stale
      <3>5. CASE stage = "failed" /\ "emptied" \in mishaps BY <1>4, <3>5 DEF Stale
      <3> QED BY <3>2, <3>4, <3>5
    <2> QED BY <2>2, <2>3, <2>4, JobParts
  <1>11. CASE EdgeTied(t) /\ ~Drops(j)
    <2>1. \A k \in Jobs : \A key : Has(k, key) => Has(k, key)' BY <1>2, <1>11, JobTarget
    <2> SUFFICES ASSUME NEW e \in target'[Home(E)], e.table = t
                 PROVE  Has(<<"doc", t>>, e.key)' /\ Has(<<"doc", Parent[t]>>, e.ref)'
      BY <1>3, <1>6 DEF EdgeTied
    <2>2. CASE e \in target[Home(E)] BY <1>3, <1>11, <2>1, <2>2 DEF EdgeTied
    <2>3. CASE e \notin target[Home(E)]
      <3>1. Stores(j) BY <1>11, <2>3 DEF TargetChange
      <3>2. PICK s \in SUBSET jobs[j].left :
              target' = [target EXCEPT ![Home(j)] = Stored(j, {DocOf(j, r) : r \in s})]
        BY <3>1 DEF Stores
      <3>3. Home(E) = Home(j) /\ e \in Stored(j, {DocOf(j, r) : r \in s})
        BY <1>2, <1>3, <1>6, <2>3, <3>2 DEF TypeOK
      <3>4. e \in {DocOf(j, r) : r \in s} BY <2>3, <3>3, StoredOnly
      <3>5. PICK r \in s : e = DocOf(j, r) BY <3>4
      <3>6. j[1] = "edge" BY <1>3, <3>3, Homes
      <3>7. j = E BY <3>5, <3>6, JobParts DEF DocOf
      <3>8. r \in jobs[E].read /\ jobs[E].at # "queued" /\ ~opts.dry
        BY <1>3, <3>1, <3>5, <3>7 DEF Inv, Progressing, Progress, Stores
      <3>9. PICK x \in jobs[<<"doc", t>>].read : x.key = r.key
        BY <1>1, <3>8 DEF Inv, Linked
      <3>10. PICK y \in jobs[<<"doc", Parent[t]>>].read : y.key = r.ref
        BY <1>1, <3>8 DEF Inv, Linked
      <3>11. stage # "idle" BY <1>3, <3>8 DEF Inv, Phases, Before
      <3>12. Has(<<"doc", t>>, r.key) BY <1>1, <1>3, <3>8, <3>9, <3>11, DocsThere
      <3>13. Has(<<"doc", Parent[t]>>, r.ref) BY <1>1, <1>3, <3>8, <3>10, <3>11, DocsThere
      <3>14. e.key = r.key /\ e.ref = r.ref BY <3>5 DEF DocOf
      <3> QED BY <1>3, <2>1, <3>12, <3>13, <3>14
    <2> QED BY <2>2, <2>3
  <1> QED BY <1>2, <1>7, <1>8, <1>9, <1>10, <1>11

(* Storing rows of one table leaves the documents of the others.           *)
LEMMA StoredElsewhere ==
  ASSUME NEW j \in Jobs, NEW docs, \A d \in docs : d.table = j[2], NEW table, table # j[2]
  PROVE  \A d : d.table = table => (d \in Stored(j, docs) <=> d \in target[Home(j)])
  <1>1. \A d \in target[Home(j)] : d.table = table => ~\E e \in docs : SameKey(j, d, e)
    BY DEF SameKey
  <1>2. CASE opts.keep BY <1>2 DEF Stored
  <1>3. CASE ~opts.keep BY <1>1, <1>3 DEF Stored
  <1> QED BY <1>2, <1>3

(* Rows with keys that no stored row has are added to what there is.       *)
LEMMA StoredAdds ==
  ASSUME NEW j \in Jobs, NEW old, NEW new,
         Of(j) = {DocOf(j, r) : r \in old},
         \A r \in old : \A s \in new : r.key # s.key
  PROVE  {d \in Stored(j, {DocOf(j, r) : r \in new}) : d.table = j[2]} =
         {DocOf(j, r) : r \in old \cup new}
  <1> DEFINE docs == {DocOf(j, r) : r \in new}
  <1>1. \A d \in docs : d.table = j[2] BY DEF DocOf
  <1>2. \A d \in target[Home(j)] : \A e \in docs : ~SameKey(j, d, e) /\ ~SameKey(j, e, d)
    <2> SUFFICES ASSUME NEW d \in target[Home(j)], NEW s \in new,
                        SameKey(j, d, DocOf(j, s)) \/ SameKey(j, DocOf(j, s), d)
                 PROVE  FALSE
      OBVIOUS
    <2>1. d.table = j[2] /\ d.key = s.key BY DEF SameKey, DocOf
    <2>2. d \in Of(j) BY <2>1 DEF Of
    <2>3. PICK r \in old : d = DocOf(j, r) BY <2>2
    <2> QED BY <2>1, <2>3 DEF DocOf
  <1>3. {DocOf(j, r) : r \in old \cup new} = Of(j) \cup docs OBVIOUS
  <1> HIDE DEF docs
  <1>4. CASE opts.keep
    <2>1. Stored(j, docs) = target[Home(j)] \cup docs BY <1>2, <1>4 DEF Stored
    <2> QED BY <1>1, <1>3, <2>1 DEF Of, docs
  <1>5. CASE ~opts.keep
    <2>1. Stored(j, docs) = target[Home(j)] \cup docs BY <1>2, <1>5 DEF Stored
    <2> QED BY <1>1, <1>3, <2>1 DEF Of, docs
  <1> QED BY <1>4, <1>5

LEMMA JobReloaded ==
  ASSUME Inv, NEW j \in Jobs, JobChange(j), TargetChange(j), Books(j)
  PROVE  Reloaded'
  <1> SUFFICES ASSUME Reload', NEW i \in Jobs, (Written(i) \/ Emptied(i))'
               PROVE  Of(i)' = {DocOf(i, r) : r \in jobs'[i].read \ jobs'[i].left}
    BY DEF Reloaded, DocOf
  <1>1. TypeOK /\ Reloaded /\ Phases /\ Progress(j) BY DEF Inv, Progressing
  <1>2. UNCHANGED <<opts, layout, stage>> /\ ~Reports /\ \A k \in Jobs : k # j => jobs'[k] = jobs[k]
    BY DEF JobChange, Reload, Reports
  <1>3. Reload BY <1>2 DEF Reload, JobChange
  <1>4. \A k \in Jobs : Home(k)' = Home(k) /\ Home(k) \in Collections BY <1>1, JobTarget, JobParts
  <1>5. Of(i)' = {d \in target'[Home(i)] : d.table = i[2]} BY <1>4 DEF Of
  <1>6. \A k \in Jobs : Written(k) \/ Emptied(k) =>
          Of(k) = {DocOf(k, r) : r \in jobs[k].read \ jobs[k].left}
    BY <1>1, <1>3 DEF Reloaded
  <1>7. CASE i # j
    <2>1. jobs'[i] = jobs[i] /\ (Written(i) \/ Emptied(i)) BY <1>2, <1>7 DEF Written, Emptied
    <2>2. Of(i) = {DocOf(i, r) : r \in jobs[i].read \ jobs[i].left} BY <1>6, <2>1
    <2>3. CASE Home(i) # Home(j)
      <3>1. layout = "pg" => Home(j) = j BY DEF Home
      <3>2. target'[Home(i)] = target[Home(i)]
        <4>1. target \in [Collections -> SUBSET Docs] BY <1>1 DEF TypeOK
        <4>2. Drops(j) => target'[Home(i)] = target[Home(i)]
          BY <1>4, <2>3, <3>1, <4>1 DEF Drops, Piecemeal
        <4>3. Stores(j) => target'[Home(i)] = target[Home(i)]
          <5> DEFINE home == Home(i)
          <5>1. home # Home(j) /\ home \in Collections BY <1>4, <2>3
          <5> HIDE DEF home
          <5>2. Stores(j) => target'[home] = target[home] BY <4>1, <5>1 DEF Stores
          <5> QED BY <5>2 DEF home
        <4> QED BY <4>2, <4>3 DEF TargetChange
      <3> QED BY <1>5, <2>1, <2>2, <3>2 DEF Of
    <2>4. CASE Home(i) = Home(j)
      <3>1. layout # "pg" /\ i[2] # j[2] BY <1>7, <2>4, Homes
      <3>2. UNCHANGED target \/ Stores(j) BY <3>1 DEF TargetChange, Drops, Piecemeal
      <3>3. CASE UNCHANGED target BY <1>5, <2>1, <2>2, <3>3 DEF Of
      <3>4. CASE Stores(j)
        <4>1. PICK s \in SUBSET jobs[j].left :
                target' = [target EXCEPT ![Home(j)] = Stored(j, {DocOf(j, r) : r \in s})]
          BY <3>4 DEF Stores
        <4> DEFINE docs == {DocOf(j, r) : r \in s}
        <4>2. target'[Home(i)] = Stored(j, docs) BY <1>1, <1>4, <2>4, <4>1 DEF TypeOK
        <4>3. \A d : d.table = i[2] => (d \in Stored(j, docs) <=> d \in target[Home(j)])
          <5>1. \A d \in docs : d.table = j[2] BY DEF DocOf
          <5> HIDE DEF docs
          <5> QED BY <3>1, <5>1, StoredElsewhere
        <4> QED BY <1>5, <2>1, <2>2, <2>4, <4>2, <4>3 DEF Of
      <3> QED BY <3>2, <3>3, <3>4
    <2> QED BY <2>3, <2>4
  <1>8. CASE i = j
    <2>1. CASE Starts(j)
      <3>1. UNCHANGED target /\ layout # "pg" /\ jobs[j].at = "queued" /\ stage = j[1]
        BY <1>2, <1>8, <2>1 DEF Starts, MayStart, TargetChange, Drops, Stores, Written, Emptied
      <3>2. Emptied(j) BY <3>1, JobParts DEF Emptied
      <3>3. jobs[j].read \ jobs[j].left = {} BY <1>1, <3>1 DEF Progress
      <3>4. jobs'[j].read \ jobs'[j].left = {} BY <2>1 DEF Starts
      <3>5. Of(j) = {} BY <1>6, <3>2, <3>3
      <3> QED BY <1>5, <1>8, <3>1, <3>4, <3>5 DEF Of
    <2>2. CASE Prepares(j)
      <3>1. jobs'[j].at = "stream" BY <1>8, <2>2 DEF Prepares, Written, Emptied
      <3>2. jobs[j].read \ jobs[j].left = {} /\ jobs'[j].read \ jobs'[j].left = {}
        BY <1>1, <2>2 DEF Progress, Prepares
      <3>3. CASE Drops(j)
        <4>1. layout = "pg" /\ target'[j] = {} BY <1>1, <3>3, JobTarget
        <4>2. Home(j) = j BY <4>1 DEF Home
        <4> QED BY <1>5, <1>8, <3>2, <4>1, <4>2
      <3>4. CASE ~Drops(j)
        <4>1. UNCHANGED target /\ ~Piecemeal
          BY <2>2, <3>1, <3>4 DEF TargetChange, Stores, Prepares
        <4>2. Emptied(j) BY <1>3, <2>2, <4>1 DEF Emptied, Prepares, Piecemeal, Reload
        <4>3. Of(j) = {} BY <1>6, <3>2, <4>2
        <4> QED BY <1>5, <1>8, <3>2, <4>1, <4>3 DEF Of
      <3> QED BY <3>3, <3>4
    <2>3. CASE Streams(j)
      <3>1. jobs'[j].at \in {"stream", "done"} BY <1>8, <2>3 DEF Streams, Written, Emptied
      <3>2. Of(j) = {DocOf(j, r) : r \in jobs[j].read \ jobs[j].left}
        BY <1>6, <2>3 DEF Streams, Written
      <3>3. CASE jobs'[j].at = "done"
        <4>1. UNCHANGED target /\ jobs[j].left = {} /\ jobs'[j].left = {} /\ jobs'[j].read = jobs[j].read
          BY <2>3, <3>3 DEF Streams, Books
        <4> QED BY <1>5, <1>8, <3>2, <4>1 DEF Of
      <3>4. CASE jobs'[j].at = "stream"
        <4> DEFINE old == jobs[j].read \ jobs[j].left
                   new == jobs[j].left \ jobs'[j].left
        <4>1. Batch(j) BY <1>2, <1>3, <2>3, <3>4 DEF Streams, Books, Reload
        <4>2. target'[Home(j)] = Stored(j, {DocOf(j, r) : r \in new})
          BY <1>1, <1>4, <4>1 DEF Batch, TypeOK
        <4>3. jobs[j].left \subseteq jobs[j].read /\ jobs'[j].left \subseteq jobs[j].left
              /\ jobs'[j].read = jobs[j].read
          BY <1>1, <2>3 DEF Progress, Streams
        <4>4. \A r \in old : \A s \in new : r.key # s.key
          <5>1. jobs[j].read = Selected(j, view)
            BY <1>3, <2>3 DEF Inv, Viewed, Streams, Reload
          <5>2. jobs[j].read \subseteq view[j[2]] BY <5>1 DEF Selected
          <5>3. \A r, s \in view[j[2]] : r.key = s.key => r = s
            BY JobParts DEF Inv, Sourced, Sound, Consistent
          <5> QED BY <4>3, <5>2, <5>3
        <4>5. old \cup new = jobs'[j].read \ jobs'[j].left BY <4>3
        <4>6. Of(j) = {DocOf(j, r) : r \in old} BY <3>2
        <4> HIDE DEF old, new
        <4>7. {d \in Stored(j, {DocOf(j, r) : r \in new}) : d.table = j[2]} =
                {DocOf(j, r) : r \in old \cup new}
          BY <4>4, <4>6, StoredAdds
        <4> QED BY <1>5, <1>8, <4>2, <4>5, <4>7
      <3> QED BY <3>1, <3>3, <3>4
    <2> QED BY <2>1, <2>2, <2>3 DEF JobChange
  <1> QED BY <1>7, <1>8

LEMMA JobStepNext ==
  ASSUME Inv, NEW j \in Jobs, JobStep(j)
  PROVE  Inv'
  <1>1. TypeOK /\ Sourced /\ Progressing BY DEF Inv
  <1>2. JobChange(j) /\ TargetChange(j) /\ Books(j) BY <1>1, JobSteps
  <1>3. Sourced' BY <1>1, <1>2 DEF Sourced, Sound, Consistent, JobChange
  <1>4. TypeOK' /\ Progressing' /\ Phases' BY <1>2, JobTypes, JobProgress, JobPhases
  <1>5. FirstLoad' /\ NoErrors' /\ Whole' /\ NotResumed' BY <1>2, JobWatched
  <1>6. Accounted' /\ Viewed' /\ Linked' /\ Reloaded'
    BY <1>2, JobAccounted, JobViewed, JobLinked, JobReloaded
  <1>7. Tied' BY <1>2, <1>4, <1>5, JobTied
  <1> QED BY <1>3, <1>4, <1>5, <1>6, <1>7 DEF Inv

(***************************************************************************)
(* A step of the load keeps the invariant                                  *)
(***************************************************************************)

(* The load goes from one stage to another, and all else stays.            *)
Moves ==
  /\ UNCHANGED <<source, target, dead, layout, opts, view, jobs, errors, runs>>
  /\ stage # "idle" /\ stage' # "idle" /\ stage' \in Stages /\ graph' \in BOOLEAN
  /\ InProgress' => InProgress
  /\ stage' \in {"open", "doc", "edge"} => stage \in {"open", "doc", "edge"}
  /\ mishaps' \in {mishaps, mishaps \cup {"emptied"}, mishaps \ {"emptied"}}

LEMMA SameJobs ==
  ASSUME UNCHANGED <<layout, opts, jobs>>
  PROVE  /\ \A phase : JobsOf(phase)' = JobsOf(phase)
         /\ \A j : (Going(j)' <=> Going(j)) /\ (Finished(j)' <=> Finished(j))
         /\ Piecemeal' <=> Piecemeal
  BY DEF JobsOf, Going, Finished, Piecemeal

LEMMA MovesKeep ==
  ASSUME Inv, Moves, Phases', Tied'
  PROVE  Inv'
  <1>1. UNCHANGED <<source, target, dead, layout, opts, view, jobs, errors, runs>> BY DEF Moves
  <1>2. \A m \in {"rejected", "moved", "resumed", "partial"} : m \in mishaps' <=> m \in mishaps
    BY DEF Moves
  <1>3. TypeOK' BY <1>1 DEF Inv, TypeOK, Moves
  <1>4. Sourced' BY <1>1 DEF Inv, Sourced, Sound, Consistent
  <1>5. Progressing' BY <1>1 DEF Inv, Progressing, Progress, JobsOf
  <1>6. Accounted' BY <1>1 DEF Inv, Accounted, Written, Reported, Present, Home, SameKey, DocOf
  <1>7. FirstLoad' BY <1>1 DEF Inv, FirstLoad, Moves
  <1>8. NoErrors' /\ NotResumed' BY <1>1, <1>2 DEF Inv, NoErrors, NotResumed
  <1>9. Whole' BY <1>1, <1>2 DEF Inv, Whole, Moves
  <1>10. Viewed' BY <1>1, <1>2 DEF Inv, Viewed, Moves, Selected
  <1>11. Linked'
    <2>1. Untroubled' => Untroubled BY <1>2 DEF Untroubled
    <2> QED BY <1>1, <2>1 DEF Inv, Linked
  <1>12. Reloaded'
    <2>1. Reload' => Reload BY <1>1, <1>2 DEF Reload
    <2>2. \A j \in Jobs : (Written(j) \/ Emptied(j))' => Written(j) \/ Emptied(j)
      BY <1>1 DEF Written, Emptied, Moves
    <2>3. \A j : Of(j)' = Of(j) BY <1>1 DEF Of, Home
    <2> QED BY <1>1, <2>1, <2>2, <2>3 DEF Inv, Reloaded, DocOf
  <1> QED BY <1>3, <1>4, <1>5, <1>6, <1>7, <1>8, <1>9, <1>10, <1>11, <1>12 DEF Inv

(* Outside the phases of its jobs.                                         *)
LEMMA MovesAside ==
  ASSUME Inv, Moves, mishaps' = mishaps, stage \notin {"doc", "edge"}, stage' \notin {"doc", "edge"},
         stage' \in Before => stage \in Before,
         stage' \in {"graph", "completed"} => stage \in {"graph", "completed"}
  PROVE  Inv'
  <1>1. UNCHANGED <<target, layout, opts, jobs, mishaps>> BY DEF Moves
  <1>2. Phases'
    <2>1. \A j \in Jobs : Going(j) => stage = "failed" \/ stage = j[1] BY DEF Inv, Phases
    <2>2. \A j \in Jobs : ~Going(j) \/ stage = "failed" BY <2>1, JobParts
    <2>3. stage = "failed" => stage' \notin {"graph", "completed"} BY DEF Moves
    <2>4. stage = "failed" => stage' \notin Before BY DEF Before
    <2>5. stage' \in Stages /\ stage \in Stages BY DEF Inv, TypeOK, Moves
    <2>6. stage = "failed" => stage' = "failed" BY <2>3, <2>4, <2>5 DEF Stages, Before
    <2> QED BY <1>1, <2>2, <2>6, SameJobs DEF Inv, Phases
  <1>3. Tied'
    <2>1. Untroubled' => Untroubled BY <1>1 DEF Untroubled
    <2>2. \A t \in Linking : Stale(t) => Stale(t)' BY <1>1 DEF Stale
    <2>3. \A t \in Linking : EdgeTied(t) => EdgeTied(t)' BY <1>1 DEF EdgeTied, Has, Home
    <2> QED BY <2>1, <2>2, <2>3 DEF Inv, Tied
  <1> QED BY <1>2, <1>3, MovesKeep

LEMMA CheckNext == Inv /\ Check => Inv'
  <1> SUFFICES ASSUME Inv, Check PROVE Inv' OBVIOUS
  <1>1. Moves BY DEF Inv, TypeOK, Check, Moves, Goto, Stages, database, bounds, InProgress
  <1> QED BY <1>1, MovesAside DEF Check, Goto, Before

LEMMA DropGraphNext == Inv /\ DropGraph => Inv'
  <1> SUFFICES ASSUME Inv, DropGraph PROVE Inv' OBVIOUS
  <1>1. Moves BY DEF Inv, TypeOK, DropGraph, Moves, Goto, Stages, bounds, InProgress
  <1> QED BY <1>1, MovesAside DEF DropGraph, Goto, Before

LEMMA RaiseEarlyNext == Inv /\ RaiseEarly => Inv'
  <1> SUFFICES ASSUME Inv, RaiseEarly PROVE Inv' OBVIOUS
  <1>1. Moves BY DEF Inv, TypeOK, RaiseEarly, Moves, Goto, Stages, database, InProgress
  <1> QED BY <1>1, MovesAside DEF RaiseEarly, Goto, Before

LEMMA CreateGraphNext == Inv /\ CreateGraph => Inv'
  <1> SUFFICES ASSUME Inv, CreateGraph PROVE Inv' OBVIOUS
  <1>1. Moves BY DEF Inv, TypeOK, CreateGraph, Moves, Goto, Stages, InProgress
  <1> QED BY <1>1, MovesAside DEF CreateGraph, Goto, Before

LEMMA EndPhaseNext == Inv /\ EndPhase => Inv'
  <1> SUFFICES ASSUME Inv, EndPhase PROVE Inv' OBVIOUS
  <1>1. /\ UNCHANGED <<source, target, graph, dead, layout, opts, view, jobs, errors, runs>>
        /\ stage \in {"doc", "edge"} /\ mishaps' = AfterPhase
    BY DEF EndPhase, database, bounds
  <1>2. TypeOK /\ Phases /\ Progressing /\ Tied /\ NotResumed /\ Whole BY DEF Inv
  <1>3. \/ SomeRaised /\ stage' = "failed"
        \/ ~SomeRaised /\ stage = "doc" /\ stage' = "edge"
        \/ ~SomeRaised /\ stage = "edge" /\ stage' = "graph"
    BY <1>1 DEF EndPhase, Goto
  <1>4. Moves
    <2>1. stage' \in Stages /\ (InProgress' => InProgress) BY <1>1, <1>3 DEF Stages, InProgress
    <2> QED BY <1>1, <1>2, <1>3, <2>1 DEF Moves, AfterPhase, TypeOK
  <1>5. ~SomeRaised => \A j \in JobsOf(stage) : Finished(j)
    <2>1. ~SomeRaised => \A j \in JobsOf(stage) : Over(j) BY DEF EndPhase
    <2> QED BY <2>1 DEF SomeRaised, Over, Finished
  <1>6. \A j \in Jobs : Going(j) => j \in JobsOf(j[1]) /\ ~Finished(j) /\ stage = j[1]
    BY <1>1, <1>2 DEF Progressing, Progress, Going, Finished, Phases
  <1>7. ~SomeRaised => \A j \in Jobs : ~Going(j) BY <1>5, <1>6
  <1>8. SomeRaised => (Piecemeal => "emptied" \in mishaps') BY <1>1 DEF AfterPhase
  <1>9. Phases'
    <2>1. /\ \A phase : JobsOf(phase)' = JobsOf(phase)
          /\ \A j : (Going(j)' <=> Going(j)) /\ (Finished(j)' <=> Finished(j))
          /\ Piecemeal' <=> Piecemeal
      BY <1>1, SameJobs
    <2>2. (stage \in Before => \A j \in Jobs : jobs[j].at = "queued")' BY <1>3 DEF Before
    <2>3. (stage = "doc" => \A j \in Jobs : j[1] = "edge" => jobs[j].at = "queued")' BY <1>3
    <2>4. (stage \in {"edge", "graph", "completed"} => \A j \in JobsOf("doc") : Finished(j))'
      BY <1>2, <1>3, <1>5, <2>1 DEF Phases
    <2>5. (stage \in {"graph", "completed"} => \A j \in JobsOf("edge") : Finished(j))'
      BY <1>3, <1>5, <2>1
    <2>6. (\A j \in Jobs : Going(j) =>
             stage = j[1] \/ (stage = "failed" /\ (Piecemeal => "emptied" \in mishaps)))'
      BY <1>3, <1>7, <1>8, <2>1
    <2>7. (\A j \in Jobs : j[1] = "edge" /\ jobs[j].at # "queued" => \A i \in JobsOf("doc") : Finished(i))'
      BY <1>1, <1>2, <2>1 DEF Phases
    <2> QED BY <2>2, <2>3, <2>4, <2>5, <2>6, <2>7 DEF Phases
  <1>10. Tied'
    <2> SUFFICES ASSUME Untroubled', NEW t \in Linking PROVE Stale(t)' \/ EdgeTied(t)'
      BY DEF Tied
    <2>1. Untroubled BY <1>1 DEF Untroubled, AfterPhase
    <2>2. EdgeTied(t)' <=> EdgeTied(t) BY <1>1 DEF EdgeTied, Has, Home
    <2>3. Stale(t) \/ EdgeTied(t) BY <1>2, <2>1 DEF Tied
    <2>4. Piecemeal' <=> Piecemeal BY <1>1 DEF Piecemeal
    <2>5. CASE ~Piecemeal BY <1>1, <2>2, <2>3, <2>4, <2>5 DEF Stale, AfterPhase
    <2>6. CASE Piecemeal /\ SomeRaised BY <1>3, <1>8, <2>4, <2>6 DEF Stale
    <2>7. CASE Piecemeal /\ ~SomeRaised /\ stage = "doc"
      BY <1>1, <1>3, <2>2, <2>3, <2>4, <2>7 DEF Stale
    <2>8. CASE Piecemeal /\ ~SomeRaised /\ stage = "edge"
      <3>1. opts.only = Tables BY <1>2, <2>1, <2>8 DEF Whole, Untroubled
      <3>2. <<"edge", t>> \in JobsOf(stage) BY <2>8, <3>1, TableJobs DEF JobsOf, Linking
      <3>3. jobs[<<"edge", t>>].at \in {"done", "skipped"} BY <1>5, <2>8, <3>2 DEF Finished
      <3>4. ~Stale(t) BY <2>8, <3>3 DEF Stale
      <3> QED BY <2>2, <2>3, <3>4
    <2> QED BY <1>1, <2>5, <2>6, <2>7, <2>8
  <1> QED BY <1>4, <1>9, <1>10, MovesKeep

(* The shared collections are empty, or stay as they were.                 *)
LEMMA PrepareNext == Inv /\ Prepare => Inv'
  <1> SUFFICES ASSUME Inv, Prepare PROVE Inv' OBVIOUS
  <1>1. UNCHANGED <<source, graph, dead, layout, opts, view, jobs, errors, runs, mishaps>>
        /\ stage = "prepare" /\ stage' \in {"open", "failed"}
    BY DEF Prepare, Goto, bounds
  <1>2. TypeOK /\ Phases BY DEF Inv
  <1>3. \A j \in Jobs : jobs[j].at = "queued" BY <1>1, <1>2 DEF Phases, Before
  <1>4. CASE stage' = "failed"
    <2>1. UNCHANGED target BY <1>4 DEF Prepare, Goto
    <2>2. Moves BY <1>1, <1>2, <1>4, <2>1 DEF Moves, TypeOK, Stages, InProgress
    <2> QED BY <1>1, <1>4, <2>2, MovesAside DEF Before
  <1>5. CASE stage' = "open"
    <2>1. \/ ~(~opts.dry /\ layout = "lpg" /\ opts.drop) /\ UNCHANGED target
          \/ layout = "lpg" /\ target' = [target EXCEPT ![Links] = {}, ![Nodes] = {}]
      BY <1>5 DEF Prepare, Goto
    <2>2. Links \in Collections /\ Nodes \in Collections /\ Links # Nodes
      BY DEF Collections, Links, Nodes
    <2>3. target \in [Collections -> SUBSET Docs] BY <1>2 DEF TypeOK
    <2>4. target' \in [Collections -> SUBSET Docs] BY <2>1, <2>2, <2>3
    <2>5. TypeOK' BY <1>1, <1>2, <1>5, <2>4 DEF TypeOK, Stages
    <2>6. Sourced' BY <1>1 DEF Inv, Sourced, Sound, Consistent
    <2>7. Progressing' BY <1>1 DEF Inv, Progressing, Progress, JobsOf
    <2>8. Phases' BY <1>1, <1>3, <1>5, JobParts DEF Phases, Going, Before
    <2>9. Accounted' BY <1>1, <1>3 DEF Accounted, Written
    <2>10. FirstLoad' BY <1>1, <1>5 DEF Inv, FirstLoad
    <2>11. NoErrors' BY <1>1 DEF Inv, NoErrors
    <2>12. Whole' BY <1>1, <1>5 DEF Inv, Whole
    <2>13. NotResumed' BY <1>1, <2>1 DEF Inv, NotResumed
    <2>14. Viewed' BY <1>1, <1>3 DEF Viewed
    <2>15. Linked' BY <1>1, <1>3, TableJobs DEF Linked, Linking
    <2>16. \A j \in Jobs : layout = "lpg" /\ target' = [target EXCEPT ![Links] = {}, ![Nodes] = {}]
                             => target'[Home(j)] = {}
      BY <2>2, <2>3 DEF Home
    <2>17. \A j \in Jobs : Home(j)' = Home(j) BY <1>1 DEF Home
    <2>18. Tied'
      <3> SUFFICES ASSUME Untroubled', NEW t \in Linking PROVE Stale(t)' \/ EdgeTied(t)'
        BY DEF Tied
      <3>1. Untroubled BY <1>1 DEF Untroubled
      <3>2. Stale(t) => Stale(t)' BY <1>1, <1>5 DEF Stale
      <3>3. CASE UNCHANGED target
        <4>1. EdgeTied(t) => EdgeTied(t)' BY <1>1, <3>3 DEF EdgeTied, Has, Home
        <4> QED BY <3>1, <3>2, <4>1 DEF Inv, Tied
      <3>4. CASE layout = "lpg" /\ target' = [target EXCEPT ![Links] = {}, ![Nodes] = {}]
        <4>1. <<"edge", t>> \in Jobs BY TableJobs DEF Linking
        <4> QED BY <2>16, <2>17, <3>4, <4>1 DEF EdgeTied
      <3> QED BY <2>1, <3>3, <3>4
    <2>19. Reloaded'
      <3> SUFFICES ASSUME Reload', NEW j \in Jobs, (Written(j) \/ Emptied(j))'
                   PROVE  Of(j)' = {DocOf(j, r) : r \in jobs'[j].read \ jobs'[j].left}
        BY DEF Reloaded, DocOf
      <3>1. layout # "pg" /\ opts.drop /\ ~opts.dry BY <1>1, <1>3 DEF Reload, Written, Emptied
      <3>2. layout = "lpg" BY <1>2, <3>1, PipelineAssumption DEF TypeOK
      <3>3. target'[Home(j)] = {} BY <2>1, <2>16, <3>1, <3>2
      <3>4. jobs'[j].read \ jobs'[j].left = {} BY <1>1, <1>3 DEF Inv, Progressing, Progress
      <3> QED BY <2>17, <3>3, <3>4 DEF Of
    <2> QED BY <2>5, <2>6, <2>7, <2>8, <2>9, <2>10, <2>11, <2>12, <2>13, <2>14, <2>15, <2>18, <2>19
         DEF Inv
  <1> QED BY <1>1, <1>4, <1>5

LEMMA NothingSound == Sound(Nothing) /\ Nothing \in Contents
  <1>1. \A t \in Tables : Nothing[t] = {} BY DEF Nothing
  <1>2. Consistent(Nothing) BY <1>1 DEF Consistent
  <1> QED BY <1>1, <1>2, FS_EmptySet DEF Sound, Nothing, Contents

(* One worker opens its session: the view of the source it reads.          *)
LEMMA OpenNext == Inv /\ Open => Inv'
  <1> SUFFICES ASSUME Inv, Open PROVE Inv' OBVIOUS
  <1>1. /\ UNCHANGED <<source, target, graph, dead, layout, opts, jobs, errors, runs, mishaps>>
        /\ stage = "open" /\ stage' = "doc" /\ view' \in {source, Nothing}
    BY DEF Open, Goto, database, bounds
  <1>2. TypeOK /\ Sourced /\ Phases BY DEF Inv
  <1>3. \A j \in Jobs : jobs[j].at = "queued" BY <1>1, <1>2 DEF Phases, Before
  <1>4. Sound(Nothing) /\ Nothing \in Contents BY NothingSound
  <1>5. TypeOK' BY <1>1, <1>2, <1>4 DEF TypeOK, Stages
  <1>6. Sourced'
    <2>1. Sound(source)' BY <1>1, <1>2 DEF Sourced, Sound, Consistent
    <2>2. Sound(view') BY <1>1, <1>2, <1>4 DEF Sourced
    <2>3. Sound(view)' BY <2>2 DEF Sound, Consistent
    <2> QED BY <2>1, <2>3 DEF Sourced
  <1>7. Progressing' BY <1>1 DEF Inv, Progressing, Progress, JobsOf
  <1>8. Phases' BY <1>1, <1>3, JobParts DEF Phases, Going, Before
  <1>9. Accounted' /\ Viewed' BY <1>1, <1>3 DEF Accounted, Written, Viewed
  <1>10. FirstLoad' /\ NoErrors' /\ Whole' /\ NotResumed'
    BY <1>1 DEF Inv, FirstLoad, NoErrors, Whole, NotResumed
  <1>11. Linked' BY <1>1, <1>3, TableJobs DEF Linked, Linking
  <1>12. Tied'
    <2> SUFFICES ASSUME Untroubled', NEW t \in Linking PROVE Stale(t)' \/ EdgeTied(t)'
      BY DEF Tied
    <2>1. Untroubled BY <1>1 DEF Untroubled
    <2>2. Stale(t) => Stale(t)' BY <1>1, <1>3, TableJobs DEF Stale, Linking, Piecemeal
    <2>3. EdgeTied(t) => EdgeTied(t)' BY <1>1 DEF EdgeTied, Has, Home
    <2> QED BY <2>1, <2>2, <2>3 DEF Inv, Tied
  <1>13. Reloaded'
    <2> SUFFICES ASSUME Reload', NEW j \in Jobs, (Written(j) \/ Emptied(j))'
                 PROVE  Of(j)' = {DocOf(j, r) : r \in jobs[j].read \ jobs[j].left}
      BY <1>1 DEF Reloaded, DocOf
    <2>1. Reload /\ Emptied(j) BY <1>1, <1>3 DEF Reload, Written, Emptied
    <2>2. Of(j)' = Of(j) BY <1>1 DEF Of, Home
    <2> QED BY <2>1, <2>2 DEF Inv, Reloaded
  <1> QED BY <1>5, <1>6, <1>7, <1>8, <1>9, <1>10, <1>11, <1>12, <1>13 DEF Inv

(***************************************************************************)
(* A load begins, and the source changes                                   *)
(***************************************************************************)

LEMMA BeginNext == Inv /\ Begin => Inv'
  <1> SUFFICES ASSUME Inv, Begin PROVE Inv' OBVIOUS
  <1>1. /\ UNCHANGED <<source, target, graph, dead, layout>>
        /\ ~InProgress /\ opts' \in RunOptions /\ runs' = runs + 1 /\ stage' = "check"
        /\ jobs' = [j \in Jobs |-> Idle] /\ errors' = [c \in Collections |-> 0] /\ view' = Nothing
    BY DEF Begin, database
  <1>2. mishaps' = (mishaps \cup (IF opts'.skip /\ runs > 0 THEN {"resumed"} ELSE {}))
                      \cup (IF opts'.only # Tables \/ opts'.since THEN {"partial"} ELSE {})
    BY DEF Begin
  <1>3. TypeOK /\ FirstLoad BY DEF Inv
  <1>4. \A j \in Jobs : jobs'[j] = Idle BY <1>1
  <1>5. Idle \in Job /\ Idle.at = "queued" /\ Idle.read = {} /\ Idle.left = {}
    BY DEF Idle, Job, Places
  <1>6. Sound(Nothing) /\ Nothing \in Contents BY NothingSound
  <1>7. TypeOK'
    <2>1. jobs' \in [Jobs -> Job] BY <1>1, <1>5
    <2>2. errors' \in [Collections -> 0 .. ErrorCap] BY <1>1, PipelineAssumption
    <2> QED BY <1>1, <1>2, <1>3, <1>6, <2>1, <2>2 DEF TypeOK, Stages, Job
  <1>8. Sourced'
    <2>1. Sound(source)' BY <1>1 DEF Inv, Sourced, Sound, Consistent
    <2>2. Sound(view)' BY <1>1, <1>6 DEF Sound, Consistent
    <2> QED BY <2>1, <2>2 DEF Sourced
  <1>9. Progressing' BY <1>4, <1>5, FS_EmptySet DEF Progressing, Progress
  <1>10. Phases' BY <1>1, <1>4, <1>5 DEF Phases, Going, Before
  <1>11. Accounted' /\ Viewed' BY <1>4, <1>5 DEF Accounted, Written, Viewed
  <1>12. FirstLoad' BY <1>1, <1>3 DEF FirstLoad
  <1>13. NoErrors' BY <1>1 DEF NoErrors
  <1>14. Whole' BY <1>2 DEF Whole
  <1>15. NotResumed'
    <2> SUFFICES ASSUME "resumed" \notin mishaps', NEW j \in Jobs
                 PROVE  /\ jobs'[j].at # "skipped"
                        /\ opts'.skip => target'[j] = {}
      BY DEF NotResumed
    <2>1. opts'.skip => runs = 0 BY <1>2, <1>3 DEF FirstLoad
    <2> QED BY <1>1, <1>3, <1>4, <1>5, <2>1, JobParts DEF FirstLoad
  <1>16. Linked' BY <1>4, <1>5, TableJobs DEF Linked, Linking
  <1>17. Tied'
    <2> SUFFICES ASSUME Untroubled', NEW t \in Linking PROVE Stale(t)' \/ EdgeTied(t)'
      BY DEF Tied
    <2>1. Untroubled BY <1>2 DEF Untroubled
    <2>2. Stale(t) => Stale(t)' BY <1>1, <1>2 DEF Stale, InProgress
    <2>3. EdgeTied(t) => EdgeTied(t)' BY <1>1 DEF EdgeTied, Has, Home
    <2> QED BY <2>1, <2>2, <2>3 DEF Inv, Tied
  <1>18. Reloaded' BY <1>1, <1>4, <1>5 DEF Reloaded, Written, Emptied
  <1> QED BY <1>7, <1>8, <1>9, <1>10, <1>11, <1>12, <1>13, <1>14, <1>15, <1>16, <1>17, <1>18 DEF Inv

(* A session of a load with one worker does not see what is committed      *)
(* while it reads.                                                         *)
LEMMA CommitNext == Inv /\ Commit => Inv'
  <1> SUFFICES ASSUME Inv, Commit PROVE Inv' OBVIOUS
  <1>1. /\ UNCHANGED <<target, graph, dead, layout, stage, opts, view, jobs, errors, runs>>
        /\ Consistent(source')
        /\ mishaps' = IF InProgress /\ opts.workers > 1 THEN mishaps \cup {"moved"} ELSE mishaps
    BY DEF Commit, database
  <1>2. TypeOK /\ Sourced BY DEF Inv
  <1>3. \A m \in {"rejected", "resumed", "partial", "emptied"} : m \in mishaps' <=> m \in mishaps
    BY <1>1
  <1>4. source' \in Contents /\ \A t \in Tables : IsFiniteSet(source'[t])
    <2>1. PICK t \in Tables, r \in Rows :
            \/ source' = [source EXCEPT ![t] = {s \in @ : s.key # r.key} \cup {r}]
            \/ source' = [source EXCEPT ![t] = @ \ {r}]
      BY DEF Commit
    <2>2. source \in Contents /\ \A u \in Tables : IsFiniteSet(source[u])
      BY <1>2 DEF TypeOK, Sourced, Sound
    <2> DEFINE kept == {s \in source[t] : s.key # r.key}
    <2>3. kept \subseteq source[t] /\ source[t] \ {r} \subseteq source[t] OBVIOUS
    <2>4. IsFiniteSet(kept) /\ IsFiniteSet(source[t] \ {r}) BY <2>2, <2>3, FS_Subset
    <2>5. IsFiniteSet(kept \cup {r}) BY <2>4, FS_AddElement
    <2>6. source' = [source EXCEPT ![t] = kept \cup {r}] \/ source' = [source EXCEPT ![t] = source[t] \ {r}]
      BY <2>1
    <2>7. kept \subseteq Rows /\ source[t] \ {r} \subseteq Rows BY <2>2 DEF Contents
    <2> HIDE DEF kept
    <2>8. source' \in Contents BY <2>2, <2>6, <2>7 DEF Contents
    <2>9. \A u \in Tables : IsFiniteSet(source'[u]) BY <2>2, <2>4, <2>5, <2>6 DEF Contents
    <2> QED BY <2>8, <2>9
  <1>5. TypeOK' BY <1>1, <1>2, <1>4 DEF TypeOK
  <1>6. Sourced'
    <2>1. Sound(source)' BY <1>1, <1>4 DEF Sound, Consistent
    <2>2. Sound(view)' BY <1>1, <1>2 DEF Sourced, Sound, Consistent
    <2> QED BY <2>1, <2>2 DEF Sourced
  <1>7. Progressing' BY <1>1 DEF Inv, Progressing, Progress, JobsOf
  <1>8. Phases'
    <2>1. /\ \A phase : JobsOf(phase)' = JobsOf(phase)
          /\ \A j : (Going(j)' <=> Going(j)) /\ (Finished(j)' <=> Finished(j))
          /\ Piecemeal' <=> Piecemeal
      BY <1>1, SameJobs
    <2> QED BY <1>1, <1>3, <2>1 DEF Inv, Phases
  <1>9. Accounted' BY <1>1 DEF Inv, Accounted, Written, Reported, Present, Home, SameKey, DocOf
  <1>10. FirstLoad' /\ NoErrors' /\ Whole' BY <1>1, <1>3 DEF Inv, FirstLoad, NoErrors, Whole
  <1>11. NotResumed' BY <1>1, <1>3 DEF Inv, NotResumed
  <1>12. Viewed'
    <2> SUFFICES ASSUME NEW j \in Jobs, jobs[j].at # "queued"
                 PROVE  /\ opts.workers = 1 => jobs[j].read = Selected(j, view)'
                        /\ opts.workers # 1 /\ InProgress => "moved" \in mishaps'
      BY <1>1 DEF Viewed, InProgress
    <2>1. opts.workers = 1 => jobs[j].read = Selected(j, view) BY DEF Inv, Viewed
    <2>2. Selected(j, view)' = Selected(j, view) BY <1>1 DEF Selected
    <2>3. opts.workers \in Nat \ {0} BY <1>2, PipelineAssumption DEF TypeOK
    <2> QED BY <1>1, <2>1, <2>2, <2>3
  <1>13. Untroubled' => Untroubled BY <1>1 DEF Untroubled
  <1>14. Linked' BY <1>1, <1>13 DEF Inv, Linked
  <1>15. Tied'
    <2>1. \A t \in Linking : Stale(t) => Stale(t)' BY <1>1, <1>3 DEF Stale, Piecemeal
    <2>2. \A t \in Linking : EdgeTied(t) => EdgeTied(t)' BY <1>1 DEF EdgeTied, Has, Home
    <2> QED BY <1>13, <2>1, <2>2 DEF Inv, Tied
  <1>16. Reloaded'
    <2>1. Reload' => Reload BY <1>1, <1>3 DEF Reload
    <2>2. \A j : (Written(j)' <=> Written(j)) /\ (Emptied(j)' <=> Emptied(j)) /\ Of(j)' = Of(j)
      BY <1>1 DEF Written, Emptied, Of, Home
    <2> QED BY <1>1, <2>1, <2>2 DEF Inv, Reloaded, DocOf
  <1> QED BY <1>5, <1>6, <1>7, <1>8, <1>9, <1>10, <1>11, <1>12, <1>14, <1>15, <1>16 DEF Inv

(***************************************************************************)
(* The theorems                                                            *)
(***************************************************************************)

LEMMA InvInit == Init => Inv
  <1> SUFFICES ASSUME Init PROVE Inv OBVIOUS
  <1>1. /\ source \in InitialRows /\ Consistent(source) /\ layout \in Layouts
        /\ target = [c \in Collections |-> {}] /\ graph = FALSE /\ dead = {}
        /\ stage = "idle" /\ opts = (CHOOSE o \in RunOptions : TRUE) /\ view = Nothing
        /\ jobs = [j \in Jobs |-> Idle] /\ errors = [c \in Collections |-> 0]
        /\ runs = 0 /\ mishaps = {}
    BY DEF Init
  <1>2. opts \in RunOptions BY <1>1, PipelineAssumption
  <1>3. \A j \in Jobs : jobs[j] = Idle BY <1>1
  <1>4. Idle \in Job /\ Idle.at = "queued" /\ Idle.read = {} /\ Idle.left = {}
    BY DEF Idle, Job, Places
  <1>5. Sound(Nothing) /\ Nothing \in Contents BY NothingSound
  <1>6. source \in Contents /\ Sound(source) BY <1>1, PipelineAssumption DEF Sound
  <1>7. TypeOK
    <2>1. jobs \in [Jobs -> Job] BY <1>1, <1>4
    <2>2. errors \in [Collections -> 0 .. ErrorCap] BY <1>1, PipelineAssumption
    <2> QED BY <1>1, <1>2, <1>5, <1>6, <2>1, <2>2 DEF TypeOK, Stages, Job
  <1>8. Sourced BY <1>1, <1>5, <1>6 DEF Sourced
  <1>9. Progressing BY <1>3, <1>4, FS_EmptySet DEF Progressing, Progress
  <1>10. Phases BY <1>1, <1>3, <1>4 DEF Phases, Going, Before
  <1>11. Accounted /\ Viewed BY <1>3, <1>4 DEF Accounted, Written, Viewed
  <1>12. FirstLoad /\ NoErrors /\ Whole BY <1>1 DEF FirstLoad, NoErrors, Whole
  <1>13. NotResumed BY <1>1, <1>3, <1>4, JobParts DEF NotResumed
  <1>14. Linked BY <1>3, <1>4, TableJobs DEF Linked, Linking
  <1>15. Tied
    <2>1. \A t \in Linking : EdgeTied(t)
      BY <1>1, TableJobs, JobParts DEF EdgeTied, Linking
    <2> QED BY <2>1 DEF Tied
  <1>16. Reloaded BY <1>1, <1>3, <1>4 DEF Reloaded, Written, Emptied
  <1> QED BY <1>7, <1>8, <1>9, <1>10, <1>11, <1>12, <1>13, <1>14, <1>15, <1>16 DEF Inv

LEMMA InvNext == Inv /\ [Next]_vars => Inv'
  <1> SUFFICES ASSUME Inv, [Next]_vars PROVE Inv' OBVIOUS
  <1>1. CASE Next BY <1>1, JobStepNext, CheckNext, DropGraphNext, PrepareNext, OpenNext,
    RaiseEarlyNext, EndPhaseNext, CreateGraphNext, BeginNext, CommitNext DEF Next, RunStep
  <1>2. CASE UNCHANGED vars
    <2>1. UNCHANGED <<source, target, graph, dead, layout, stage, opts, view, jobs, errors, runs, mishaps>>
      BY <1>2 DEF vars, database, bounds
    <2>2. TypeOK' BY <2>1 DEF Inv, TypeOK
    <2>3. Sourced' /\ Progressing' BY <2>1
      DEF Inv, Sourced, Sound, Consistent, Progressing, Progress, JobsOf
    <2>4. Phases' BY <2>1 DEF Inv, Phases, Going, Finished, JobsOf, Piecemeal
    <2>5. Accounted' BY <2>1 DEF Inv, Accounted, Written, Reported, Present, Home, SameKey, DocOf
    <2>6. FirstLoad' /\ NoErrors' /\ Whole' /\ NotResumed'
      BY <2>1 DEF Inv, FirstLoad, NoErrors, Whole, NotResumed
    <2>7. Viewed' /\ Linked' BY <2>1 DEF Inv, Viewed, Linked, InProgress, Selected, Untroubled
    <2>8. Tied'
      <3>1. (Untroubled' <=> Untroubled) /\ \A t : Stale(t)' <=> Stale(t)
        BY <2>1 DEF Untroubled, Stale, Piecemeal
      <3>2. \A t : EdgeTied(t)' <=> EdgeTied(t) BY <2>1 DEF EdgeTied, Has, Home
      <3> QED BY <3>1, <3>2 DEF Inv, Tied
    <2>9. Reloaded' BY <2>1 DEF Inv, Reloaded, Reload, Written, Emptied, Of, Home, DocOf
    <2> QED BY <2>2, <2>3, <2>4, <2>5, <2>6, <2>7, <2>8, <2>9 DEF Inv
  <1> QED BY <1>1, <1>2

LEMMA Invariance == Spec => []Inv
  <1> QED BY InvInit, InvNext, PTL DEF Spec

(* The types of the variables.                                             *)
THEOREM TypeCorrect == Spec => []TypeOK
  <1>1. Inv => TypeOK BY DEF Inv
  <1> QED BY <1>1, Invariance, PTL

(* A load that completes has stored every row its jobs read, or lists an   *)
(* error: by Accounted, a job that is done has nothing left in hand.       *)
THEOREM RowsAreAccountedFor == Spec => []RowsAccountedFor
  <1>1. Inv => RowsAccountedFor
    <2> SUFFICES ASSUME Inv, Loaded, NEW j \in JobsOf("doc") \cup JobsOf("edge"),
                        jobs[j].at # "skipped", ~Reported(j)
                 PROVE  \A r \in jobs[j].read : Present(j, r)
      BY DEF RowsAccountedFor, Reported, Present
    <2>1. j \in Jobs BY DEF JobsOf
    <2>2. jobs[j].at = "done" BY DEF Loaded, Inv, Phases, Finished
    <2>3. jobs[j].left = {} BY <2>1, <2>2 DEF Inv, Progressing, Progress
    <2> QED BY <2>1, <2>2, <2>3 DEF Inv, Accounted, Written, Loaded
  <1> QED BY <1>1, Invariance, PTL

(* When a load has completed, both ends of every edge are there: what the  *)
(* edge jobs read refers to rows the document jobs have read and stored.   *)
THEOREM NoEdgeDangles == Spec => []EdgesHaveEnds
  <1>1. Inv => EdgesHaveEnds
    <2> SUFFICES ASSUME Inv, Loaded, Untroubled, "emptied" \notin mishaps, NEW t \in Linking
                 PROVE  EdgeTied(t)
      BY DEF EdgesHaveEnds, EdgeTied, Untroubled
    <2>1. ~Stale(t) BY DEF Stale, Loaded
    <2> QED BY <2>1 DEF Inv, Tied
  <1> QED BY <1>1, Invariance, PTL

(* A load that drops the collections leaves what its view holds, whatever  *)
(* earlier loads left behind.                                              *)
THEOREM ReloadLeavesNothingElse == Spec => []ReloadIsFresh
  <1>1. Inv => ReloadIsFresh
    <2> SUFFICES ASSUME Inv, Loaded, opts.drop, ~opts.skip, opts.workers = 1,
                        "rejected" \notin mishaps, "partial" \notin mishaps, NEW j \in Jobs
                 PROVE  Of(j) = Image(j, view)
      BY DEF ReloadIsFresh, Of
    <2>1. opts.only = Tables /\ ~opts.since BY DEF Inv, Whole, Loaded
    <2>2. j \in JobsOf("doc") \/ j \in JobsOf("edge") BY <2>1, JobParts DEF JobsOf
    <2>3. jobs[j].at = "done"
      BY <2>2 DEF Inv, Loaded, Phases, Finished, Progressing, Progress
    <2>4. jobs[j].left = {} BY <2>3 DEF Inv, Progressing, Progress
    <2>5. jobs[j].read = Selected(j, view) BY <2>3 DEF Inv, Viewed
    <2>6. Selected(j, view) = {s \in view[j[2]] : j[1] = "edge" => s.ref # NoRef}
      BY <2>1 DEF Selected
    <2>7. Reload BY DEF Reload, Loaded
    <2>8. Of(j) = {DocOf(j, r) : r \in jobs[j].read} BY <2>3, <2>4, <2>7 DEF Inv, Reloaded, Written
    <2> QED BY <2>5, <2>6, <2>8 DEF Image
  <1> QED BY <1>1, Invariance, PTL

(***************************************************************************)
(* The writer: for any documents, contents, number of retries and faults,  *)
(* a call ends in one of the WriterOutcomes.  What a lost reply has left   *)
(* behind, met by the next attempt, is again something that a single lost  *)
(* reply could have left.                                                  *)
(***************************************************************************)

(* What lost replies may have left of a call made on st.                   *)
Partial(st, c) == {Store(st, c, ids) : ids \in SUBSET Accepted(st, c)}
Left(st, c) == IF c.op \in ImportModes THEN Partial(st, c) ELSE {Execute(st, c).store}

Results == {"ok", "duplicate", "not_found", "import_errors", "error"}

(* A call that is under way has changed nothing, or what lost replies may. *)
UnderWay ==
  result = "none" => store = before \/ ("lost_reply" \in Faults /\ store \in Left(before, call))

Targets == [DocIds -> (Payloads \ BadDocs) \cup {NoDoc}]
WriterInv == WriterTypeOK /\ UnderWay /\ OutcomeIsListed

LEMMA CallShape ==
  ASSUME NEW c \in Calls
  PROVE  /\ c.op \in {"insert", "replace", "delete"} \cup ImportModes
         /\ DOMAIN c.docs \subseteq DocIds
         /\ \A id \in DOMAIN c.docs : c.docs[id] \in Payloads \cup {NoDoc}
         /\ c.op # "delete" => \A id \in DOMAIN c.docs : c.docs[id] \in Payloads
         /\ c.op \notin ImportModes => \E id \in DocIds : DOMAIN c.docs = {id}
  <1>1. CASE \E id \in DocIds, d \in Payloads : c \in {Insert(id, d), Replace(id, d), Delete(id)}
    <2>1. PICK id \in DocIds, d \in Payloads : c \in {Insert(id, d), Replace(id, d), Delete(id)}
      BY <1>1
    <2> QED BY <2>1 DEF Insert, Replace, Delete, ImportModes
  <1>2. CASE \E ids \in (SUBSET DocIds) \ {{}} : \E docs \in [ids -> Payloads], m \in ImportModes :
               c = Import(docs, m)
    BY <1>2 DEF Import, ImportModes
  <1> QED BY <1>1, <1>2 DEF Calls

(* The server stores good contents only.                                   *)
LEMMA StoreShape ==
  ASSUME NEW st \in Targets, NEW c \in Calls, NEW ids \in SUBSET Accepted(st, c)
  PROVE  Store(st, c, ids) \in Targets
  <1>1. \A id \in ids : c.docs[id] \in (Payloads \ BadDocs) \cup {NoDoc}
    BY CallShape DEF Accepted
  <1> QED BY <1>1 DEF Store, Targets

LEMMA AnswerShape == ASSUME NEW st, NEW c PROVE Answer(st, c) \in Results
  BY DEF Answer, Results

(* Two lost replies of one import leave what one might have left.          *)
LEMMA PartialTwice ==
  ASSUME NEW st \in Targets, NEW c \in Calls, c.op \in ImportModes,
         NEW s \in Partial(st, c), NEW more \in SUBSET Accepted(s, c)
  PROVE  Store(s, c, more) \in Partial(st, c)
  <1>1. PICK ids \in SUBSET Accepted(st, c) : s = Store(st, c, ids) BY DEF Partial
  <1>2. more \subseteq Accepted(st, c)
    <2> SUFFICES ASSUME NEW id \in more PROVE id \in Accepted(st, c) OBVIOUS
    <2>1. CASE id \in ids BY <2>1
    <2>2. CASE id \notin ids
      <3>1. id \in DocIds BY CallShape DEF Accepted
      <3>2. s[id] = st[id] BY <1>1, <2>2, <3>1 DEF Store
      <3> QED BY <3>2 DEF Accepted
    <2> QED BY <2>1, <2>2
  <1>3. Store(s, c, more) = Store(st, c, ids \cup more)
    BY <1>1 DEF Store
  <1> QED BY <1>2, <1>3 DEF Partial

(* A single operation done twice leaves what it leaves when done once.     *)
LEMMA SingleTwice ==
  ASSUME NEW st \in Targets, NEW c \in Calls, c.op \notin ImportModes
  PROVE  Execute(Execute(st, c).store, c).store = Execute(st, c).store
  <1> DEFINE s == Store(st, c, Accepted(st, c))
  <1>1. Execute(st, c).store = s BY DEF Execute
  <1>2. \A id \in DocIds : Store(s, c, Accepted(s, c))[id] = s[id]
    <2> SUFFICES ASSUME NEW id \in DocIds, id \in Accepted(s, c) PROVE c.docs[id] = s[id]
      BY DEF Store
    <2>1. CASE id \in Accepted(st, c) BY <2>1 DEF Store
    <2>2. CASE id \notin Accepted(st, c)
      <3>1. s[id] = st[id] BY <2>2 DEF Store
      <3> QED BY <2>2, <3>1 DEF Accepted
    <2> QED BY <2>1, <2>2
  <1>3. Store(s, c, Accepted(s, c)) = s BY <1>2 DEF Store
  <1> HIDE DEF s
  <1> QED BY <1>1, <1>3 DEF Execute

(* What an attempt leaves whose reply is lost.                             *)
LEMMA LostAgain ==
  ASSUME WriterInv, result = "none", ReplyLost
  PROVE  store' \in Left(before, call)
  <1> USE DEF WriterInv, WriterTypeOK, Targets
  <1>0. before \in Targets /\ call \in Calls OBVIOUS
  <1>1. CASE call.op \in ImportModes
    <2>1. PICK ids \in SUBSET Accepted(store, call) : store' = Store(store, call, ids)
      BY <1>1 DEF ReplyLost
    <2>2. CASE store = before BY <1>1, <2>1, <2>2 DEF Left, Partial
    <2>3. CASE store \in Left(before, call)
      <3>1. store \in Partial(before, call) BY <1>1, <2>3 DEF Left
      <3> QED BY <1>0, <1>1, <2>1, <3>1, PartialTwice DEF Left
    <2> QED BY <2>2, <2>3 DEF UnderWay
  <1>2. CASE call.op \notin ImportModes
    <2>1. store' = Execute(store, call).store BY <1>2 DEF ReplyLost
    <2>2. CASE store = before BY <1>2, <2>1, <2>2 DEF Left
    <2>3. CASE store \in Left(before, call)
      <3>1. store = Execute(before, call).store BY <1>2, <2>3 DEF Left
      <3> QED BY <1>0, <1>2, <2>1, <3>1, SingleTwice DEF Left
    <2> QED BY <2>2, <2>3 DEF UnderWay
  <1> QED BY <1>1, <1>2

LEMMA LeftShape ==
  ASSUME NEW st \in Targets, NEW c \in Calls, NEW s \in Left(st, c)
  PROVE  s \in Targets
  <1>1. \A ids \in SUBSET Accepted(st, c) : Store(st, c, ids) \in Targets BY StoreShape
  <1> QED BY <1>1 DEF Left, Partial, Execute

(* The outcomes in terms of what may be left.                              *)
LEMMA Listed ==
  ASSUME NEW st, NEW c
  PROVE  /\ Execute(st, c) \in WriterOutcomes(st, c)
         /\ "refused" \in Faults => [store |-> st, result |-> "error"] \in WriterOutcomes(st, c)
         /\ "lost_reply" \in Faults => \A s \in Left(st, c) :
              /\ [store |-> s, result |-> "error"] \in WriterOutcomes(st, c)
              /\ Execute(s, c) \in WriterOutcomes(st, c)
  BY DEF WriterOutcomes, Left, Partial

LEMMA WriterInvInit == WriterInit => WriterInv
  <1> SUFFICES ASSUME WriterInit PROVE WriterInv OBVIOUS
  <1> QED BY MaxRetriesAssumption DEF WriterInit, WriterInv, WriterTypeOK, UnderWay, OutcomeIsListed

LEMMA WriterInvReply == ASSUME WriterInv, Reply PROVE WriterInv'
  <1>1. Execute(store, call) = [store |-> store', result |-> result']
    BY DEF Reply, Execute
  <1>2. result' \in Results BY AnswerShape DEF Reply, Execute
  <1>3. store' \in Targets BY StoreShape DEF Reply, Execute, WriterInv, WriterTypeOK, Targets
  <1>4. Execute(store, call) \in WriterOutcomes(before, call)
    BY Listed DEF WriterInv, UnderWay, Reply
  <1>5. WriterTypeOK' BY <1>2, <1>3 DEF Reply, WriterInv, WriterTypeOK, Targets, Results
  <1>6. result' # "none" BY <1>2 DEF Results
  <1> QED BY <1>1, <1>4, <1>5, <1>6 DEF Reply, WriterInv, UnderWay, OutcomeIsListed

(* Both ways a turn of the loop can end in a transient error.              *)
LEMMA WriterInvTurn ==
  ASSUME WriterInv, result = "none", RetryOrRaise, UNCHANGED <<call, before>>,
         \/ store' = store /\ "refused" \in Faults
         \/ store' \in Left(before, call) /\ "lost_reply" \in Faults
  PROVE  WriterInv'
  <1>1. store' \in Targets BY LeftShape DEF WriterInv, WriterTypeOK, Targets
  <1>2. attempt' \in 0 .. MaxRetries /\ result' \in {"none", "error"}
    BY MaxRetriesAssumption DEF RetryOrRaise, WriterInv, WriterTypeOK
  <1>3. WriterTypeOK' BY <1>1, <1>2 DEF WriterInv, WriterTypeOK, Targets
  <1>4. UnderWay' BY DEF WriterInv, UnderWay, Left, Partial
  <1>5. ASSUME result' = "error"
        PROVE  [store |-> store', result |-> result'] \in WriterOutcomes(before, call)
    BY <1>5, Listed DEF WriterInv, UnderWay
  <1>6. OutcomeIsListed' BY <1>2, <1>5 DEF OutcomeIsListed
  <1> QED BY <1>3, <1>4, <1>6 DEF WriterInv

LEMMA WriterInvNext == WriterInv /\ [WriterNext]_writerVars => WriterInv'
  <1> SUFFICES ASSUME WriterInv, [WriterNext]_writerVars PROVE WriterInv' OBVIOUS
  <1>1. CASE Reply BY <1>1, WriterInvReply
  <1>2. CASE RequestLost BY <1>2, WriterInvTurn DEF RequestLost
  <1>3. CASE ReplyLost BY <1>3, WriterInvTurn, LostAgain DEF ReplyLost
  <1>4. CASE NonRetryable
    <2>1. [store |-> store, result |-> "error"] \in WriterOutcomes(before, call)
      BY <1>4, Listed DEF NonRetryable, WriterInv, UnderWay
    <2> QED BY <1>4, <2>1 DEF NonRetryable, WriterInv, WriterTypeOK, UnderWay, OutcomeIsListed
  <1>5. CASE NextCall
    BY <1>5, MaxRetriesAssumption DEF NextCall, WriterInv, WriterTypeOK, UnderWay, OutcomeIsListed
  <1>6. CASE UNCHANGED writerVars
    BY <1>6 DEF writerVars, WriterInv, WriterTypeOK, UnderWay, OutcomeIsListed, Left, Partial
  <1> QED BY <1>1, <1>2, <1>3, <1>4, <1>5, <1>6 DEF WriterNext, Attempt

(* Whatever requests and replies are lost, and however often, a call of    *)
(* the writer ends in one of the outcomes that the CDC modules assume of   *)
(* it (arango_writer.py:155-202, 260-287).                                 *)
THEOREM CallsEndAsListed == WriterSpec => []OutcomeIsListed
  <1>1. WriterInv => OutcomeIsListed BY DEF WriterInv
  <1> QED BY WriterInvInit, WriterInvNext, <1>1, PTL DEF WriterSpec
=============================================================================
