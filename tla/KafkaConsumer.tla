---------------------------- MODULE KafkaConsumer ----------------------------
(***************************************************************************)
(* r2g/cdc/kafka_consumer.py: one consumer of a topic whose partitions     *)
(* carry the change events of a table, the source that fills them, and the *)
(* handler that applies them.  Rows are assigned to partitions by key, and *)
(* a delete is followed by a tombstone, as Debezium does.                  *)
(***************************************************************************)
EXTENDS CDCHandler, SourceTable

CONSTANTS
  Partitions,
  PartitionOf,     \* the partition of each key
  Tombstone,       \* a message the parser returns None for
  BatchSize,       \* batch_size of consume()
  MaxRestarts,     \* bound: crashes and stop signals
  StartPolicies    \* the conflict policies the handler may be given

ASSUME BoundsAssumption == MaxEvents \in Nat /\ BatchSize \in Nat \ {0}

ASSUME TopicAssumption ==
  /\ PartitionOf \in [Keys -> Partitions]
  /\ Tombstone \notin [op : {"INSERT", "UPDATE", "DELETE"}, new : Rows \cup {NoRow},
                       old : Rows \cup {NoRow}, lsn : Nat, tid : Nat \cup {NoTid}]

ASSUME PoliciesAssumption == StartPolicies \subseteq Policies

VARIABLES
  log,        \* partition -> sequence of messages, as the broker has it
  committed,  \* partition -> offset committed for the group
  position,   \* partition -> offset of the running consumer
  process,    \* "running", "stopping" (signal received) or "down"
  restarts    \* how often it crashed or was told to stop

kafkaVars == <<log, committed, position, process, restarts>>
vars == <<sourceVars, handlerVars, kafkaVars>>

Offsets == 1..(2 * MaxEvents)
Messages == Partitions \X Offsets

Init ==
  /\ SourceInit
  /\ HandlerInit
  /\ policy \in StartPolicies
  /\ store = Image(InitRows)
  /\ log = [p \in Partitions |-> <<>>]
  /\ committed = [p \in Partitions |-> 0]
  /\ position = committed
  /\ process = "running" /\ restarts = 0

(* What the i-th row change of a transaction puts on a partition.          *)
MessagesFor(p, txn, i) ==
  CASE i > Len(txn) \/ PartitionOf[txn[i].key] # p -> <<>>
    [] OTHER -> <<EventsOf(txn)[i]>> \o IF txn[i].op = "DELETE" THEN <<Tombstone>> ELSE <<>>

(* The source commits and its events reach the broker, in order, each on   *)
(* the partition of its row.                                               *)
Produce ==
  /\ \E txn \in Transactions(rows) :
       /\ CommitTxn(txn)
       /\ log' = [p \in Partitions |->
                    log[p] \o MessagesFor(p, txn, 1) \o MessagesFor(p, txn, 2)]
  /\ UNCHANGED <<handlerVars, committed, position, process, restarts>>

(* The messages between the consumer's position and upto, and the parsed   *)
(* ones among them.                                                        *)
Fetched(upto) ==
  UNION {{<<p, o>> : o \in (position[p] + 1)..upto[p]} : p \in Partitions}
Parsed(msgs)  == {m \in msgs : log[m[1]][m[2]] # Tombstone}

(* consume(): messages of several partitions, each partition in order.     *)
Arrivals(msgs) ==
  {a \in Bijection(msgs, 1..Cardinality(msgs)) :
     \A m, n \in msgs : m[1] = n[1] /\ m[2] < n[2] => a[m] < a[n]}

(* _consume_batch.  The position moves past the batch at once; a batch     *)
(* without events goes round the loop without a commit.                    *)
Batches ==
  {upto \in [Partitions -> 0..(2 * MaxEvents)] :
     /\ \A p \in Partitions : position[p] <= upto[p] /\ upto[p] <= Len(log[p])
     /\ upto # position
     /\ Cardinality(Fetched(upto)) <= BatchSize}

Waiting == process = "running" /\ pc = "idle"
ConsumeUpTo(upto) ==
  /\ position' = upto
  /\ LET events == Parsed(Fetched(upto))
     IN  IF events = {}
           THEN UNCHANGED handlerVars
           ELSE \E order \in Arrivals(events) :
                  BeginBatch([m \in events |-> log[m[1]][m[2]]], order)
  /\ UNCHANGED <<sourceVars, log, process, restarts>>

(* Mutant: enable.auto.commit, which commits what was handed out.          *)
ConsumeAutoCommits ==
  Waiting /\ \E upto \in Batches : ConsumeUpTo(upto) /\ committed' = upto

Consume == Waiting /\ \E upto \in Batches : ConsumeUpTo(upto) /\ UNCHANGED committed

Handle == process # "down" /\ HandlerStep /\ UNCHANGED <<sourceVars, kafkaVars>>

(* _commit: everything up to the position; a failure is only logged.       *)
Commit ==
  /\ process # "down" /\ pc = "handled"
  /\ \/ committed' = position
     \/ committed' = committed
  /\ DropBatch
  /\ UNCHANGED <<sourceVars, log, position, process, restarts>>

(* The loop catches what the handler raised, logs it, sleeps and goes on;  *)
(* a stopping consumer leaves instead.                                     *)
CatchError ==
  /\ process # "down" /\ pc = "raised"
  /\ DropBatch
  /\ process' = IF process = "running" THEN "running" ELSE "down"
  /\ UNCHANGED <<sourceVars, log, committed, position, restarts>>

StopSignal ==
  /\ process = "running" /\ restarts < MaxRestarts
  /\ process' = "stopping"
  /\ restarts' = restarts + 1
  /\ UNCHANGED <<sourceVars, handlerVars, log, committed, position>>

(* while self._running: leaves between two batches.                        *)
Exit ==
  /\ process = "stopping" /\ pc = "idle"
  /\ process' = "down"
  /\ UNCHANGED <<sourceVars, handlerVars, log, committed, position, restarts>>

(* Mutant: a dying consumer commits the position it had reached.           *)
CrashCommits ==
  /\ process # "down" /\ restarts < MaxRestarts
  /\ process' = "down"
  /\ restarts' = restarts + 1
  /\ DropBatch
  /\ committed' = position
  /\ UNCHANGED <<sourceVars, log, position>>

(* The process dies, whatever it was doing.                                *)
Crash ==
  /\ process # "down" /\ restarts < MaxRestarts
  /\ process' = "down"
  /\ restarts' = restarts + 1
  /\ DropBatch
  /\ UNCHANGED <<sourceVars, log, committed, position>>

StartAt(offsets) ==
  /\ process = "down"
  /\ process' = "running"
  /\ position' = offsets
  /\ UNCHANGED <<sourceVars, handlerVars, log, committed, restarts>>

(* Mutant: a run that ignores the committed offsets and starts at the end  *)
(* of each partition.                                                      *)
StartAtLatest == StartAt([p \in Partitions |-> Len(log[p])])

(* A new run of the consumer resumes from the committed offsets.           *)
Start == StartAt(committed)

(* What the loop of run() does, and whoever starts it again; at any time   *)
(* there is one such step it can take, or it waits for messages.           *)
Run == Consume \/ Handle \/ Commit \/ CatchError \/ Exit \/ Start

Next == Produce \/ Run \/ StopSignal \/ Crash

Fairness == WF_vars(Run)

Spec == Init /\ [][Next]_vars /\ Fairness

(***************************************************************************)
(* Properties                                                              *)
(***************************************************************************)

TypeOK ==
  /\ rows \in [Keys -> Rows \cup {NoRow}] /\ emitted \in 0..MaxEvents
  /\ policy \in Policies
  /\ DOMAIN store = DocIds
  /\ DOMAIN log = Partitions
  /\ \A p \in Partitions : committed[p] <= position[p] /\ position[p] <= Len(log[p])
  /\ todo \subseteq DOMAIN batch /\ group \subseteq DOMAIN batch
  /\ DOMAIN batch \subseteq Messages
  /\ pc \in {"idle", "handling", "handled", "raised"}
  /\ (pc = "handling") # (todo = {} /\ group = {})
  /\ process \in {"running", "stopping", "down"} /\ restarts \in 0..MaxRestarts

(* "Commits offsets only after successful processing to provide            *)
(* at-least-once" (kafka_consumer.py:11): below the committed offset every *)
(* event has been through the handler, whatever crashed, stopped or was    *)
(* committed late.  The FAIL policy gives this up: the batch it abandons   *)
(* is covered by the next commit.                                          *)
Gone == policy = "fail" \/ BadVals # {}
AtLeastOnce ==
  ~Gone =>
    \A p \in Partitions : \A o \in 1..committed[p] :
      log[p][o] = Tombstone \/ <<p, o>> \in applied

(* The consumer implements at-least-once delivery of its log: offsets only *)
(* grow, over delivered messages.  Under the FAIL policy no commit counts  *)
(* as an acknowledgement.                                                  *)
Acknowledged == [p \in Partitions |-> IF Gone THEN 0 ELSE committed[p]]
Delivery == INSTANCE DeliveredLog WITH delivered <- applied, acked <- Acknowledged
ImplementsDelivery == Delivery!Spec

(* "Preserves Kafka partition ordering" (kafka_consumer.py:15), as far as  *)
(* group_by_transaction (handler.py:289) leaves it: no message is handed   *)
(* to the handler before an earlier one of its partition, but by a         *)
(* transaction one of whose messages, on another partition, had arrived    *)
(* before that earlier one.                                                *)
PartitionOrder ==
  [][\A m \in group' \ group : \A n \in todo :
        m[1] = n[1] /\ n[2] < m[2] =>
          \/ n \in group'
          \/ \E l \in group' : l[1] # m[1] /\ arrival[l] < arrival[n]]_vars

(* The same as the docstring has it: no message before an earlier one of   *)
(* its partition.                                                          *)
NeverOvertaken ==
  [][\A m \in group' \ group : \A n \in todo :
        m[1] = n[1] /\ n[2] < m[2] => n \in group']_vars

(* No transaction in the log has messages on two partitions.               *)
Events == {m \in Messages : m[2] <= Len(log[m[1]]) /\ log[m[1]][m[2]] # Tombstone}
Tid(m) == log[m[1]][m[2]].tid
Contained == \A m, n \in Events : Tid(m) = Tid(n) /\ Tid(m) # NoTid => m[1] = n[1]

(* Once the consumer has caught up, the target is the image of the table,  *)
(* whatever was redelivered after a crash and under every policy that goes *)
(* on after a conflict, unless a transaction with messages on two          *)
(* partitions may have overtaken another.                                  *)
CaughtUp ==
  /\ Waiting
  /\ \A p \in Partitions : position[p] = Len(log[p])
Mirror == \A id \in DocIds : SameBody(store[id], Image(rows)[id])
CaughtUpMeansMirror ==
  CaughtUp /\ failed = {} /\ policy # "fail" /\ Contained => Mirror

(* "Commits offsets only after successful processing" (kafka_consumer.py:11): *)
(* no committed event has a delta that failed to apply.                    *)
CommittedMeansApplied ==
  \A p \in Partitions : \A o \in 1..committed[p] :
    log[p][o] = Tombstone \/ <<p, o>> \notin failed

(* "Reject events whose LSN is older than the last applied LSN for that    *)
(* key" (conflict.py:34): the stamp of a document never goes back.         *)
Stamped(d) == d # NoDoc /\ d.lsn # NoLsn
NeverOlder ==
  [][\A id \in DocIds :
        Stamped(store[id]) /\ Stamped(store'[id]) => store'[id].lsn >= store[id].lsn]_vars

(* "On UPDATE edges are replaced to reflect new FK values"                 *)
(* (delta_transformer.py:44): once caught up, an edge stands for a foreign *)
(* key some row has.                                                       *)
NoStaleEdge ==
  CaughtUp /\ failed = {} =>
    \A e \in Edges : store[e] # NoDoc => Image(rows)[e] # NoDoc

(* The consumer catches up again and again: no event the broker holds stays *)
(* unhandled for ever.                                                     *)
KeepsCatchingUp == []<>(Gone \/ Events \subseteq applied)
=============================================================================
