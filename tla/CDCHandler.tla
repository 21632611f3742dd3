----------------------------- MODULE CDCHandler -----------------------------
(***************************************************************************)
(* r2g/cdc/handler.py: CDCHandler applies a batch of change events to the  *)
(* target, transaction by transaction, delta by delta.  The consumers      *)
(* (KafkaConsumer, PgListener) hand it the batch and decide what an        *)
(* exception means; both abandon the rest of the batch.                    *)
(*                                                                         *)
(* A message is anything a consumer uses to name an event it received;     *)
(* batch maps messages to events and arrival gives their order.            *)
(***************************************************************************)
EXTENDS ConflictResolver, DeltaTransformer, SequencesExt

ASSUME TargetAssumption ==
  /\ Nodes \cup Edges \subseteq DocIds
  /\ NoDoc \notin [body : Rows \cup {NoRow}, lsn : Nat \cup {NoLsn}]

VARIABLES
  policy,    \* resolver.policy, fixed for the life of the handler
  store,     \* the target database
  batch,     \* the parsed events of the batch: message -> event
  arrival,   \* message -> position in the batch as received
  todo,      \* messages of the batch no group has taken yet
  group,     \* messages of the group in progress
  work,      \* its deltas still to apply: <<[delta, lsn, msg]>>
  pc,        \* "idle", "handling", "handled" or "raised"
  applied,   \* messages whose group went through handle_event/_transaction
  failed     \* messages with a delta that failed (stats.deltas_failed)

progressVars == <<todo, group, work, pc>>
handlerVars == <<policy, store, batch, arrival, todo, group, work, pc, applied, failed>>

(* The target that a full load of a table produces.                        *)
Doc(body) == [body |-> body, lsn |-> NoLsn]
Image(tbl) ==
  [id \in DocIds |->
     IF \E k \in Keys : tbl[k] # NoRow /\ id = Node(k) THEN Doc(tbl[id[2]])
     ELSE IF \E k \in Keys : tbl[k] # NoRow /\ Contains(EdgesOf(tbl[k]), id) THEN Doc(NoRow)
     ELSE NoDoc]

(* Equal but for the stamp.                                                *)
SameBody(d, e) == IF d = NoDoc \/ e = NoDoc THEN d = e ELSE d.body = e.body

HandlerInit ==
  /\ batch = <<>> /\ arrival = <<>>
  /\ todo = {} /\ group = {} /\ work = <<>>
  /\ pc = "idle" /\ applied = {} /\ failed = {}

(* group_by_transaction: a transaction is placed where its first event     *)
(* arrived, and so are all the events without a transaction id, one by one. *)
(* Leader(m) is that place; events of a group keep their order.            *)
SameTxn(m) == {n \in DOMAIN batch : batch[n].tid = batch[m].tid}
(* Mutant: where its last event arrived.                                   *)
LeaderAtLast(m) == Max({arrival[n] : n \in SameTxn(m)})
Leader(m) == Min({arrival[n] : n \in SameTxn(m)})
Before(m, n) ==
  \/ Leader(m) < Leader(n)
  \/ Leader(m) = Leader(n) /\ arrival[m] <= arrival[n]
First(m) == m \in todo /\ \A n \in todo : Before(m, n)
GroupOf(m) == IF batch[m].tid = NoTid THEN {m} ELSE SameTxn(m)

InOrder(msgs) ==
  CHOOSE s \in [1 .. Cardinality(msgs) -> msgs] :
    \A i, j \in DOMAIN s : i < j => arrival[s[i]] < arrival[s[j]]

(* The deltas of a message, each with the event's lsn.                     *)
DeltasOf(m) ==
  LET ds == Transform(batch[m])
  IN  [i \in DOMAIN ds |-> [delta |-> ds[i], lsn |-> batch[m].lsn, msg |-> m]]

(* A consumer hands over a non-empty batch.                                *)
BeginBatch(events, order) ==
  /\ pc = "idle"
  /\ batch' = events
  /\ arrival' = order
  /\ todo' = DOMAIN events
  /\ pc' = "handling"
  /\ UNCHANGED <<policy, store, group, work, applied, failed>>

Forget == batch' = <<>> /\ arrival' = <<>> /\ todo' = {} /\ group' = {} /\ work' = <<>>

(* An exception leaves handle_event or handle_transaction.                 *)
Raise == pc' = "raised" /\ Forget /\ UNCHANGED <<policy, applied>>

(* handle_event and handle_transaction transform before they apply.        *)
StartGroup ==
  /\ pc = "handling" /\ group = {}
  /\ \E m \in todo :
       /\ First(m)
       /\ IF \E n \in GroupOf(m) : TransformRaises(batch[n])
            THEN Raise /\ UNCHANGED <<store, failed>>
            ELSE /\ group' = GroupOf(m)
                 /\ todo' = todo \ GroupOf(m)
                 /\ LET ms == InOrder(GroupOf(m))
                    IN  work' = FlattenSeq([i \in DOMAIN ms |-> DeltasOf(ms[i])])
                 /\ UNCHANGED <<policy, store, batch, arrival, pc, applied, failed>>

(* What _apply_delta makes of one delta under the current policy.          *)
Resolve(w) ==
  LET doc == Doc(w.delta.body)
  IN  CASE w.delta.op = "INSERT"  -> ResolveInsert(policy, store, w.delta.id, doc, w.lsn)
        [] w.delta.op = "REPLACE" -> ResolveReplace(policy, store, w.delta.id, doc, w.lsn)
        [] w.delta.op = "DELETE"  -> ResolveDelete(store, w.delta.id)

(* A failed delta is counted and forgotten, except under the FAIL policy.  *)
ApplyDelta ==
  /\ pc = "handling" /\ work # <<>>
  /\ \E o \in Resolve(Head(work)) :
       /\ store' = o.store
       /\ failed' = IF o.verdict = "failed" THEN failed \cup {Head(work).msg} ELSE failed
       /\ IF o.verdict = "failed" /\ policy = "fail"
            THEN Raise
            ELSE work' = Tail(work) /\ UNCHANGED <<policy, batch, arrival, todo, group, pc, applied>>

(* handle_event or handle_transaction returns.                             *)
FinishGroup ==
  /\ pc = "handling" /\ group # {} /\ work = <<>>
  /\ applied' = applied \cup group
  /\ group' = {}
  /\ pc' = IF todo = {} THEN "handled" ELSE "handling"
  /\ UNCHANGED <<policy, store, batch, arrival, todo, work, failed>>

HandlerStep == StartGroup \/ ApplyDelta \/ FinishGroup

(* The consumer is done with the batch, or the process that ran it died.   *)
DropBatch == pc' = "idle" /\ Forget /\ UNCHANGED <<policy, store, applied, failed>>
=============================================================================
