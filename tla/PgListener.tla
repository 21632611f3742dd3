----------------------------- MODULE PgListener -----------------------------
(***************************************************************************)
(* r2g/cdc/pg_listener.py: the polling loop over a logical replication     *)
(* slot, its set-up and tear-down, the initial load it continues, and the  *)
(* handler that applies what it polls.  pg_logical_slot_get_changes moves  *)
(* the slot when it returns the changes, so a change is read only once.    *)
(***************************************************************************)
EXTENDS CDCHandler, SourceTable

CONSTANTS
  NoSlot,            \* the replication slot does not exist
  LoadBeforeSlot,    \* is the slot created after the initial load, or before?
  MaxInterruptions,  \* bound: crashes, lost polls, slots dropped
  MaxStops,          \* bound: stop signals
  StartPolicies      \* the conflict policies the handler may be given

ASSUME SlotAssumption == NoSlot \notin Nat
ASSUME PoliciesAssumption == StartPolicies \subseteq Policies

VARIABLES
  wal,            \* the events the source has committed
  boundaries,     \* the positions at which a transaction ends
  slot,           \* how much of wal the slot has handed out, or NoSlot
  loaded,         \* has the initial load run?
  base,           \* history: how much of wal preceded both load and slot
  process,        \* "running", "stopping" (signal received) or "down"
  interruptions,  \* crashes, lost polls and slots dropped so far
  stops           \* stop signals so far

listenerVars == <<wal, boundaries, slot, loaded, base, process, interruptions, stops>>
vars == <<sourceVars, handlerVars, listenerVars>>

Init ==
  /\ SourceInit
  /\ HandlerInit
  /\ policy \in StartPolicies
  /\ store = [id \in DocIds |-> NoDoc]
  /\ wal = <<>> /\ boundaries = {0}
  /\ slot = NoSlot /\ loaded = FALSE /\ base = 0
  /\ process = "down" /\ interruptions = 0 /\ stops = 0

Commit ==
  /\ \E txn \in Transactions(rows) : CommitTxn(txn) /\ wal' = wal \o EventsOf(txn)
  /\ boundaries' = boundaries \cup {Len(wal')}
  /\ UNCHANGED <<handlerVars, slot, loaded, base, process, interruptions, stops>>

(* create_slot: a no-op when the slot exists.                              *)
CreateSlot == slot' = IF slot = NoSlot THEN Len(wal) ELSE slot

(* cdc-setup.                                                              *)
Setup ==
  /\ slot = NoSlot
  /\ LoadBeforeSlot => loaded
  /\ CreateSlot
  /\ base' = IF loaded THEN base ELSE Len(wal)
  /\ UNCHANGED <<sourceVars, handlerVars, wal, boundaries, loaded, process, interruptions, stops>>

(* The initial load: one snapshot of the table becomes the target.         *)
Load ==
  /\ ~loaded
  /\ ~LoadBeforeSlot => slot # NoSlot
  /\ \A k \in Present(rows) : rows[k].val \notin BadVals
  /\ store' = Image(rows)
  /\ loaded' = TRUE
  /\ base' = IF slot = NoSlot THEN Len(wal) ELSE base
  /\ UNCHANGED <<sourceVars, policy, batch, arrival, todo, group, work, pc, applied, failed,
                 wal, boundaries, slot, process, interruptions, stops>>

(* cdc-start, with --create-slot as by default.                            *)
Start ==
  /\ process = "down" /\ loaded
  /\ process' = "running"
  /\ CreateSlot
  /\ UNCHANGED <<sourceVars, handlerVars, wal, boundaries, loaded, base, interruptions, stops>>

PollUpTo(upto) ==
  /\ process = "running" /\ pc = "idle" /\ slot # NoSlot
  /\ upto > slot
  /\ LET polled == (slot + 1)..upto
     IN  BeginBatch([i \in polled |-> wal[i]], [i \in polled |-> i])
  /\ UNCHANGED <<sourceVars, wal, boundaries, loaded, base, process, interruptions, stops>>

(* Mutant: a poll that peeks at the changes and leaves the slot where it   *)
(* is.                                                                     *)
PollPeeks == \E upto \in boundaries : PollUpTo(upto) /\ slot' = slot

(* poll_once: whole transactions from the slot on.                         *)
Poll == \E upto \in boundaries : PollUpTo(upto) /\ slot' = upto

(* The connection dies after the server has run the query: the slot has    *)
(* moved, and the loop catches the error and polls again.                  *)
PollLost ==
  /\ process = "running" /\ pc = "idle" /\ slot # NoSlot
  /\ interruptions < MaxInterruptions
  /\ slot' \in {b \in boundaries : b > slot}
  /\ interruptions' = interruptions + 1
  /\ UNCHANGED <<sourceVars, handlerVars, wal, boundaries, loaded, base, process, stops>>

Handle == process # "down" /\ HandlerStep /\ UNCHANGED <<sourceVars, listenerVars>>

NextPoll ==
  /\ process # "down" /\ pc = "handled"
  /\ DropBatch
  /\ UNCHANGED <<sourceVars, listenerVars>>

(* Mutant: the loop ends and keeps the batch it could not handle.          *)
CatchErrorKeepsBatch ==
  /\ process # "down" /\ pc = "raised"
  /\ process' = "down"
  /\ UNCHANGED <<sourceVars, handlerVars, wal, boundaries, slot, loaded, base,
                 interruptions, stops>>

(* The loop logs what the handler raised and goes on, or stops.            *)
CatchError ==
  /\ process # "down" /\ pc = "raised"
  /\ DropBatch
  /\ process' = IF process = "running" THEN "running" ELSE "down"
  /\ UNCHANGED <<sourceVars, wal, boundaries, slot, loaded, base, interruptions, stops>>

(* Mutant: a stop signal abandons the batch in progress.                   *)
StopSignalDropsBatch ==
  /\ process = "running" /\ stops < MaxStops
  /\ process' = "stopping"
  /\ stops' = stops + 1
  /\ DropBatch
  /\ UNCHANGED <<sourceVars, wal, boundaries, slot, loaded, base, interruptions>>

StopSignal ==
  /\ process = "running" /\ stops < MaxStops
  /\ process' = "stopping"
  /\ stops' = stops + 1
  /\ UNCHANGED <<sourceVars, handlerVars, wal, boundaries, slot, loaded, base, interruptions>>

Exit ==
  /\ process = "stopping" /\ pc = "idle"
  /\ process' = "down"
  /\ UNCHANGED <<sourceVars, handlerVars, wal, boundaries, slot, loaded, base, interruptions, stops>>

Crash ==
  /\ process # "down" /\ interruptions < MaxInterruptions
  /\ process' = "down"
  /\ interruptions' = interruptions + 1
  /\ DropBatch
  /\ UNCHANGED <<sourceVars, wal, boundaries, slot, loaded, base, stops>>

DropSlot == slot # NoSlot /\ slot' = NoSlot

(* cdc-teardown: the next cdc-start makes a new slot, at the end of wal.   *)
Teardown ==
  /\ process = "down" /\ DropSlot
  /\ interruptions < MaxInterruptions
  /\ interruptions' = interruptions + 1
  /\ UNCHANGED <<sourceVars, handlerVars, wal, boundaries, loaded, base, process, stops>>

Next ==
  \/ Commit \/ Setup \/ Load \/ Start \/ Poll \/ PollLost \/ Handle \/ NextPoll
  \/ CatchError \/ StopSignal \/ Exit \/ Crash \/ Teardown

Fairness == WF_vars(Setup) /\ WF_vars(Load) /\ WF_vars(Start) /\ WF_vars(Poll)
            /\ WF_vars(Handle) /\ WF_vars(NextPoll) /\ WF_vars(CatchError) /\ WF_vars(Exit)

Spec == Init /\ [][Next]_vars /\ Fairness

(***************************************************************************)
(* Properties                                                              *)
(***************************************************************************)

TypeOK ==
  /\ rows \in [Keys -> Rows \cup {NoRow}] /\ emitted = Len(wal)
  /\ policy \in Policies
  /\ DOMAIN store = DocIds
  /\ boundaries \subseteq 0..Len(wal) /\ Len(wal) \in boundaries
  /\ slot \in boundaries \cup {NoSlot}
  /\ loaded \in BOOLEAN /\ base \in boundaries
  /\ todo \cup group \subseteq DOMAIN batch
  /\ applied \subseteq 1..Len(wal) /\ failed \subseteq 1..Len(wal)
  /\ pc \in {"idle", "handling", "handled", "raised"}
  /\ process \in {"running", "stopping", "down"}

(* Events the target will never see: the slot has passed them and they     *)
(* neither precede the initial load and the slot, nor have they been       *)
(* handled, nor are they being handled.                                    *)
Lost ==
  IF slot = NoSlot \/ ~loaded THEN {}
  ELSE {i \in (base + 1)..slot : i \notin applied \cup todo \cup group}

(* The listener hands every change to the handler at most once, through    *)
(* stops, crashes and restarts: the slot never goes back over what a poll  *)
(* returned (pg_listener.py:181-185).                                      *)
NeverTwice ==
  [][batch' # batch => DOMAIN batch' \cap (applied \cup DOMAIN batch) = {}]_vars

(* Only an interruption loses changes.  A stop signal does not, even in    *)
(* the middle of a batch, and neither does a slot made before the load.    *)
Gone == policy = "fail" \/ BadVals # {}
OnlyInterruptionsLose ==
  interruptions = 0 /\ ~Gone /\ ~LoadBeforeSlot => Lost = {}

(* "CDC and Kafka pipelines provide ... at-least-once delivery semantics"  *)
(* (PRD.md:183): whatever is interrupted, no change is lost.               *)
AtLeastOnce == ~Gone /\ ~LoadBeforeSlot => Lost = {}

(* The target is the image of the table whenever the listener has caught   *)
(* up and nothing was lost: the changes that the slot recorded before the  *)
(* initial load are applied over it without harm, under every policy that  *)
(* goes on after a conflict.                                               *)
CaughtUp ==
  /\ process = "running" /\ pc = "idle"
  /\ slot = Len(wal)
Mirror == \A id \in DocIds : SameBody(store[id], Image(rows)[id])
CaughtUpMeansMirror ==
  CaughtUp /\ Lost = {} /\ failed = {} /\ policy # "fail" => Mirror

(* The listener catches up again and again, whatever is raised.            *)
KeepsCatchingUp == []<>(slot = Len(wal) \/ ~loaded)
=============================================================================
