-------------------------------- MODULE Outbox --------------------------------
(***************************************************************************)
(* r2g/governed.py: class Outbox, the queue of history entries under a     *)
(* control plane.  An entry is a file in pending/ until it is delivered or *)
(* can no longer be; then it is a file in done/.  deliver() is called by   *)
(* the request that queued the entry, after its response, and by one       *)
(* background worker; a lock keeps them apart.  The process may die        *)
(* between any two file operations.                                        *)
(*                                                                         *)
(* A thread is the worker or, for the request that queued an entry, the    *)
(* entry itself.                                                           *)
(***************************************************************************)
EXTENDS Naturals, FiniteSets

CONSTANTS
  Ids,         \* event ids
  Invalid,     \* those the control plane refuses for good (InvalidEvent, ...)
  Worker,      \* the thread of start_worker
  NoThread,    \* nobody holds the outboxLock
  NoEntry,     \* the worker is at no entry
  Limit,       \* deliver_pending's limit
  MaxCrashes   \* bound: how often the process dies

ASSUME OutboxAssumption ==
  /\ IsFiniteSet(Ids) /\ Invalid \subseteq Ids
  /\ Worker \notin Ids /\ NoThread \notin Ids \cup {Worker} /\ NoEntry \notin Ids
  /\ Limit \in Nat \ {0}

VARIABLES
  queue,     \* pending/: entry -> its place by modification time, 0 if absent
  done,      \* done/: entry -> the status written, or "none"
  sent,      \* entries send() has queued
  history,   \* entries the control plane has recorded, each once
  expired,   \* entries whose context can no longer attribute them
  round,     \* entries the worker still has to try in this round
  phase,     \* where each thread is in deliver()
  target,    \* the entry the worker is at
  outboxLock,      \* the thread that holds _lock
  up,        \* is the process running?
  crashes    \* how often it died

files   == <<queue, done>>
memory  == <<round, phase, target, outboxLock>>
outside == <<sent, history, expired>>
outboxVars    == <<files, memory, outside, up, crashes>>

Threads == Ids \cup {Worker}
Pending == {id \in Ids : queue[id] # 0}
Target(t) == IF t = Worker THEN target ELSE t

(* "waiting": about to take the lock and read the file; "record": the call *)
(* to the control plane; "retry": to rewrite the pending file; "delivered" *)
(* and "undeliverable": to write the done file; "unlink": to remove the    *)
(* pending one.                                                            *)
DeliveryPhases == {"idle", "waiting", "record", "retry", "delivered", "undeliverable", "unlink"}

OutboxInit ==
  /\ queue = [id \in Ids |-> 0] /\ done = [id \in Ids |-> "none"]
  /\ sent = {} /\ history = {} /\ expired = {}
  /\ round = {} /\ phase = [t \in Threads |-> "idle"]
  /\ target = NoEntry /\ outboxLock = NoThread
  /\ up = TRUE /\ crashes = 0

(* The modification times, as places in a line: a file that goes leaves    *)
(* its place, a file that is written goes to the end.  (Mutant: the places *)
(* behind a file that goes are never filled.)                              *)
WithoutGap(id) == [j \in Ids |-> IF j = id THEN 0 ELSE queue[j]]
Without(id) ==
  [j \in Ids |-> IF j = id THEN 0
                 ELSE IF queue[id] # 0 /\ queue[j] > queue[id] THEN queue[j] - 1
                 ELSE queue[j]]
Written(id) ==
  [Without(id) EXCEPT ![id] = 1 + Cardinality(Pending \ {id})]

(* send: the file first, then deliver() is due.                            *)
Send(id) ==
  /\ up /\ id \notin sent
  /\ sent' = sent \cup {id}
  /\ queue' = Written(id)
  /\ phase' = [phase EXCEPT ![id] = "waiting"]
  /\ UNCHANGED <<done, history, expired, round, target, outboxLock, up, crashes>>

(* deliver_pending: the Limit oldest files.                                *)
Oldest(limit) == {id \in Pending : queue[id] <= limit}

StartRound ==
  /\ up /\ round = {} /\ phase[Worker] = "idle"
  /\ Pending # {}
  /\ round' = Oldest(Limit)
  /\ UNCHANGED <<files, phase, target, outboxLock, outside, up, crashes>>

TakeFromRound ==
  /\ up /\ phase[Worker] = "idle"
  /\ \E id \in round : target' = id /\ round' = round \ {id}
  /\ phase' = [phase EXCEPT ![Worker] = "waiting"]
  /\ UNCHANGED <<files, outboxLock, outside, up, crashes>>

Enter(t, next) == phase' = [phase EXCEPT ![t] = next]

(* deliver returns to its caller, and releases the lock.                   *)
Return(t) ==
  /\ Enter(t, "idle") /\ outboxLock' = NoThread
  /\ target' = IF t = Worker THEN NoEntry ELSE target

(* Mutant: deliver without its lock.                                       *)
ReadUnlocked(t) ==
  /\ phase[t] = "waiting"
  /\ IF Target(t) \in Pending
       THEN Enter(t, "record") /\ UNCHANGED <<outboxLock, target>>
       ELSE Return(t)
  /\ UNCHANGED <<files, outside, round, up, crashes>>

(* deliver: take the lock and read the file; if it is gone, the other      *)
(* thread got there first.                                                 *)
Read(t) ==
  /\ phase[t] = "waiting" /\ outboxLock = NoThread
  /\ IF Target(t) \in Pending
       THEN Enter(t, "record") /\ outboxLock' = t /\ UNCHANGED target
       ELSE Return(t)
  /\ UNCHANGED <<files, outside, round, up, crashes>>

(* control_plane.record gets an answer.  Recording is idempotent per id.   *)
Answered(t) ==
  /\ phase[t] = "record"
  /\ IF Target(t) \in expired \cup Invalid
       THEN Enter(t, "undeliverable") /\ UNCHANGED history
       ELSE Enter(t, "delivered") /\ history' = history \cup {Target(t)}
  /\ UNCHANGED <<files, sent, expired, round, target, outboxLock, up, crashes>>

(* Mutant: an entry is given up when the control plane does not answer.    *)
UnansweredGivesUp(t) ==
  /\ phase[t] = "record"
  /\ \/ UNCHANGED history
     \/ Target(t) \notin expired \cup Invalid /\ history' = history \cup {Target(t)}
  /\ Enter(t, "undeliverable")
  /\ UNCHANGED <<files, sent, expired, round, target, outboxLock, up, crashes>>

(* It does not, though the entry may have been recorded.                   *)
Unanswered(t) ==
  /\ phase[t] = "record"
  /\ \/ UNCHANGED history
     \/ Target(t) \notin expired \cup Invalid /\ history' = history \cup {Target(t)}
  /\ Enter(t, "retry")
  /\ UNCHANGED <<files, sent, expired, round, target, outboxLock, up, crashes>>

(* ContextUnavailable: the file is rewritten with one attempt more.        *)
Retry(t) ==
  /\ phase[t] = "retry"
  /\ queue' = Written(Target(t))
  /\ Return(t)
  /\ UNCHANGED <<done, outside, round, up, crashes>>

(* Mutant: the pending file is removed first.                              *)
WriteDoneLast(t) ==
  /\ phase[t] \in {"delivered", "undeliverable"}
  /\ queue' = Without(Target(t))
  /\ Enter(t, "unlink")
  /\ UNCHANGED <<done, outside, round, target, outboxLock, up, crashes>>

(* _finish: the done file, then the end of the pending one.                *)
WriteDone(t) ==
  /\ phase[t] \in {"delivered", "undeliverable"}
  /\ done' = [done EXCEPT ![Target(t)] = phase[t]]
  /\ Enter(t, "unlink")
  /\ UNCHANGED <<queue, outside, round, target, outboxLock, up, crashes>>

Unlink(t) ==
  /\ phase[t] = "unlink"
  /\ queue' = Without(Target(t))
  /\ Return(t)
  /\ UNCHANGED <<done, outside, round, up, crashes>>

(* Any other exception, of the call or of a file operation, leaves deliver *)
(* as it stands: the entry keeps its place, and the worker's round ends    *)
(* with it, since start_worker catches only around the round.              *)
Raises(t) ==
  /\ phase[t] \in DeliveryPhases \ {"idle", "waiting"}
  /\ \/ UNCHANGED history
     \/ phase[t] = "record" /\ Target(t) \notin expired \cup Invalid /\ history' = history \cup {Target(t)}
  /\ Return(t)
  /\ round' = IF t = Worker THEN {} ELSE round
  /\ UNCHANGED <<files, sent, expired, up, crashes>>

Deliver(t) ==
  \/ Read(t) \/ Answered(t) \/ Unanswered(t) \/ Raises(t)
  \/ Retry(t) \/ WriteDone(t) \/ Unlink(t)

(* The context an entry was queued with expires.                           *)
Expire(id) ==
  /\ id \in sent \ expired
  /\ expired' = expired \cup {id}
  /\ UNCHANGED <<files, memory, sent, history, up, crashes>>

ProcessDies ==
  /\ up /\ crashes < MaxCrashes
  /\ up' = FALSE /\ crashes' = crashes + 1
  /\ round' = {} /\ phase' = [t \in Threads |-> "idle"] /\ outboxLock' = NoThread
  /\ target' = NoEntry
  /\ UNCHANGED <<files, outside>>

Restart ==
  /\ ~up /\ up' = TRUE
  /\ UNCHANGED <<files, memory, outside, crashes>>

OutboxNext ==
  \/ \E id \in Ids : Send(id) \/ Expire(id)
  \/ StartRound \/ TakeFromRound
  \/ \E t \in Threads : Deliver(t)
  \/ ProcessDies \/ Restart

(* Threads get the lock in turn, the control plane answers again and       *)
(* again, contexts expire, and no file operation fails every time: an      *)
(* entry whose delivery always raises stays the oldest of its round and    *)
(* ends every one of them.                                                 *)
OutboxFairness ==
  /\ WF_outboxVars(StartRound) /\ WF_outboxVars(TakeFromRound) /\ WF_outboxVars(Restart)
  /\ \A t \in Threads : SF_outboxVars(Read(t))
  /\ SF_outboxVars(\E t \in Threads : Answered(t))
  /\ WF_outboxVars(\E t \in Threads : Retry(t))
  /\ SF_outboxVars(\E t \in Threads : WriteDone(t))
  /\ SF_outboxVars(\E t \in Threads : Unlink(t))
  /\ WF_outboxVars(\E id \in Ids : Expire(id))

OutboxSpec == OutboxInit /\ [][OutboxNext]_outboxVars /\ OutboxFairness

(***************************************************************************)
(* Properties                                                              *)
(***************************************************************************)

Statuses == {"none", "delivered", "undeliverable"}

OutboxTypeOK ==
  /\ queue \in [Ids -> Nat] /\ done \in [Ids -> Statuses]
  /\ sent \subseteq Ids /\ history \subseteq sent /\ expired \subseteq sent
  /\ Pending \subseteq sent
  /\ round \subseteq Ids /\ phase \in [Threads -> DeliveryPhases] /\ target \in Ids \cup {NoEntry}
  /\ outboxLock \in Threads \cup {NoThread}
  /\ outboxLock # NoThread => phase[outboxLock] \notin {"idle", "waiting"}
  /\ up \in BOOLEAN /\ crashes \in Nat

(* "Entries go to a queue before they are sent": whenever the process dies *)
(* and whatever the control plane answers, an entry that was queued is     *)
(* still pending or has been finished (governed.py:240-285).               *)
NeverLost == \A id \in sent : id \in Pending \/ done[id] # "none"

(* A finished entry was delivered only if the control plane recorded it,   *)
(* and given up only when resending would not help.                        *)
FinishedForAReason ==
  \A id \in Ids :
    /\ done[id] = "delivered" => id \in history
    /\ done[id] = "undeliverable" => id \in expired \cup Invalid

(* Once an entry has been finished and its file with the token is gone,    *)
(* no thread that read it earlier brings the file back.                    *)
StaysFinished ==
  [][\A id \in sent : id \notin Pending => id \notin Pending']_outboxVars

(* Every queued entry is finished in the end, through crashes, refusals,   *)
(* rounds that an exception ends and an unavailable control plane, however *)
(* small the limit of a round.                                             *)
EventuallyFinished ==
  \A id \in Ids : (id \in sent) ~> (done[id] # "none" /\ id \notin Pending)
=============================================================================
