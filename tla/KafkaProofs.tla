------------------------------ MODULE KafkaProofs ------------------------------
(***************************************************************************)
(* What KafkaConsumer.tla promises for any table, any partitions, any      *)
(* batch size, any faults of the writer and any number of crashes: offsets *)
(* are committed only over handled messages, the consumer implements       *)
(* DeliveredLog, it hands over a partition's messages in their order, and  *)
(* when it has caught up the target shows the table.                       *)
(***************************************************************************)
EXTENDS KafkaConsumer, MirrorProofs

(* Below offsets, every message of p has been handled or is being handled. *)
Covered(p, offset) ==
  \A o \in 1..offset : log[p][o] = Tombstone \/ <<p, o>> \in applied \cup todo \cup group

Offset(p) ==
  /\ committed[p] \in Nat /\ position[p] \in Nat /\ Len(log[p]) \in Nat
  /\ committed[p] <= position[p] /\ position[p] <= Len(log[p])

Shape ==
  /\ \E S : log \in [Partitions -> Seq(S)]
  /\ DOMAIN committed = Partitions /\ DOMAIN position = Partitions
  /\ \A p \in Partitions : Offset(p)

(* A message is in the log before it is in a batch, and in a batch before  *)
(* it is handled.                                                          *)
Known ==
  /\ applied \subseteq Delivery!Unread
  /\ DOMAIN batch \subseteq Delivery!Unread
  /\ todo \cup group \subseteq DOMAIN batch

(* Only the FAIL policy and rows that cannot be coerced raise.             *)
Quiet ==
  /\ pc \in {"idle", "handled"} => todo = {} /\ group = {}
  /\ ~Gone => pc # "raised"

(* A running consumer has every message before its position in hand.       *)
InHand ==
  ~Gone =>
    \A p \in Partitions :
      /\ \A o \in 1..committed[p] : log[p][o] = Tombstone \/ <<p, o>> \in applied
      /\ process # "down" => Covered(p, position[p])

Inv == Shape /\ Known /\ Quiet /\ InHand

(* The unread messages are those of the log that are no tombstones.        *)
LEMMA UnreadMember ==
  ASSUME NEW p, NEW o
  PROVE  <<p, o>> \in Delivery!Unread <=>
           p \in Partitions /\ o \in 1..Len(log[p]) /\ log[p][o] # Tombstone
  BY DEF Delivery!Unread, Delivery!UnreadOf, Delivery!Matters

LEMMA UnreadPair ==
  ASSUME NEW m \in Delivery!Unread
  PROVE  \E p \in Partitions : \E o \in 1..Len(log[p]) : m = <<p, o>> /\ log[p][o] # Tombstone
  BY DEF Delivery!Unread, Delivery!UnreadOf, Delivery!Matters

LEMMA EmptyLog == [p \in Partitions |-> <<>>] \in [Partitions -> Seq({0})]
  <1>1. <<>> \in Seq({0}) OBVIOUS
  <1> QED BY <1>1

LEMMA InvInit == Init => Inv
  <1> SUFFICES ASSUME Init PROVE Inv OBVIOUS
  <1> USE DEF Init, HandlerInit
  <1>1. \A p \in Partitions : log[p] = <<>> /\ committed[p] = 0 /\ position[p] = 0 OBVIOUS
  <1>2. log \in [Partitions -> Seq({0})]
    <2>1. log = [p \in Partitions |-> <<>>] OBVIOUS
    <2> QED BY <2>1, EmptyLog DEF Init
  <1>3. Shape BY <1>1, <1>2 DEF Shape, Offset
  <1>4. DOMAIN batch = {}
    <2>1. DOMAIN <<>> = {} OBVIOUS
    <2> QED BY <2>1
  <1>5. Known /\ Quiet BY <1>4 DEF Known, Quiet
  <1>6. InHand BY <1>1 DEF InHand, Covered
  <1> QED BY <1>3, <1>5, <1>6 DEF Inv

(***************************************************************************)
(* The broker only appends                                                 *)
(***************************************************************************)

Extends(p) ==
  /\ Len(log'[p]) \in Nat /\ Len(log[p]) <= Len(log'[p])
  /\ \A o \in 1..Len(log[p]) : log'[p][o] = log[p][o]

LEMMA MessagesType ==
  ASSUME NEW p, NEW txn, NEW i, NEW T, EventsOf(txn)[i] \in T, Tombstone \in T
  PROVE  MessagesFor(p, txn, i) \in Seq(T)
  <1> DEFINE e == EventsOf(txn)[i]
             mark == IF txn[i].op = "DELETE" THEN <<Tombstone>> ELSE <<>>
  <1>1. <<e>> \in Seq(T) /\ mark \in Seq(T) /\ <<>> \in Seq(T)
    OBVIOUS
  <1> HIDE DEF mark
  <1>2. <<e>> \o mark \in Seq(T) BY <1>1
  <1> QED BY <1>1, <1>2 DEF MessagesFor, e, mark

LEMMA ProduceExtends ==
  ASSUME Shape, Produce
  PROVE  /\ \E S : log' \in [Partitions -> Seq(S)]
         /\ \A p \in Partitions : Extends(p)
  <1>1. PICK S : log \in [Partitions -> Seq(S)] BY DEF Shape
  <1>2. PICK txn \in Transactions(rows) :
          log' = [p \in Partitions |->
                    log[p] \o MessagesFor(p, txn, 1) \o MessagesFor(p, txn, 2)]
    BY DEF Produce
  <1> DEFINE T == S \cup {EventsOf(txn)[1], EventsOf(txn)[2], Tombstone}
  <1>3. ASSUME NEW p \in Partitions
        PROVE  log'[p] \in Seq(T) /\ Extends(p)
    <2>1. log[p] \in Seq(T) BY <1>1
    <2>2. MessagesFor(p, txn, 1) \in Seq(T) /\ MessagesFor(p, txn, 2) \in Seq(T)
      <3>1. EventsOf(txn)[1] \in T /\ EventsOf(txn)[2] \in T /\ Tombstone \in T OBVIOUS
      <3> HIDE DEF T
      <3> QED BY <3>1, MessagesType
    <2>3. log'[p] = log[p] \o MessagesFor(p, txn, 1) \o MessagesFor(p, txn, 2) BY <1>2
    <2> HIDE DEF T
    <2>4. ASSUME NEW s \in Seq(T), NEW t \in Seq(T)
          PROVE  /\ s \o t \in Seq(T) /\ Len(s \o t) = Len(s) + Len(t)
                 /\ \A o \in 1..Len(s) : (s \o t)[o] = s[o]
      OBVIOUS
    <2> DEFINE s1 == log[p]
               s2 == s1 \o MessagesFor(p, txn, 1)
               s3 == s2 \o MessagesFor(p, txn, 2)
    <2>5. /\ s2 \in Seq(T) /\ Len(s1) <= Len(s2) /\ \A o \in 1..Len(s1) : s2[o] = s1[o]
      BY <2>1, <2>2, <2>4
    <2> HIDE DEF s2
    <2>6. /\ s3 \in Seq(T) /\ Len(s2) <= Len(s3) /\ \A o \in 1..Len(s2) : s3[o] = s2[o]
      BY <2>2, <2>4, <2>5
    <2> HIDE DEF s3
    <2>7. Len(s1) \in Nat /\ Len(s2) \in Nat /\ Len(s3) \in Nat BY <2>1, <2>5, <2>6
    <2>8. log'[p] = s3 BY <2>3 DEF s2, s3
    <2> HIDE DEF s1
    <2>9. /\ Len(s1) <= Len(s3) /\ \A o \in 1..Len(s1) : s3[o] = s1[o]
      BY <2>5, <2>6, <2>7
    <2> QED BY <2>6, <2>7, <2>8, <2>9 DEF Extends, s1
  <1>4. log' \in [Partitions -> Seq(T)] BY <1>2, <1>3
  <1> QED BY <1>3, <1>4

(***************************************************************************)
(* The steps                                                               *)
(***************************************************************************)

logVars == <<log, committed, position>>

(* The handler's steps move messages from todo to group to applied.        *)
LEMMA HandlerKeeps ==
  ASSUME Known, Quiet, HandlerStep, UNCHANGED log
  PROVE  /\ Known' /\ Quiet'
         /\ applied \subseteq applied'
         /\ ~Gone => applied \cup todo \cup group \subseteq applied' \cup todo' \cup group'
         /\ policy' = policy
  <1>0. Delivery!Unread' = Delivery!Unread
    BY DEF Delivery!Unread, Delivery!UnreadOf, Delivery!Matters
  <1>1. CASE StartGroup
    <2>1. PICK m \in todo :
            /\ First(m)
            /\ IF \E x \in GroupOf(m) : TransformRaises(batch[x])
                 THEN Raise /\ UNCHANGED <<store, failed>>
                 ELSE /\ group' = GroupOf(m)
                      /\ todo' = todo \ GroupOf(m)
                      /\ UNCHANGED <<policy, store, batch, arrival, pc, applied, failed>>
      BY <1>1 DEF StartGroup
    <2>2. pc = "handling" /\ group = {} BY <1>1 DEF StartGroup
    <2>3. GroupOf(m) \subseteq DOMAIN batch
      BY <2>1 DEF GroupOf, SameTxn, Known
    <2>4. CASE Raise
      <3>1. DOMAIN batch' = {}
        <4>1. DOMAIN <<>> = {} OBVIOUS
        <4> QED BY <2>4, <4>1 DEF Raise, Forget
      <3>2. CASE Gone BY <1>0, <2>4, <3>1, <3>2 DEF Raise, Forget, Known, Quiet, Gone
      <3>3. CASE ~Gone
        <4>1. \A x \in GroupOf(m) : ~TransformRaises(batch[x]) BY <3>3 DEF TransformRaises, Gone
        <4> QED BY <2>1, <2>2, <2>4, <4>1 DEF Raise
      <3> QED BY <3>2, <3>3
    <2>5. CASE ~Raise
      BY <1>0, <2>1, <2>2, <2>3, <2>5 DEF Known, Quiet, Gone
    <2> QED BY <2>4, <2>5
  <1>2. CASE ApplyDelta
    <2>1. pc = "handling" BY <1>2 DEF ApplyDelta
    <2>2. CASE policy = "fail" /\ Raise
      <3>1. DOMAIN batch' = {}
        <4>1. DOMAIN <<>> = {} OBVIOUS
        <4> QED BY <2>2, <4>1 DEF Raise, Forget
      <3> QED BY <1>0, <2>2, <3>1 DEF Raise, Forget, Known, Quiet, Gone
    <2>3. CASE UNCHANGED <<policy, batch, todo, group, pc, applied>>
      BY <1>0, <2>1, <2>3 DEF Known, Quiet, Gone
    <2> QED BY <1>2, <2>2, <2>3 DEF ApplyDelta
  <1>3. CASE FinishGroup
    BY <1>0, <1>3 DEF FinishGroup, Known, Quiet, Gone
  <1> QED BY <1>1, <1>2, <1>3 DEF HandlerStep

(* Steps that leave the broker's log alone.                                *)
LEMMA SameUnread == log' = log => Delivery!Unread' = Delivery!Unread
  BY DEF Delivery!Unread, Delivery!UnreadOf, Delivery!Matters

(* A batch forgotten: crash, commit and caught exception.                  *)
LEMMA Dropped ==
  ASSUME Known, DropBatch, log' = log
  PROVE  Known' /\ Quiet' /\ todo' = {} /\ group' = {} /\ applied' = applied /\ policy' = policy
  <1>1. DOMAIN <<>> = {} OBVIOUS
  <1> QED BY <1>1, SameUnread DEF DropBatch, Forget, Known, Quiet

LEMMA ConsumeStep ==
  ASSUME Inv, Consume
  PROVE  Inv'
  <1> USE DEF Inv
  <1>1. PICK upto \in Batches : ConsumeUpTo(upto) /\ committed' = committed BY DEF Consume
  <1>2. /\ process = "running" /\ pc = "idle" /\ position' = upto
        /\ log' = log /\ process' = process
    BY <1>1 DEF Consume, Waiting, ConsumeUpTo
  <1>3. /\ upto \in [Partitions -> 0..(2 * MaxEvents)]
        /\ \A p \in Partitions : upto[p] \in Nat /\ position[p] <= upto[p] /\ upto[p] <= Len(log[p])
    BY <1>1, BoundsAssumption DEF Batches
  <1>4. Shape' BY <1>1, <1>2, <1>3 DEF Shape, Offset
  <1>5. todo = {} /\ group = {} BY <1>2 DEF Quiet
  <1> DEFINE events == Parsed(Fetched(upto))
  <1>6. events \subseteq Delivery!Unread
    <2> SUFFICES ASSUME NEW m \in events PROVE m \in Delivery!Unread OBVIOUS
    <2>1. PICK p \in Partitions : \E o \in (position[p] + 1)..upto[p] : m = <<p, o>>
      BY DEF Parsed, Fetched
    <2>2. PICK o \in (position[p] + 1)..upto[p] : m = <<p, o>> BY <2>1
    <2>3. log[p][o] # Tombstone BY <2>2 DEF Parsed
    <2>4. o \in 1..Len(log[p]) BY <1>3 DEF Shape, Offset
    <2> QED BY <2>2, <2>3, <2>4, UnreadMember
  <1>7. \A p \in Partitions : \A o \in (position[p] + 1)..upto[p] :
          log[p][o] = Tombstone \/ <<p, o>> \in events
    BY DEF Parsed, Fetched
  <1> HIDE DEF events
  <1>8. /\ applied' = applied /\ policy' = policy /\ group' = {}
        /\ todo' = events
        /\ (events = {} /\ UNCHANGED <<batch, pc>>) \/ (DOMAIN batch' = events /\ pc' = "handling")
    <2>1. CASE events = {}
      BY <1>1, <1>5, <2>1 DEF ConsumeUpTo, handlerVars, events
    <2>2. CASE events # {}
      <3>1. \E order \in Arrivals(events) :
              BeginBatch([m \in events |-> log[m[1]][m[2]]], order)
        BY <1>1, <2>2 DEF ConsumeUpTo, events
      <3> QED BY <1>5, <3>1 DEF BeginBatch
    <2> QED BY <2>1, <2>2
  <1>9. Known' BY <1>2, <1>6, <1>8, SameUnread DEF Known
  <1>10. Quiet' BY <1>2, <1>5, <1>8 DEF Quiet, Gone
  <1>11. InHand'
    <2> SUFFICES ASSUME ~Gone, NEW p \in Partitions
                 PROVE  /\ \A o \in 1..committed[p] : log[p][o] = Tombstone \/ <<p, o>> \in applied
                        /\ Covered(p, upto[p])'
      BY <1>1, <1>2, <1>8 DEF InHand, Gone, Covered
    <2>1. Covered(p, position[p]) BY <1>2 DEF InHand
    <2>2. \A o \in 1..upto[p] : o \in 1..position[p] \/ o \in (position[p] + 1)..upto[p]
      BY <1>3 DEF Shape, Offset
    <2> QED BY <1>2, <1>5, <1>7, <1>8, <2>1, <2>2 DEF InHand, Covered
  <1> QED BY <1>4, <1>9, <1>10, <1>11

LEMMA ProduceStep ==
  ASSUME Inv, Produce
  PROVE  Inv' /\ Delivery!Unread \subseteq Delivery!Unread'
  <1> USE DEF Inv
  <1>1. UNCHANGED <<committed, position, process, policy, batch, todo, group, pc, applied>>
    BY DEF Produce, handlerVars
  <1>2. \A p \in Partitions : Extends(p) BY ProduceExtends
  <1>3. Shape' BY <1>1, <1>2, ProduceExtends DEF Shape, Offset, Extends
  <1>4. Delivery!Unread \subseteq Delivery!Unread'
    <2> SUFFICES ASSUME NEW m \in Delivery!Unread PROVE m \in Delivery!Unread' OBVIOUS
    <2>1. PICK p \in Partitions : \E o \in 1..Len(log[p]) : m = <<p, o>> /\ log[p][o] # Tombstone
      BY UnreadPair
    <2>2. PICK o \in 1..Len(log[p]) : m = <<p, o>> /\ log[p][o] # Tombstone BY <2>1
    <2>3. o \in 1..Len(log'[p]) /\ log'[p][o] # Tombstone
      BY <1>2, <2>2 DEF Extends, Shape, Offset
    <2> QED BY <2>2, <2>3 DEF Delivery!Unread, Delivery!UnreadOf, Delivery!Matters
  <1>5. Known' BY <1>1, <1>4 DEF Known
  <1>6. Quiet' BY <1>1 DEF Quiet, Gone
  <1>7. InHand'
    <2>1. \A p \in Partitions : \A o \in 1..position[p] : log'[p][o] = log[p][o]
      BY <1>2 DEF Extends, Shape, Offset
    <2>2. \A p \in Partitions : \A o \in 1..committed[p] : log'[p][o] = log[p][o]
      BY <1>2 DEF Extends, Shape, Offset
    <2> QED BY <1>1, <2>1, <2>2 DEF InHand, Covered, Gone
  <1> QED BY <1>3, <1>4, <1>5, <1>6, <1>7

(* A commit covers handled messages only.                                  *)
LEMMA CommitStep ==
  ASSUME Inv, Commit
  PROVE  Inv'
  <1> USE DEF Inv
  <1>1. /\ DropBatch /\ log' = log /\ position' = position /\ process' = process
        /\ process # "down" /\ pc = "handled" /\ committed' \in {committed, position}
    BY DEF Commit
  <1>2. Known' /\ Quiet' /\ todo' = {} /\ group' = {} /\ applied' = applied /\ policy' = policy
    BY <1>1, Dropped
  <1>3. Shape' BY <1>1 DEF Shape, Offset
  <1>4. todo = {} /\ group = {} BY <1>1 DEF Quiet
  <1>5. InHand' BY <1>1, <1>2, <1>4 DEF InHand, Covered, Gone
  <1> QED BY <1>2, <1>3, <1>5

LEMMA InvStep == Inv /\ [Next]_vars => Inv'
  <1> SUFFICES ASSUME Inv, [Next]_vars PROVE Inv' OBVIOUS
  <1> USE DEF Inv
  <1>1. CASE Produce BY <1>1, ProduceStep
  <1>2. CASE Consume BY <1>2, ConsumeStep
  <1>3. CASE Handle
    <2>1. HandlerStep /\ UNCHANGED <<log, committed, position, process>>
      BY <1>3 DEF Handle, kafkaVars
    <2>2. Shape' BY <2>1 DEF Shape, Offset
    <2>3. /\ Known' /\ Quiet' /\ applied \subseteq applied' /\ policy' = policy
          /\ ~Gone => applied \cup todo \cup group \subseteq applied' \cup todo' \cup group'
      BY <2>1, HandlerKeeps
    <2>4. InHand' BY <2>1, <2>3 DEF InHand, Covered, Gone
    <2> QED BY <2>2, <2>3, <2>4
  <1>4. CASE Commit BY <1>4, CommitStep
  <1>5. CASE CatchError
    <2>1. /\ DropBatch /\ UNCHANGED <<log, committed, position>> /\ pc = "raised"
      BY <1>5 DEF CatchError
    <2>2. Known' /\ Quiet' /\ policy' = policy BY <2>1, Dropped
    <2>3. Gone BY <2>1 DEF Quiet
    <2> QED BY <2>1, <2>2, <2>3 DEF Shape, Offset, InHand, Gone
  <1>6. CASE StopSignal \/ Exit
    <2>1. /\ UNCHANGED <<policy, batch, todo, group, pc, applied, log, committed, position>>
          /\ process # "down"
      BY <1>6 DEF StopSignal, Exit, handlerVars
    <2> QED BY <2>1, SameUnread DEF Shape, Offset, Known, Quiet, InHand, Covered, Gone
  <1>7. CASE Crash
    <2>1. DropBatch /\ UNCHANGED <<log, committed, position>> /\ process' = "down"
      BY <1>7 DEF Crash
    <2>2. Known' /\ Quiet' /\ applied' = applied /\ policy' = policy BY <2>1, Dropped
    <2> QED BY <2>1, <2>2 DEF Shape, Offset, InHand, Gone
  <1>8. CASE Start
    <2>1. /\ UNCHANGED <<policy, batch, todo, group, pc, applied, log, committed>>
          /\ position' = committed
      BY <1>8 DEF Start, StartAt, handlerVars
    <2> QED BY <2>1, SameUnread DEF Shape, Offset, Known, Quiet, InHand, Covered, Gone
  <1>9. CASE UNCHANGED vars
    BY <1>9, SameUnread
       DEF vars, handlerVars, kafkaVars, Shape, Offset, Known, Quiet, InHand, Covered, Gone
  <1> QED BY <1>1, <1>2, <1>3, <1>4, <1>5, <1>6, <1>7, <1>8, <1>9 DEF Next, Run

(***************************************************************************)
(* Theorems                                                                *)
(***************************************************************************)

(* Inv holds in every state of every behaviour.                            *)
THEOREM Invariance == Spec => []Inv
  BY InvInit, InvStep, PTL DEF Spec

(* "Commits offsets only after successful processing to provide            *)
(* at-least-once" (kafka_consumer.py:11): whatever crashes, stops, fails   *)
(* to commit or is redelivered, no offset is committed past a message that *)
(* has not been through the handler, unless the policy is FAIL.            *)
THEOREM CommittedWasHandled == Spec => []AtLeastOnce
  <1>1. Inv => AtLeastOnce BY DEF Inv, InHand, AtLeastOnce
  <1> QED BY <1>1, Invariance, PTL

(* Every step of the consumer and its source is a step of DeliveredLog, or *)
(* none: messages are only ever published, delivered and acknowledged.     *)
LEMMA RefinesInit == Init => Delivery!Init
  <1> SUFFICES ASSUME Init PROVE Delivery!Init OBVIOUS
  <1>1. Acknowledged = [p \in Partitions |-> 0] BY DEF Init, Acknowledged
  <1> QED BY <1>1 DEF Init, HandlerInit, Delivery!Init

LEMMA RefinesStep ==
  ASSUME Inv, Inv', [Next]_vars
  PROVE  [Delivery!Next]_Delivery!vars
  <1> USE DEF Inv
  <1>0. policy' = policy /\ (Gone' <=> Gone)
    <2>1. policy' = policy
      BY DEF Next, Run, vars, handlerVars, Produce, Consume, ConsumeUpTo, BeginBatch, Handle,
             HandlerStep, StartGroup, ApplyDelta, FinishGroup, Raise, Commit, DropBatch,
             CatchError, StopSignal, Exit, Crash, Start, StartAt
    <2> QED BY <2>1 DEF Gone
  <1>1. committed' = committed => Acknowledged' = Acknowledged
    BY <1>0 DEF Acknowledged
  <1>2. CASE UNCHANGED <<log, applied, committed>>
    BY <1>1, <1>2 DEF Delivery!vars
  <1>3. CASE Produce
    <2>1. \A p \in Partitions : Extends(p) BY <1>3, ProduceExtends
    <2>2. DOMAIN log' = Partitions BY DEF Shape
    <2>3. applied' = applied /\ committed' = committed BY <1>3 DEF Produce, handlerVars
    <2> QED BY <1>1, <2>1, <2>2, <2>3 DEF Extends, Delivery!Publish, Delivery!Next
  <1>4. CASE Handle
    <2>1. HandlerStep /\ log' = log /\ committed' = committed BY <1>4 DEF Handle, kafkaVars
    <2>2. applied \subseteq applied' BY <2>1, HandlerKeeps
    <2>3. applied' \subseteq Delivery!Unread BY <2>1, SameUnread DEF Known
    <2> QED BY <1>1, <2>1, <2>2, <2>3 DEF Delivery!Deliver, Delivery!Next
  <1>5. CASE Commit /\ committed' = position
    <2>1. DropBatch /\ log' = log /\ pc = "handled" /\ process # "down"
      BY <1>5 DEF Commit
    <2>2. applied' = applied /\ todo = {} /\ group = {} BY <2>1, Dropped DEF Quiet
    <2>3. CASE Gone
      <3>1. Acknowledged' = Acknowledged BY <1>0, <2>3 DEF Acknowledged
      <3> QED BY <2>1, <2>2, <3>1 DEF Delivery!vars
    <2>4. CASE ~Gone
      <3>1. Acknowledged = [p \in Partitions |-> committed[p]]
            /\ Acknowledged' = [p \in Partitions |-> position[p]]
        BY <1>0, <1>5, <2>4 DEF Acknowledged
      <3>2. \A p \in Partitions : position[p] \in committed[p]..Len(log[p])
        BY DEF Shape, Offset
      <3>3. \A p \in Partitions : \A o \in 1..position[p] :
              <<p, o>> \in Delivery!Unread => <<p, o>> \in applied
        BY <2>1, <2>2, <2>4, UnreadMember DEF InHand, Covered
      <3> QED BY <2>1, <2>2, <3>1, <3>2, <3>3 DEF Delivery!Acknowledge, Delivery!Next
    <2> QED BY <2>3, <2>4
  <1>6. CASE Consume \/ (Commit /\ committed' = committed) \/ CatchError \/ StopSignal
             \/ Exit \/ Crash \/ Start
    <2>1. UNCHANGED <<log, applied, committed>>
      BY <1>6 DEF Consume, ConsumeUpTo, BeginBatch, Commit, DropBatch, CatchError, StopSignal,
                  Exit, Crash, Start, StartAt, handlerVars
    <2> QED BY <1>2, <2>1
  <1>7. CASE UNCHANGED vars
    BY <1>2, <1>7 DEF vars, handlerVars, kafkaVars
  <1>8. Commit => committed' = position \/ committed' = committed BY DEF Commit
  <1> QED BY <1>3, <1>4, <1>5, <1>6, <1>7, <1>8 DEF Next, Run

(* The consumer implements at-least-once delivery of its log.              *)
THEOREM DeliversTheLog == Spec => ImplementsDelivery
  <1>1. Inv /\ Inv' /\ [Next]_vars => [Delivery!Next]_Delivery!vars BY RefinesStep
  <1> QED BY <1>1, RefinesInit, Invariance, PTL DEF Spec, ImplementsDelivery, Delivery!Spec

(***************************************************************************)
(* The order of a partition                                                *)
(***************************************************************************)

(* With one row per transaction, no two events share a transaction id, or  *)
(* none has one.                                                           *)
Event(p, o) == p \in Partitions /\ o \in 1 .. Len(log[p]) /\ log[p][o] # Tombstone
Named ==
  /\ emitted \in Nat
  /\ ~HasTids => \A p, o : Event(p, o) => log[p][o].tid = NoTid
  /\ HasTids =>
       /\ \A p, o : Event(p, o) => log[p][o].tid \in 1 .. emitted
       /\ \A p, o, q, r : Event(p, o) /\ Event(q, r) /\ log[p][o].tid = log[q][r].tid => p = q /\ o = r

(* The messages of a batch are of the log, those of a partition in order.  *)
Arrived ==
  /\ \A m \in DOMAIN batch : Event(m[1], m[2]) /\ m = <<m[1], m[2]>> /\ batch[m] = log[m[1]][m[2]]
  /\ \A m \in DOMAIN batch : arrival[m] \in Nat
  /\ \A m, n \in DOMAIN batch : arrival[m] = arrival[n] => m = n
  /\ \A m, n \in DOMAIN batch : m[1] = n[1] /\ m[2] < n[2] => arrival[m] < arrival[n]

(* A transaction is placed where its first message arrived.                *)
LEMMA LeaderIs ==
  ASSUME Arrived, NEW x \in DOMAIN batch
  PROVE  /\ Leader(x) \in Nat /\ Leader(x) <= arrival[x]
         /\ \E l \in SameTxn(x) : arrival[l] = Leader(x)
  <1> DEFINE S == {arrival[y] : y \in SameTxn(x)}
  <1>1. S \in SUBSET Nat /\ arrival[x] \in S BY DEF SameTxn, Arrived
  <1>2. \A n \in S : \E l \in SameTxn(x) : arrival[l] = n OBVIOUS
  <1> HIDE DEF S
  <1>3. PICK n \in S : \A k \in S : n <= k BY <1>1, LeastOf
  <1>4. Min(S) \in S /\ \A k \in S : Min(S) <= k BY <1>3 DEF Min
  <1>5. Leader(x) = Min(S) BY DEF Leader, S
  <1> QED BY <1>1, <1>2, <1>4, <1>5

LEMMA OrderOfGroups ==
  ASSUME Inv, Named, Arrived, NEW m \in todo, First(m), NEW n \in todo
  PROVE  GroupOf(m) = {m} /\ arrival[m] <= arrival[n]
  <1>1. m \in DOMAIN batch /\ n \in DOMAIN batch BY DEF Inv, Known
  <1>2. arrival[m] \in Nat /\ arrival[n] \in Nat BY <1>1 DEF Arrived
  <1>3. Before(m, n) BY DEF First
  <1>4. CASE ~HasTids
    <2>1. \A x \in DOMAIN batch : batch[x].tid = NoTid BY <1>4 DEF Named, Arrived
    <2>2. GroupOf(m) = {m} BY <1>1, <2>1 DEF GroupOf
    <2>3. SameTxn(m) = SameTxn(n) BY <1>1, <2>1 DEF SameTxn
    <2>4. Leader(m) = Leader(n) BY <2>3 DEF Leader
    <2>5. Leader(m) \in Nat
      <3> DEFINE S == {arrival[x] : x \in SameTxn(m)}
      <3>1. S \in SUBSET Nat /\ S # {} BY <1>1 DEF SameTxn, Arrived
      <3> HIDE DEF S
      <3>2. Min(S) \in Nat BY <3>1, MinOfSome
      <3> QED BY <3>2 DEF S, Leader
    <2> QED BY <1>2, <1>3, <2>2, <2>4, <2>5 DEF Before
  <1>5. CASE HasTids
    <2>1. ASSUME NEW x \in DOMAIN batch PROVE SameTxn(x) = {x}
      <3>1. x \in SameTxn(x) BY DEF SameTxn
      <3>2. ASSUME NEW y \in SameTxn(x) PROVE y = x
        <4>1. y \in DOMAIN batch /\ batch[y].tid = batch[x].tid BY DEF SameTxn
        <4>2. x[1] = y[1] /\ x[2] = y[2] BY <1>5, <4>1 DEF Named, Arrived
        <4> QED BY <4>1, <4>2 DEF Arrived
      <3> QED BY <3>1, <3>2
    <2>2. GroupOf(m) = {m} BY <1>1, <2>1 DEF GroupOf
    <2>3. \A x \in DOMAIN batch : Leader(x) = arrival[x]
      <3> SUFFICES ASSUME NEW x \in DOMAIN batch PROVE Leader(x) = arrival[x] OBVIOUS
      <3>1. {arrival[y] : y \in SameTxn(x)} = {arrival[x]} BY <2>1
      <3>2. arrival[x] \in Nat BY DEF Arrived
      <3>3. Min({arrival[x]}) = arrival[x] BY <3>2, MinOfSome
      <3> QED BY <3>1, <3>3 DEF Leader
    <2> QED BY <1>1, <1>2, <1>3, <2>2, <2>3 DEF Before
  <1> QED BY <1>4, <1>5

LEMMA OrderInit == Init => Named /\ Arrived
  <1> SUFFICES ASSUME Init PROVE Named /\ Arrived OBVIOUS
  <1>1. DOMAIN batch = {}
    <2>1. DOMAIN <<>> = {} OBVIOUS
    <2> QED BY <2>1 DEF Init, HandlerInit
  <1>2. \A p \in Partitions : log[p] = <<>> BY DEF Init
  <1>3. \A p, o : ~Event(p, o) BY <1>2 DEF Event
  <1>4. emitted \in Nat BY DEF Init, SourceInit
  <1> QED BY <1>1, <1>3, <1>4 DEF Named, Arrived

(* What a transaction adds to the log has its id, or none.                 *)
NewTid == IF HasTids THEN emitted + 1 ELSE NoTid
LEMMA ProduceTids ==
  ASSUME Inv, emitted \in Nat, Produce
  PROVE  /\ emitted' \in Nat /\ emitted < emitted'
         /\ \A p \in Partitions : Extends(p) /\ Len(log[p]) \in Nat
         /\ \A p, o : Event(p, o) => Event(p, o)' /\ log'[p][o] = log[p][o]
         /\ \A p, o : Event(p, o)' => \/ Event(p, o) /\ log'[p][o] = log[p][o]
                                      \/ o \notin 1 .. Len(log[p]) /\ log'[p][o].tid = NewTid
  <1>1. PICK txn \in Transactions(rows) :
          /\ CommitTxn(txn)
          /\ log' = [p \in Partitions |-> log[p] \o MessagesFor(p, txn, 1) \o MessagesFor(p, txn, 2)]
    BY DEF Produce
  <1> DEFINE T == {EventsOf(txn)[i] : i \in DOMAIN txn} \cup {Tombstone}
  <1>2. DOMAIN txn = 1 .. Len(txn) /\ Len(txn) \in {1, 2}
    <2>1. (\E c : txn = <<c>>) \/ (\E c, d : txn = <<c, d>>) BY DEF Transactions
    <2> QED BY <2>1
  <1>3. \A i \in DOMAIN txn : EventsOf(txn)[i].tid = NewTid BY DEF EventsOf, NewTid
  <1>4. \A x \in T : x = Tombstone \/ x.tid = NewTid BY <1>3
  <1>5. \A i \in DOMAIN txn : EventsOf(txn)[i] \in T OBVIOUS
  <1>6. Tombstone \in T OBVIOUS
  <1> HIDE DEF T
  <1>7. ASSUME NEW p, NEW i \in {1, 2} PROVE MessagesFor(p, txn, i) \in Seq(T)
    <2>1. CASE i \in DOMAIN txn BY <1>5, <1>6, <2>1, MessagesType
    <2>2. CASE i \notin DOMAIN txn
      <3>1. MessagesFor(p, txn, i) = <<>> BY <1>2, <2>2 DEF MessagesFor
      <3>2. <<>> \in Seq(T) OBVIOUS
      <3> QED BY <3>1, <3>2
    <2> QED BY <2>1, <2>2
  <1>8. \A p \in Partitions : Extends(p) /\ Len(log[p]) \in Nat BY ProduceExtends DEF Inv, Shape, Offset
  <1>9. PICK S : log \in [Partitions -> Seq(S)] BY DEF Inv, Shape
  <1>10. ASSUME NEW p, NEW o, Event(p, o)', ~(Event(p, o) /\ log'[p][o] = log[p][o])
         PROVE  o \notin 1 .. Len(log[p]) /\ log'[p][o].tid = NewTid
    <2>1. p \in Partitions /\ o \in 1 .. Len(log'[p]) /\ log'[p][o] # Tombstone BY <1>10 DEF Event
    <2>2. o \notin 1 .. Len(log[p]) BY <1>8, <1>10, <2>1 DEF Event, Extends
    <2> DEFINE s == log[p]
               m == MessagesFor(p, txn, 1)
               n == MessagesFor(p, txn, 2)
    <2>3. s \in Seq(S) /\ m \in Seq(T) /\ n \in Seq(T) BY <1>7, <1>9, <2>1
    <2>4. log'[p] = s \o m \o n BY <1>1, <2>1
    <2> HIDE DEF s, m, n
    <2>5. ASSUME NEW a \in Seq(S \cup T), NEW b \in Seq(T), NEW k \in 1 .. Len(a \o b), k \notin 1 .. Len(a)
          PROVE  (a \o b)[k] \in T
      <3>1. b \in Seq(S \cup T) /\ Len(a) \in Nat /\ Len(b) \in Nat BY <2>5
      <3>2. Len(a \o b) = Len(a) + Len(b) /\ (a \o b)[k] = b[k - Len(a)] BY <2>5, <3>1
      <3>3. k - Len(a) \in 1 .. Len(b) BY <2>5, <3>1, <3>2
      <3> QED BY <3>2, <3>3
    <2>6. s \in Seq(S \cup T) /\ m \in Seq(S \cup T) BY <2>3
    <2> DEFINE a == s \o m
    <2>7. a \in Seq(S \cup T) BY <2>6
    <2>8. \A k \in 1 .. Len(a) : k \notin 1 .. Len(s) => a[k] \in T BY <2>3, <2>5, <2>6
    <2>9. \A k \in 1 .. Len(a) : k \in 1 .. Len(a \o n) /\ (a \o n)[k] = a[k]
      <3>1. n \in Seq(S \cup T) BY <2>3
      <3> HIDE DEF a
      <3> QED BY <2>7, <3>1
    <2>10. log'[p] = a \o n BY <2>4
    <2> HIDE DEF a
    <2>11. log'[p][o] \in T
      <3>1. CASE o \in 1 .. Len(a) BY <2>2, <2>8, <2>9, <2>10, <3>1 DEF s
      <3>2. CASE o \notin 1 .. Len(a) BY <2>1, <2>3, <2>5, <2>7, <2>10, <3>2
      <3> QED BY <3>1, <3>2
    <2> QED BY <1>4, <2>1, <2>2, <2>11
  <1>11. emitted' \in Nat /\ emitted < emitted'
    <2>1. emitted' = emitted + Len(txn) BY <1>1 DEF CommitTxn
    <2> QED BY <1>2, <2>1
  <1>12. \A p, o : Event(p, o) => Event(p, o)' /\ log'[p][o] = log[p][o] BY <1>8 DEF Event, Extends
  <1> QED BY <1>8, <1>10, <1>11, <1>12

(* Without ids there is nothing to tell apart.                             *)
LEMMA ProduceUnnamed ==
  ASSUME ~HasTids, Inv, Named, Arrived, Produce
  PROVE  Named' /\ Arrived'
  <1>1. /\ emitted' \in Nat
        /\ \A p, o : Event(p, o) => Event(p, o)' /\ log'[p][o] = log[p][o]
        /\ \A p, o : Event(p, o)' => (Event(p, o) /\ log'[p][o] = log[p][o]) \/ log'[p][o].tid = NewTid
    BY ProduceTids DEF Named
  <1>2. Named' BY <1>1 DEF Named, NewTid
  <1>3. UNCHANGED <<batch, arrival>> BY DEF Produce, handlerVars
  <1>4. Arrived' BY <1>1, <1>3 DEF Arrived
  <1> QED BY <1>2, <1>4

(* A transaction of one row adds one event, to one partition.              *)
LEMMA ProduceNames ==
  ASSUME MaxRowsPerTxn = 1, HasTids, Inv, Named, Arrived, Produce
  PROVE  Named' /\ Arrived'
  <1>1. PICK txn \in Transactions(rows) :
          /\ CommitTxn(txn)
          /\ log' = [p \in Partitions |-> log[p] \o MessagesFor(p, txn, 1) \o MessagesFor(p, txn, 2)]
    BY DEF Produce
  <1>2. PICK c \in RowChanges(rows) : txn = <<c>> BY DEF Transactions
  <1>3. /\ Len(txn) = 1 /\ txn[1] = c /\ DOMAIN txn = {1}
        /\ emitted \in Nat /\ emitted' = emitted + 1
    BY <1>1, <1>2 DEF CommitTxn, Named
  <1> DEFINE e == EventsOf(txn)[1]
             home == PartitionOf[c.key]
             mark == IF c.op = "DELETE" THEN <<Tombstone>> ELSE <<>>
  <1>4. e.tid = IF HasTids THEN emitted + 1 ELSE NoTid BY <1>3 DEF EventsOf
  <1>5. \A p : MessagesFor(p, txn, 1) = IF home # p THEN <<>> ELSE <<e>> \o mark
    BY <1>3 DEF MessagesFor
  <1>6. \A p : MessagesFor(p, txn, 2) = <<>> BY <1>3 DEF MessagesFor
  <1>7. mark = <<>> \/ mark = <<Tombstone>> OBVIOUS
  <1> HIDE DEF e, home, mark
  <1>8. \A p \in Partitions : Extends(p) /\ Len(log[p]) \in Nat BY ProduceExtends DEF Inv, Shape, Offset
  <1>9. PICK S : log \in [Partitions -> Seq(S)] BY DEF Inv, Shape
  <1>10. ASSUME NEW p, NEW o, Event(p, o)'
         PROVE  \/ Event(p, o) /\ log'[p][o] = log[p][o]
                \/ p = home /\ o = Len(log[p]) + 1 /\ log'[p][o] = e /\ ~Event(p, o)
    <2>1. p \in Partitions /\ o \in 1 .. Len(log'[p]) /\ log'[p][o] # Tombstone BY <1>10 DEF Event
    <2>2. CASE o \in 1 .. Len(log[p]) BY <1>8, <2>1, <2>2 DEF Event, Extends
    <2>3. CASE o \notin 1 .. Len(log[p])
      <3> DEFINE T == S \cup {e, Tombstone}
                 s == log[p]
                 m == MessagesFor(p, txn, 1)
      <3>0. e \in T /\ Tombstone \in T /\ s \in Seq(T) BY <1>9, <2>1
      <3> HIDE DEF T, s
      <3>1. <<e>> \in Seq(T) /\ mark \in Seq(T)
        <4>1. <<e>> \in Seq(T) /\ <<Tombstone>> \in Seq(T) /\ <<>> \in Seq(T) BY <3>0
        <4> QED BY <1>7, <4>1
      <3>2. m \in Seq(T) /\ (home # p => m = <<>>)
            /\ (home = p => m[1] = e /\ (Len(m) = 1 \/ (Len(m) = 2 /\ m[2] = Tombstone)))
        <4>1. CASE home # p
          <5>1. m = <<>> /\ <<>> \in Seq(T) BY <1>5, <4>1
          <5> QED BY <4>1, <5>1
        <4>2. CASE home = p /\ mark = <<>>
          <5>1. m = <<e>> \o <<>> BY <1>5, <4>2
          <5>2. <<e>> \o <<>> = <<e>> OBVIOUS
          <5>3. m = <<e>> BY <5>1, <5>2
          <5>4. Len(<<e>>) = 1 /\ <<e>>[1] = e OBVIOUS
          <5> HIDE DEF m
          <5> QED BY <3>1, <4>2, <5>3, <5>4
        <4>3. CASE home = p /\ mark = <<Tombstone>>
          <5>1. m = <<e>> \o mark BY <1>5, <4>3
          <5>2. m = <<e, Tombstone>> BY <4>3, <5>1
          <5>3. <<e>> \o mark \in Seq(T) BY <3>1
          <5>4. m \in Seq(T) BY <5>1, <5>3
          <5>5. Len(<<e, Tombstone>>) = 2 /\ <<e, Tombstone>>[1] = e
                /\ <<e, Tombstone>>[2] = Tombstone
            OBVIOUS
          <5> HIDE DEF m
          <5> QED BY <4>3, <5>2, <5>4, <5>5
        <4> QED BY <1>7, <4>1, <4>2, <4>3
      <3>3. log'[p] = s \o m \o <<>> BY <1>1, <1>6, <2>1 DEF s
      <3> HIDE DEF m
      <3>4. s \o m \in Seq(T) /\ Len(s \o m) = Len(s) + Len(m)
            /\ \A i \in 1 .. Len(m) : (s \o m)[Len(s) + i] = m[i]
        BY <3>0, <3>2
      <3>5. log'[p] = s \o m BY <3>3, <3>4
      <3>6. Len(s) \in Nat /\ Len(m) \in Nat BY <3>0, <3>2
      <3>7. o - Len(s) \in 1 .. Len(m) /\ o = Len(s) + (o - Len(s)) BY <2>1, <2>3, <3>4, <3>5, <3>6 DEF s
      <3>8. log'[p][o] = m[o - Len(s)] BY <3>4, <3>5, <3>7
      <3>9. home = p /\ o - Len(s) = 1 BY <2>1, <3>2, <3>7, <3>8
      <3>10. m[1] = e BY <3>2, <3>9
      <3> QED BY <2>3, <3>6, <3>7, <3>8, <3>9, <3>10 DEF s, Event
    <2> QED BY <2>2, <2>3
  <1>11. UNCHANGED <<batch, arrival>> BY DEF Produce, handlerVars
  <1>12. Named'
    <2>1. \A p, o : Event(p, o)' => log'[p][o].tid \in 1 .. emitted + 1
      BY <1>3, <1>4, <1>10 DEF Named
    <2>2. \A p, o : Event(p, o) => log[p][o].tid # emitted + 1 BY <1>3 DEF Named
    <2>3. ASSUME NEW p, NEW o, NEW q, NEW r, Event(p, o)', Event(q, r)',
                 log'[p][o].tid = log'[q][r].tid
          PROVE  p = q /\ o = r
      <3>1. CASE Event(p, o) /\ log'[p][o] = log[p][o]
        BY <1>4, <1>10, <2>2, <2>3, <3>1 DEF Named
      <3>2. CASE p = home /\ o = Len(log[p]) + 1 /\ log'[p][o] = e
        BY <1>4, <1>10, <2>2, <2>3, <3>2
      <3> QED BY <1>10, <2>3, <3>1, <3>2
    <2> QED BY <1>3, <2>1, <2>3 DEF Named
  <1>13. Arrived'
    <2>1. \A p, o : Event(p, o) => Event(p, o)' /\ log'[p][o] = log[p][o] BY <1>8 DEF Event, Extends
    <2> QED BY <1>11, <2>1 DEF Arrived
  <1> QED BY <1>12, <1>13

(* The log as it is, and the batch as it is, or none.                      *)
LEMMA ArrivedUnchanged ==
  ASSUME Arrived, log' = log, UNCHANGED <<batch, arrival>> \/ batch' = <<>>
  PROVE  Arrived'
  <1>1. \A p, o : Event(p, o)' <=> Event(p, o) BY DEF Event
  <1>2. DOMAIN <<>> = {} OBVIOUS
  <1> QED BY <1>1, <1>2 DEF Arrived

LEMMA OrderUnchanged ==
  ASSUME Named, Arrived, UNCHANGED <<log, emitted>>,
         UNCHANGED <<batch, arrival>> \/ batch' = <<>>
  PROVE  Named' /\ Arrived'
  <1>1. \A p, o : Event(p, o)' <=> Event(p, o) BY DEF Event
  <1>2. Named' BY <1>1 DEF Named
  <1> QED BY <1>2, ArrivedUnchanged

(* A batch is taken from the log, in an order that is one.                 *)
LEMMA ConsumeArrives ==
  ASSUME Inv, Arrived, Consume
  PROVE  Arrived' /\ UNCHANGED <<log, emitted>>
  <1>1. PICK upto \in Batches : ConsumeUpTo(upto) BY DEF Consume
  <1> DEFINE events == Parsed(Fetched(upto))
  <1>2. UNCHANGED <<log, emitted>> BY <1>1 DEF ConsumeUpTo, sourceVars
  <1>3. CASE events = {}
    BY <1>1, <1>2, <1>3, ArrivedUnchanged DEF ConsumeUpTo, handlerVars
  <1>4. CASE events # {}
    <2>1. PICK order \in Arrivals(events) : BeginBatch([m \in events |-> log[m[1]][m[2]]], order)
      BY <1>1, <1>4 DEF ConsumeUpTo
    <2>2. batch' = [m \in events |-> log[m[1]][m[2]]] /\ arrival' = order BY <2>1 DEF BeginBatch
    <2>3. /\ order \in [events -> 1 .. Cardinality(events)]
          /\ \A m, n \in events : order[m] = order[n] => m = n
          /\ \A m, n \in events : m[1] = n[1] /\ m[2] < n[2] => order[m] < order[n]
      BY <2>1 DEF Arrivals, Bijection, Injection, IsInjective
    <2>4. ASSUME NEW m \in events PROVE Event(m[1], m[2]) /\ m = <<m[1], m[2]>>
      <3>1. PICK p \in Partitions : \E o \in (position[p] + 1) .. upto[p] : m = <<p, o>>
        BY DEF Parsed, Fetched
      <3>2. PICK o \in (position[p] + 1) .. upto[p] : m = <<p, o>> BY <3>1
      <3>3. log[p][o] # Tombstone BY <3>2 DEF Parsed
      <3>4. /\ upto[p] \in Nat /\ upto[p] <= Len(log[p])
            /\ position[p] \in Nat /\ Len(log[p]) \in Nat
        BY <1>1, BoundsAssumption DEF Batches, Inv, Shape, Offset
      <3>5. o \in 1 .. Len(log[p]) BY <3>4
      <3> QED BY <3>2, <3>3, <3>5 DEF Event
    <2> HIDE DEF events
    <2>5. \A m \in events : order[m] \in Nat BY <2>3
    <2>6. \A p, o : Event(p, o)' <=> Event(p, o) BY <1>2 DEF Event
    <2>7. Arrived' BY <1>2, <2>2, <2>3, <2>4, <2>5, <2>6 DEF Arrived
    <2> QED BY <1>2, <2>7
  <1> QED BY <1>3, <1>4

LEMMA ConsumeOrders ==
  ASSUME Inv, Named, Arrived, Consume
  PROVE  Named' /\ Arrived'
  <1>1. Arrived' /\ UNCHANGED <<log, emitted>> BY ConsumeArrives
  <1>2. \A p, o : Event(p, o)' <=> Event(p, o) BY <1>1 DEF Event
  <1> QED BY <1>1, <1>2 DEF Named

LEMMA OrderNext ==
  ASSUME MaxRowsPerTxn = 1 \/ ~HasTids, Inv, Named, Arrived, [Next]_vars
  PROVE  Named' /\ Arrived'
  <1>1. CASE Produce BY <1>1, ProduceNames, ProduceUnnamed
  <1>2. CASE Consume BY <1>2, ConsumeOrders
  <1>3. CASE Handle
    BY <1>3, OrderUnchanged DEF Handle, HandlerStep, StartGroup, ApplyDelta, FinishGroup, Raise, Forget,
       sourceVars, kafkaVars
  <1>4. CASE Commit \/ CatchError \/ Crash
    BY <1>4, OrderUnchanged DEF Commit, CatchError, Crash, DropBatch, Forget, sourceVars
  <1>5. CASE StopSignal \/ Exit \/ Start \/ UNCHANGED vars
    BY <1>5, OrderUnchanged DEF StopSignal, Exit, Start, StartAt, vars, sourceVars, handlerVars, kafkaVars
  <1> QED BY <1>1, <1>2, <1>3, <1>4, <1>5 DEF Next, Run

(* Ids follow one another in the log of a partition.                       *)
Stamps ==
  /\ emitted \in Nat
  /\ \A p, o : Event(p, o) => IF HasTids THEN log[p][o].tid \in 1 .. emitted ELSE log[p][o].tid = NoTid
  /\ HasTids => \A p, i, j : Event(p, i) /\ Event(p, j) /\ i < j => log[p][i].tid <= log[p][j].tid

LEMMA StampsInit == Init => Stamps /\ Arrived
  <1> SUFFICES ASSUME Init PROVE Stamps /\ Arrived OBVIOUS
  <1>1. \A p, o : ~Event(p, o)
    <2>1. \A p \in Partitions : log[p] = <<>> BY DEF Init
    <2> QED BY <2>1 DEF Event
  <1>2. emitted \in Nat BY DEF Init, SourceInit
  <1>3. Stamps BY <1>1, <1>2 DEF Stamps
  <1> QED BY <1>3, OrderInit

LEMMA StampsProduce ==
  ASSUME Inv, Stamps, Arrived, Produce PROVE Stamps' /\ Arrived'
  <1>1. /\ emitted \in Nat /\ emitted' \in Nat /\ emitted < emitted'
        /\ \A p \in Partitions : Extends(p) /\ Len(log[p]) \in Nat
        /\ \A p, o : Event(p, o) => Event(p, o)' /\ log'[p][o] = log[p][o]
        /\ \A p, o : Event(p, o)' => \/ Event(p, o) /\ log'[p][o] = log[p][o]
                                     \/ o \notin 1 .. Len(log[p]) /\ log'[p][o].tid = NewTid
    BY ProduceTids DEF Stamps
  <1>2. \A p, o : Event(p, o)' => IF HasTids THEN log'[p][o].tid \in 1 .. emitted' ELSE log'[p][o].tid = NoTid
    <2> SUFFICES ASSUME NEW p, NEW o, Event(p, o)'
                 PROVE  IF HasTids THEN log'[p][o].tid \in 1 .. emitted' ELSE log'[p][o].tid = NoTid
      OBVIOUS
    <2>1. CASE Event(p, o) /\ log'[p][o] = log[p][o] BY <1>1, <2>1 DEF Stamps
    <2>2. CASE log'[p][o].tid = NewTid BY <1>1, <2>2 DEF NewTid
    <2> QED BY <1>1, <2>1, <2>2
  <1>3. ASSUME HasTids, NEW p, NEW i, NEW j, Event(p, i)', Event(p, j)', i < j
        PROVE  log'[p][i].tid <= log'[p][j].tid
    <2>1. log'[p][i].tid \in 1 .. emitted' /\ log'[p][j].tid \in 1 .. emitted' BY <1>2, <1>3
    <2>2. p \in Partitions /\ i \in Nat /\ j \in Nat BY <1>1, <1>3 DEF Event, Extends
    <2>3. CASE Event(p, j) /\ log'[p][j] = log[p][j]
      <3>1. i \in 1 .. Len(log[p]) BY <1>1, <1>3, <2>2, <2>3 DEF Event
      <3>2. Event(p, i) /\ log'[p][i] = log[p][i] BY <1>1, <1>3, <3>1
      <3> QED BY <1>3, <2>3, <3>2 DEF Stamps
    <2>4. CASE log'[p][j].tid = NewTid
      <3>1. log'[p][j].tid = emitted + 1 BY <1>3, <2>4 DEF NewTid
      <3>2. log'[p][i].tid = emitted + 1 \/ log'[p][i].tid \in 1 .. emitted BY <1>1, <1>3 DEF NewTid, Stamps
      <3> QED BY <1>1, <3>1, <3>2
    <2> QED BY <1>1, <1>3, <2>3, <2>4
  <1>4. Stamps' BY <1>1, <1>2, <1>3 DEF Stamps
  <1>5. UNCHANGED <<batch, arrival>> BY DEF Produce, handlerVars
  <1>6. Arrived' BY <1>1, <1>5 DEF Arrived
  <1> QED BY <1>4, <1>6

LEMMA StampsUnchanged ==
  ASSUME Stamps, UNCHANGED <<log, emitted>> PROVE Stamps'
  <1>1. \A p, o : Event(p, o)' <=> Event(p, o) BY DEF Event
  <1> QED BY <1>1 DEF Stamps

LEMMA StampsNext ==
  ASSUME Inv, Stamps, Arrived, [Next]_vars
  PROVE  Stamps' /\ Arrived'
  <1>1. CASE Produce BY <1>1, StampsProduce
  <1>2. CASE ~Produce
    <2>1. UNCHANGED <<log, emitted>>
      BY <1>2 DEF Next, Run, Consume, ConsumeUpTo, Handle, Commit, CatchError, StopSignal, Exit, Crash, Start, StartAt,
         sourceVars, kafkaVars, vars
    <2>2. CASE Consume BY <2>1, <2>2, StampsUnchanged, ConsumeArrives
    <2>3. CASE ~Consume
      <3>1. UNCHANGED <<batch, arrival>> \/ batch' = <<>>
        BY <1>2, <2>3 DEF Next, Run, vars, handlerVars, Handle, HandlerStep, StartGroup, ApplyDelta, FinishGroup,
           Raise, Forget, Commit, DropBatch, CatchError, StopSignal, Exit, Crash, Start, StartAt
      <3> QED BY <2>1, <3>1, StampsUnchanged, ArrivedUnchanged
    <2> QED BY <2>2, <2>3
  <1> QED BY <1>1, <1>2

(* Of two messages of a partition the earlier has the lower id, or arrived *)
(* first: so a group that overtakes has an earlier message elsewhere.      *)
LEMMA OrderStep ==
  ASSUME Inv, Stamps, Arrived, [Next]_vars,
         NEW m \in group' \ group, NEW n \in todo, m[1] = n[1], n[2] < m[2]
  PROVE  \/ n \in group'
         \/ \E l \in group' : l[1] # m[1] /\ arrival[l] < arrival[n]
  <1>1. CASE Handle /\ StartGroup
    <2>1. PICK x \in todo : First(x) /\ (group' = {} \/ group' = GroupOf(x))
      BY <1>1 DEF StartGroup, Raise, Forget
    <2>2. group' = GroupOf(x) /\ m \in GroupOf(x) BY <2>1
    <2>3. x \in DOMAIN batch /\ n \in DOMAIN batch BY <2>1 DEF Inv, Known
    <2>4. GroupOf(x) \subseteq DOMAIN batch BY <2>3 DEF GroupOf, SameTxn
    <2>5. m \in DOMAIN batch BY <2>2, <2>4
    <2>6. \A y \in DOMAIN batch : arrival[y] \in Nat BY DEF Arrived
    <2>7. arrival[n] < arrival[m] BY <2>3, <2>5 DEF Arrived
    <2>8. Before(x, n) BY <2>1 DEF First
    <2>9. CASE ~HasTids
      <3>1. \A y \in DOMAIN batch : batch[y].tid = NoTid BY <2>9 DEF Stamps, Arrived
      <3>2. GroupOf(x) = {x} /\ SameTxn(x) = SameTxn(n) BY <2>3, <3>1 DEF GroupOf, SameTxn
      <3>3. Leader(x) = Leader(n) /\ Leader(x) \in Nat BY <2>3, <3>2, LeaderIs DEF Leader
      <3>4. arrival[x] <= arrival[n] BY <2>8, <3>3 DEF Before
      <3> QED BY <2>2, <2>3, <2>6, <2>7, <3>2, <3>4
    <2>10. CASE HasTids
      <3>1. \A y \in DOMAIN batch : batch[y].tid \in Nat BY <2>10 DEF Stamps, Arrived
      <3>2. GroupOf(x) = SameTxn(x) BY <2>3, <3>1, TableAssumption DEF GroupOf
      <3>3. PICK l \in SameTxn(x) : arrival[l] = Leader(x) BY <2>3, LeaderIs
      <3>4. l \in DOMAIN batch /\ batch[l].tid = batch[x].tid BY DEF SameTxn
      <3>5. Leader(x) \in Nat /\ Leader(n) \in Nat /\ Leader(n) <= arrival[n] BY <2>3, LeaderIs
      <3>6. arrival[l] <= arrival[n] BY <2>3, <2>6, <2>8, <3>3, <3>5 DEF Before
      <3>7. CASE n \in SameTxn(x) BY <2>2, <3>2, <3>7
      <3>8. CASE n \notin SameTxn(x)
        <4>1. l # n BY <3>8
        <4>2. arrival[l] < arrival[n]
          <5>1. arrival[l] # arrival[n] BY <2>3, <3>4, <4>1 DEF Arrived
          <5> QED BY <2>3, <2>6, <3>4, <3>6, <5>1
        <4>3. ASSUME l[1] = m[1] PROVE FALSE
          <5> DEFINE p == m[1]
          <5>1. /\ Event(p, l[2]) /\ l = <<p, l[2]>> /\ batch[l] = log[p][l[2]]
                /\ Event(p, n[2]) /\ n = <<p, n[2]>> /\ batch[n] = log[p][n[2]]
                /\ Event(p, m[2]) /\ m = <<p, m[2]>> /\ batch[m] = log[p][m[2]]
            BY <2>3, <2>5, <3>4, <4>3 DEF Arrived
          <5>2. l[2] \in Nat /\ n[2] \in Nat /\ m[2] \in Nat
            <6>1. Len(log[p]) \in Nat BY <5>1 DEF Event, Inv, Shape, Offset
            <6> QED BY <5>1, <6>1 DEF Event
          <5>3. ~(n[2] < l[2])
            <6>1. n[2] < l[2] => arrival[n] < arrival[l] BY <2>3, <3>4, <4>3 DEF Arrived
            <6> QED BY <2>3, <2>6, <3>4, <4>2, <6>1
          <5>4. l[2] # n[2] BY <4>1, <5>1
          <5>5. l[2] < n[2] BY <5>2, <5>3, <5>4
          <5>6. batch[l].tid <= batch[n].tid /\ batch[n].tid <= batch[m].tid
            BY <2>10, <5>1, <5>5 DEF Stamps
          <5>7. batch[m].tid = batch[l].tid BY <2>2, <3>2, <3>4 DEF SameTxn
          <5>8. batch[n].tid = batch[x].tid BY <2>3, <2>5, <3>1, <3>4, <5>6, <5>7
          <5> QED BY <2>3, <3>8, <5>8 DEF SameTxn
        <4> QED BY <2>2, <3>2, <4>2, <4>3
      <3> QED BY <3>7, <3>8
    <2> QED BY <2>9, <2>10
  <1>2. CASE ~(Handle /\ StartGroup)
    <2>1. group' = group \/ group' = {}
      BY <1>2 DEF Next, Run, vars, Produce, Consume, ConsumeUpTo, BeginBatch, Handle, HandlerStep, ApplyDelta,
         FinishGroup, Raise, Forget, Commit, CatchError, Crash, DropBatch, StopSignal, Exit, Start, StartAt,
         handlerVars
    <2> QED BY <2>1
  <1> QED BY <1>1, <1>2

(* "Preserves Kafka partition ordering" (kafka_consumer.py:15), as far as  *)
(* group_by_transaction (handler.py:289) leaves it: for any keys,          *)
(* partitions, batch size, transactions, interleaving of the partitions in *)
(* a batch and number of restarts, no message is handed to the handler     *)
(* before an earlier one of its partition, but by a transaction one of     *)
(* whose messages, on another partition, arrived before that earlier one.  *)
THEOREM OrderIsKept == Spec => PartitionOrder
  <1>1. Inv /\ Stamps /\ Arrived /\ [Next]_vars => (Stamps /\ Arrived)' BY StampsNext
  <1>2. Inv /\ Stamps /\ Arrived /\ [Next]_vars =>
          [\A m \in group' \ group : \A n \in todo :
             m[1] = n[1] /\ n[2] < m[2] =>
               \/ n \in group'
               \/ \E l \in group' : l[1] # m[1] /\ arrival[l] < arrival[n]]_vars
    <2> SUFFICES ASSUME Inv, Stamps, Arrived, [Next]_vars, NEW m \in group' \ group, NEW n \in todo,
                        m[1] = n[1], n[2] < m[2]
                 PROVE  n \in group' \/ \E l \in group' : l[1] # m[1] /\ arrival[l] < arrival[n]
      OBVIOUS
    <2> QED BY OrderStep
  <1> QED BY <1>1, <1>2, StampsInit, Invariance, PTL DEF Spec, PartitionOrder

(***************************************************************************)
(* The log tells the history of the table                                  *)
(***************************************************************************)

(* A log that tells the history of a table.                                *)
Told(tbl, lg) ==
  /\ tbl \in Tables
  /\ \E S : lg \in [Partitions -> Seq(S)]
  /\ \A k \in Keys : /\ Tells(lg[PartitionOf[k]], k, Tombstone)
                     /\ Stood(lg[PartitionOf[k]], k, Tombstone, Len(lg[PartitionOf[k]]), tbl[k])
  /\ \A p \in Partitions : \A o \in 1 .. Len(lg[p]) :
       lg[p][o] # Tombstone => \E k \in Keys : PartitionOf[k] = p /\ Proper(lg[p][o], k)

(* What a change adds to partition p.                                      *)
Mark(c) == IF c.op = "DELETE" THEN <<Tombstone>> ELSE <<>>
More(p, c, e) == IF PartitionOf[c.key] # p THEN <<>> ELSE <<e>> \o Mark(c)

(* What a change adds to a partition: its event, and a tombstone after a   *)
(* delete.                                                                 *)
LEMMA MoreIs ==
  ASSUME NEW p, NEW c, NEW e, NEW T, e \in T, Tombstone \in T
  PROVE  /\ More(p, c, e) \in Seq(T)
         /\ PartitionOf[c.key] # p => Len(More(p, c, e)) = 0
         /\ PartitionOf[c.key] = p => /\ Len(More(p, c, e)) \in {1, 2} /\ More(p, c, e)[1] = e
                                      /\ Len(More(p, c, e)) = 2 => More(p, c, e)[2] = Tombstone
  <1>1. CASE PartitionOf[c.key] # p
    <2>1. More(p, c, e) = <<>> BY <1>1 DEF More
    <2>2. <<>> \in Seq(T) /\ Len(<<>>) = 0 OBVIOUS
    <2> HIDE DEF More
    <2> QED BY <1>1, <2>1, <2>2
  <1>2. CASE PartitionOf[c.key] = p /\ c.op = "DELETE"
    <2>1. More(p, c, e) = <<e, Tombstone>> BY <1>2, OneAndOne DEF More, Mark
    <2>2. /\ <<e, Tombstone>> \in Seq(T) /\ Len(<<e, Tombstone>>) = 2
          /\ <<e, Tombstone>>[1] = e /\ <<e, Tombstone>>[2] = Tombstone
      OBVIOUS
    <2> QED BY <1>2, <2>1, <2>2
  <1>3. CASE PartitionOf[c.key] = p /\ c.op # "DELETE"
    <2>1. More(p, c, e) = <<e>> \o <<>> BY <1>3 DEF More, Mark
    <2>2. <<e>> \o <<>> = <<e>> OBVIOUS
    <2>3. <<e>> \in Seq(T) /\ Len(<<e>>) = 1 /\ <<e>>[1] = e OBVIOUS
    <2>4. More(p, c, e) = <<e>> BY <2>1, <2>2
    <2> QED BY <1>3, <2>3, <2>4
  <1> QED BY <1>1, <1>2, <1>3

(* A change of the table and its event in the log.                         *)
LEMMA ToldMore ==
  ASSUME NEW tbl, NEW lg, Told(tbl, lg), NEW c \in RowChanges(tbl), OnlyKinds, NEW e,
         e.op = c.op, e.new = c.new, e.old = c.old, e.lsn \in Nat, e # Tombstone
  PROVE  Told(AfterChange(tbl, c), [p \in Partitions |-> lg[p] \o More(p, c, e)])
  <1> DEFINE after == AfterChange(tbl, c)
             lh == [p \in Partitions |-> lg[p] \o More(p, c, e)]
  <1>1. PICK S : lg \in [Partitions -> Seq(S)] BY DEF Told
  <1>2. PICK T : T = S \cup {e, Tombstone} OBVIOUS
  <1>3. /\ c.key \in Keys /\ c.op \in {"INSERT", "UPDATE", "DELETE"}
        /\ RowOf(e) \in RowsOf(c.key) \ {NoRow} /\ e.new \in RowsOf(c.key)
        /\ Legal(tbl[c.key], e)
        /\ after \in Tables /\ after[c.key] = e.new
        /\ \A k \in Keys : k # c.key => after[k] = tbl[k]
    BY ChangeIsLegal DEF Told
  <1>4. \A k \in Keys : tbl[k] \in RowsOf(k) /\ after[k] \in RowsOf(k) BY <1>3, RowOfTable DEF Told
  <1>5. RowOf(e).key = c.key BY <1>3 DEF RowsOf
  <1> HIDE DEF after
  <1>6. ASSUME NEW p \in Partitions
        PROVE  /\ lh[p] \in Seq(T) /\ Prefix(lg[p], lh[p])
               /\ PartitionOf[c.key] # p => Len(lh[p]) = Len(lg[p])
               /\ PartitionOf[c.key] = p => /\ Len(lh[p]) \in {Len(lg[p]) + 1, Len(lg[p]) + 2}
                                            /\ lh[p][Len(lg[p]) + 1] = e
                                            /\ \A o \in (Len(lg[p]) + 2) .. Len(lh[p]) : lh[p][o] = Tombstone
    <2> DEFINE s == lg[p]
               m == More(p, c, e)
    <2>1. s \in Seq(T) /\ e \in T /\ Tombstone \in T BY <1>1, <1>2
    <2>2. /\ m \in Seq(T)
          /\ PartitionOf[c.key] # p => Len(m) = 0
          /\ PartitionOf[c.key] = p => /\ Len(m) \in {1, 2} /\ m[1] = e
                                       /\ Len(m) = 2 => m[2] = Tombstone
      BY <2>1, MoreIs
    <2> HIDE DEF s, m
    <2>3. /\ s \o m \in Seq(T) /\ Len(s \o m) = Len(s) + Len(m)
          /\ Len(s) \in Nat /\ Len(m) \in Nat
          /\ \A i \in 1 .. Len(s) : (s \o m)[i] = s[i]
          /\ \A i \in 1 .. Len(m) : (s \o m)[Len(s) + i] = m[i]
      BY <2>1, <2>2
    <2>4. lh[p] = s \o m BY DEF s, m
    <2> DEFINE t == s \o m
    <2> HIDE DEF t, lh
    <2>5. t \in Seq(T) /\ Prefix(s, t) BY <2>3 DEF Prefix, t
    <2>6. PartitionOf[c.key] # p => Len(t) = Len(s) BY <2>2, <2>3 DEF t
    <2>7. ASSUME PartitionOf[c.key] = p
          PROVE  /\ Len(t) \in {Len(s) + 1, Len(s) + 2} /\ t[Len(s) + 1] = e
                 /\ \A o \in (Len(s) + 2) .. Len(t) : t[o] = Tombstone
      <3>1. Len(m) \in {1, 2} /\ m[1] = e /\ (Len(m) = 2 => m[2] = Tombstone) BY <2>2, <2>7
      <3>2. Len(t) = Len(s) + Len(m) /\ \A i \in 1 .. Len(m) : t[Len(s) + i] = m[i] BY <2>3 DEF t
      <3>3. t[Len(s) + 1] = e BY <3>1, <3>2
      <3>4. ASSUME NEW o \in (Len(s) + 2) .. Len(t) PROVE t[o] = Tombstone
        <4>0. PICK n \in Nat : n = Len(s) BY <2>3
        <4>1. o = Len(s) + 2 /\ Len(m) = 2
          <5>1. PICK l \in {1, 2} : l = Len(m) BY <3>1
          <5>2. o \in (n + 2) .. (n + l) BY <3>2, <4>0, <5>1
          <5>3. n + 2 <= o /\ o <= n + l /\ o \in Int BY <5>2
          <5>4. l = 2 BY <5>3
          <5>5. o = n + 2 BY <5>3, <5>4
          <5> QED BY <4>0, <5>1, <5>4, <5>5
        <4> QED BY <3>1, <3>2, <4>1
      <3>5. Len(t) \in {Len(s) + 1, Len(s) + 2} BY <3>1, <3>2
      <3> QED BY <3>3, <3>4, <3>5
    <2> QED BY <2>4, <2>5, <2>6, <2>7 DEF s, t
  <1>7. lh \in [Partitions -> Seq(T)] BY <1>6
  <1>8. \A p \in Partitions : Len(lg[p]) \in Nat /\ Len(lh[p]) \in Nat BY <1>6 DEF Prefix
  <1> HIDE DEF lh
  <1>9. ASSUME NEW k \in Keys
        PROVE  /\ Tells(lh[PartitionOf[k]], k, Tombstone)
               /\ Stood(lh[PartitionOf[k]], k, Tombstone, Len(lh[PartitionOf[k]]), after[k])
    <2>0. PICK p \in Partitions : p = PartitionOf[k] BY TopicAssumption
    <2> DEFINE l == lg[p]
               m == lh[p]
    <2>1. Prefix(l, m) /\ Len(l) \in Nat /\ Len(m) \in Nat BY <1>6, <1>8
    <2>2. Tells(l, k, Tombstone) /\ Stood(l, k, Tombstone, Len(l), tbl[k]) BY <2>0 DEF Told
    <2>3. CASE k = c.key
      <3>1. /\ Len(m) \in {Len(l) + 1, Len(l) + 2} /\ m[Len(l) + 1] = e
            /\ \A o \in (Len(l) + 2) .. Len(m) : m[o] = Tombstone
        BY <1>6, <2>0, <2>3
      <3> HIDE DEF l, m
      <3>2. About(m, Len(l) + 1, k, Tombstone) BY <1>5, <2>3, <3>1 DEF About
      <3>3. \A o \in ((Len(l) + 1) + 1) .. Len(m) : ~About(m, o, k, Tombstone)
        BY <2>1, <3>1 DEF About
      <3>4. Legal(tbl[k], m[Len(l) + 1]) /\ after[k] = m[Len(l) + 1].new BY <1>3, <2>3, <3>1
      <3>5. Len(l) + 1 <= Len(m) /\ Len(l) + 1 # Len(l) /\ Len(l) + 1 \in {Len(l), Len(l) + 1} BY <2>1, <3>1
      <3>6. Tells(m, k, Tombstone) /\ Stood(m, k, Tombstone, Len(m), after[k])
        BY <1>4, <2>1, <2>2, <3>2, <3>3, <3>4, <3>5, TellsMore
      <3> QED BY <2>0, <3>6 DEF m
    <2>4. CASE k # c.key
      <3>1. after[k] = tbl[k] BY <1>3, <2>4
      <3>2. \A o \in (Len(l) + 1) .. Len(m) : ~About(m, o, k, Tombstone)
        <4> SUFFICES ASSUME NEW o \in (Len(l) + 1) .. Len(m) PROVE ~About(m, o, k, Tombstone) OBVIOUS
        <4>1. PartitionOf[c.key] = p BY <1>6, <2>1
        <4>2. CASE o = Len(l) + 1
          <5>1. m[o] = e BY <1>6, <4>1, <4>2
          <5> QED BY <1>5, <2>4, <5>1 DEF About
        <4>3. CASE o # Len(l) + 1
          <5>1. o \in (Len(l) + 2) .. Len(m) BY <2>1, <4>3
          <5>2. m[o] = Tombstone BY <1>6, <4>1, <5>1
          <5> QED BY <5>2 DEF About
        <4> QED BY <4>2, <4>3
      <3> HIDE DEF l, m
      <3>3. Len(l) <= Len(m) BY <2>1 DEF Prefix
      <3>4. Tells(m, k, Tombstone) /\ Stood(m, k, Tombstone, Len(m), tbl[k])
        BY <1>4, <2>1, <2>2, <3>2, <3>3, TellsMore
      <3> QED BY <2>0, <3>1, <3>4 DEF m
    <2> QED BY <2>3, <2>4
  <1>10. ASSUME NEW p \in Partitions, NEW o \in 1 .. Len(lh[p]), lh[p][o] # Tombstone
         PROVE  \E k \in Keys : PartitionOf[k] = p /\ Proper(lh[p][o], k)
    <2>1. CASE o \in 1 .. Len(lg[p])
      <3>1. lh[p][o] = lg[p][o] BY <1>6, <2>1 DEF Prefix
      <3> QED BY <1>10, <2>1, <3>1 DEF Told
    <2>2. CASE o \notin 1 .. Len(lg[p])
      <3>1. PartitionOf[c.key] = p BY <1>6, <1>8, <2>2
      <3>2. o = Len(lg[p]) + 1 \/ o \in (Len(lg[p]) + 2) .. Len(lh[p])
        <4>1. PICK x \in Nat, y \in Nat : x = Len(lg[p]) /\ y = Len(lh[p]) BY <1>8
        <4>2. o \in 1 .. y /\ o \notin 1 .. x BY <2>2, <4>1
        <4>3. o = x + 1 \/ o \in (x + 2) .. y BY <4>2
        <4> QED BY <4>1, <4>3
      <3>3. lh[p][o] = e BY <1>6, <1>10, <3>1, <3>2
      <3>4. e.op = "DELETE" => e.new = NoRow BY <1>3 DEF Legal
      <3>5. Proper(e, c.key) BY <1>3, <3>4 DEF Proper
      <3> QED BY <1>3, <3>1, <3>3, <3>5
    <2> QED BY <2>1, <2>2
  <1>11. Told(after, lh) BY <1>3, <1>7, <1>9, <1>10 DEF Told
  <1> QED BY <1>11 DEF after, lh

(* The fields of an event.                                                 *)
LEMMA EventsAre ==
  ASSUME NEW txn, NEW i \in DOMAIN txn
  PROVE  /\ EventsOf(txn)[i].op = txn[i].op /\ EventsOf(txn)[i].new = txn[i].new
         /\ EventsOf(txn)[i].old = txn[i].old /\ EventsOf(txn)[i].lsn = emitted + i
         /\ EventsOf(txn)[i].tid = IF HasTids THEN emitted + 1 ELSE NoTid
         /\ EventsOf(txn)[i] = [op |-> txn[i].op, new |-> txn[i].new, old |-> txn[i].old,
                                lsn |-> emitted + i, tid |-> IF HasTids THEN emitted + 1 ELSE NoTid]
  BY DEF EventsOf

(* An event is no tombstone.                                               *)
LEMMA EventIsNone ==
  ASSUME NEW tbl \in Tables, NEW c \in RowChanges(tbl), OnlyKinds, emitted \in Nat,
         NEW txn, NEW i \in DOMAIN txn, i \in Nat, txn[i] = c
  PROVE  LET e == EventsOf(txn)[i]
         IN  e.op = c.op /\ e.new = c.new /\ e.old = c.old /\ e.lsn \in Nat /\ e # Tombstone
  <1> DEFINE e == EventsOf(txn)[i]
  <1>1. e.op = c.op /\ e.new = c.new /\ e.old = c.old /\ e.lsn = emitted + i BY EventsAre
  <1>2. e = [op |-> c.op, new |-> c.new, old |-> c.old, lsn |-> emitted + i,
             tid |-> IF HasTids THEN emitted + 1 ELSE NoTid]
    BY EventsAre
  <1> HIDE DEF e
  <1>3. /\ c.op \in {"INSERT", "UPDATE", "DELETE"}
        /\ c.new \in Rows \cup {NoRow} /\ c.old \in Rows \cup {NoRow}
    BY <1>1, ChangeIsLegal
  <1>4. emitted + i \in Nat /\ (IF HasTids THEN emitted + 1 ELSE NoTid) \in Nat \cup {NoTid} OBVIOUS
  <1>5. e \in [op : {"INSERT", "UPDATE", "DELETE"}, new : Rows \cup {NoRow},
               old : Rows \cup {NoRow}, lsn : Nat, tid : Nat \cup {NoTid}]
    BY <1>2, <1>3, <1>4
  <1>6. e # Tombstone BY <1>5, TopicAssumption
  <1> QED BY <1>1, <1>4, <1>6 DEF e

(* MessagesFor, for a change that the transaction has.                     *)
LEMMA MessagesAreMore ==
  ASSUME NEW p, NEW txn, NEW i, ~(i > Len(txn))
  PROVE  MessagesFor(p, txn, i) = More(p, txn[i], EventsOf(txn)[i])
  BY DEF MessagesFor, More, Mark

(* A transaction adds its changes to the log in their order.               *)
LEMMA ToldProduce ==
  ASSUME Told(rows, log), OnlyKinds, emitted \in Nat, Produce
  PROVE  Told(rows', log')
  <1>1. PICK txn \in Transactions(rows) :
          /\ CommitTxn(txn)
          /\ log' = [p \in Partitions |-> log[p] \o MessagesFor(p, txn, 1) \o MessagesFor(p, txn, 2)]
    BY DEF Produce
  <1>2. rows' = AfterTxn(rows, txn) BY <1>1 DEF CommitTxn
  <1>3. rows \in Tables BY DEF Told
  <1>4. ASSUME NEW c \in RowChanges(rows), NEW d, txn = <<c>> \/ txn = <<c, d>>
        PROVE  LET lh == [p \in Partitions |-> log[p] \o MessagesFor(p, txn, 1)]
               IN  Told(AfterChange(rows, c), lh) /\ \E S : lh \in [Partitions -> Seq(S)]
    <2> DEFINE e == EventsOf(txn)[1]
               lh == [p \in Partitions |-> log[p] \o MessagesFor(p, txn, 1)]
               lk == [p \in Partitions |-> log[p] \o More(p, c, e)]
    <2>1. txn[1] = c /\ 1 \in DOMAIN txn /\ ~(1 > Len(txn)) BY <1>4
    <2>2. e.op = c.op /\ e.new = c.new /\ e.old = c.old /\ e.lsn \in Nat /\ e # Tombstone
      BY <1>3, <2>1, EventIsNone
    <2> HIDE DEF e
    <2>3. Told(AfterChange(rows, c), lk) BY <2>2, ToldMore
    <2>4. \A p : MessagesFor(p, txn, 1) = More(p, c, e) BY <2>1, MessagesAreMore DEF e
    <2>5. lh = lk BY <2>4
    <2> HIDE DEF lh, lk
    <2>6. Told(AfterChange(rows, c), lh) BY <2>3, <2>5
    <2>7. \E S : lh \in [Partitions -> Seq(S)] BY <2>6 DEF Told
    <2> QED BY <2>6, <2>7 DEF lh
  <1>5. CASE \E c \in RowChanges(rows) : txn = <<c>>
    <2>1. PICK c \in RowChanges(rows) : txn = <<c>> BY <1>5
    <2> DEFINE lh == [p \in Partitions |-> log[p] \o MessagesFor(p, txn, 1)]
    <2>2. Told(AfterChange(rows, c), lh) /\ \E S : lh \in [Partitions -> Seq(S)] BY <1>4, <2>1
    <2>3. PICK S : lh \in [Partitions -> Seq(S)] BY <2>2
    <2>4. Len(txn) = 1 /\ txn[1] = c BY <2>1
    <2>5. \A p : MessagesFor(p, txn, 2) = <<>> BY <2>4 DEF MessagesFor
    <2>6. log' = [p \in Partitions |-> lh[p] \o <<>>] BY <1>1, <2>5
    <2> HIDE DEF lh
    <2>7. \A p \in Partitions : lh[p] \o <<>> = lh[p]
      <3> SUFFICES ASSUME NEW p \in Partitions PROVE lh[p] \o <<>> = lh[p] OBVIOUS
      <3>1. lh[p] \in Seq(S) BY <2>3
      <3> QED BY <3>1
    <2>8. log' = lh BY <2>3, <2>6, <2>7
    <2>9. rows' = AfterChange(rows, c) BY <1>2, <2>4 DEF AfterTxn
    <2> QED BY <2>2, <2>8, <2>9
  <1>6. CASE \E c \in RowChanges(rows) : \E d \in RowChanges(AfterChange(rows, c)) : txn = <<c, d>>
    <2>1. PICK c \in RowChanges(rows) : \E d \in RowChanges(AfterChange(rows, c)) : txn = <<c, d>> BY <1>6
    <2>2. PICK d \in RowChanges(AfterChange(rows, c)) : txn = <<c, d>> BY <2>1
    <2> DEFINE lh == [p \in Partitions |-> log[p] \o MessagesFor(p, txn, 1)]
               tbl == AfterChange(rows, c)
               e == EventsOf(txn)[2]
    <2>3. Told(tbl, lh) BY <1>4, <2>2
    <2>4. txn[2] = d /\ txn[1] = c /\ Len(txn) = 2 /\ 2 \in DOMAIN txn /\ ~(2 > Len(txn)) BY <2>2
    <2>5. log' = [p \in Partitions |-> lh[p] \o MessagesFor(p, txn, 2)] BY <1>1
    <2> HIDE DEF lh
    <2>6. \A p : MessagesFor(p, txn, 2) = More(p, d, e) BY <2>4, MessagesAreMore
    <2>7. log' = [p \in Partitions |-> lh[p] \o More(p, d, e)] BY <2>5, <2>6
    <2>8. rows' = AfterChange(tbl, d) BY <1>2, <2>4 DEF AfterTxn
    <2>9. tbl \in Tables /\ d \in RowChanges(tbl) BY <2>2, <2>3 DEF Told
    <2> HIDE DEF tbl
    <2>10. e.op = d.op /\ e.new = d.new /\ e.old = d.old /\ e.lsn \in Nat /\ e # Tombstone
      BY <2>4, <2>9, EventIsNone
    <2> HIDE DEF e
    <2>11. Told(AfterChange(tbl, d), [p \in Partitions |-> lh[p] \o More(p, d, e)])
      BY <2>3, <2>9, <2>10, ToldMore
    <2> QED BY <2>7, <2>8, <2>11
  <1> QED BY <1>5, <1>6 DEF Transactions

(* An empty log tells the table as it was loaded.                          *)
LEMMA ToldInit == Init => Told(rows, log)
  <1> SUFFICES ASSUME Init PROVE Told(rows, log) OBVIOUS
  <1>1. rows = InitRows /\ log = [p \in Partitions |-> <<>>] BY DEF Init, SourceInit
  <1>2. rows \in Tables BY <1>1, TableAssumption DEF Tables
  <1>3. log \in [Partitions -> Seq({0})] BY <1>1, EmptyLog
  <1>4. \A p \in Partitions : Len(log[p]) = 0 BY <1>1
  <1>5. ASSUME NEW k \in Keys
        PROVE  /\ Tells(log[PartitionOf[k]], k, Tombstone)
               /\ Stood(log[PartitionOf[k]], k, Tombstone, Len(log[PartitionOf[k]]), rows[k])
    <2>1. PICK p \in Partitions : p = PartitionOf[k] BY TopicAssumption
    <2>2. Len(log[p]) = 0 BY <1>4
    <2>3. Stood(log[p], k, Tombstone, 0, rows[k]) BY <1>1 DEF Stood
    <2>4. rows[k] \in RowsOf(k) BY <1>2, RowOfTable
    <2>5. \A o \in 0 .. Len(log[p]) : o = 0 /\ ~(o < Len(log[p])) BY <2>2
    <2>6. Tells(log[p], k, Tombstone) BY <2>3, <2>4, <2>5 DEF Tells
    <2> QED BY <2>1, <2>2, <2>3, <2>6
  <1>6. \A p \in Partitions : 1 .. Len(log[p]) = {} BY <1>4
  <1> QED BY <1>2, <1>3, <1>5, <1>6 DEF Told

(***************************************************************************)
(* What a consumer has in hand                                             *)
(***************************************************************************)

(* The messages in hand reach, without gaps, up to the position.           *)
Hand == todo \cup group

Waits(p, o) ==
  /\ committed[p] < o /\ o <= position[p]
  /\ \A q \in o .. position[p] : Event(p, q) => <<p, q>> \in Hand

AtHand ==
  /\ pc # "handling" \/ process = "down" => Hand = {}
  /\ \A p, o : <<p, o>> \in Hand => Waits(p, o)
  /\ \A m \in group : group = {m} /\ work \in Works(m) /\ \A n \in todo : m[1] = n[1] => m[2] < n[2]
  /\ group = {} => work = <<>>

(* At first nothing is in hand.                                            *)
LEMMA AtHandInit == Init => AtHand
  BY DEF Init, HandlerInit, AtHand, Hand

(* The event of a message is that of a row of its partition.               *)
LEMMA ProperBatch ==
  ASSUME Told(rows, log), Arrived, NEW m \in DOMAIN batch
  PROVE  /\ m = <<m[1], m[2]>> /\ Event(m[1], m[2]) /\ batch[m] = log[m[1]][m[2]]
         /\ \E k \in Keys : PartitionOf[k] = m[1] /\ Proper(batch[m], k)
  <1>1. m = <<m[1], m[2]>> /\ Event(m[1], m[2]) /\ batch[m] = log[m[1]][m[2]] BY DEF Arrived
  <1>2. m[1] \in Partitions /\ m[2] \in 1 .. Len(log[m[1]]) /\ log[m[1]][m[2]] # Tombstone BY <1>1 DEF Event
  <1>3. \E k \in Keys : PartitionOf[k] = m[1] /\ Proper(log[m[1]][m[2]], k) BY <1>2 DEF Told
  <1> QED BY <1>1, <1>3

(* A group that starts is the first message of the batch that is left.     *)
LEMMA GroupStarts ==
  ASSUME Inv, Named, Arrived, Told(rows, log), BadVals = {}, StartGroup
  PROVE  \E m \in todo : /\ group' = {m} /\ todo' = todo \ {m} /\ group = {} /\ pc = "handling"
                         /\ UNCHANGED <<policy, store, batch, arrival, pc, applied, failed>>
                         /\ work' \in Works(m) /\ IdsIn(work') = IdsOfRow(RowOf(batch[m]))
                         /\ \A n \in todo : arrival[m] <= arrival[n]
  <1>1. PICK m \in todo :
          /\ First(m)
          /\ IF \E n \in GroupOf(m) : TransformRaises(batch[n])
               THEN Raise /\ UNCHANGED <<store, failed>>
               ELSE /\ group' = GroupOf(m)
                    /\ todo' = todo \ GroupOf(m)
                    /\ LET ms == InOrder(GroupOf(m))
                       IN  work' = FlattenSeq([i \in DOMAIN ms |-> DeltasOf(ms[i])])
                    /\ UNCHANGED <<policy, store, batch, arrival, pc, applied, failed>>
    BY DEF StartGroup
  <1>2. GroupOf(m) = {m} /\ \A n \in todo : arrival[m] <= arrival[n] BY <1>1, OrderOfGroups
  <1>3. ~\E n \in GroupOf(m) : TransformRaises(batch[n]) BY DEF TransformRaises
  <1>4. m \in DOMAIN batch BY DEF Inv, Known
  <1>5. RowOf(batch[m]) # NoRow BY <1>4, ProperBatch DEF Proper
  <1>6. work' = FlattenSeq([i \in DOMAIN InOrder({m}) |-> DeltasOf(InOrder({m})[i])]) BY <1>1, <1>2, <1>3
  <1>7. [i \in DOMAIN InOrder({m}) |-> DeltasOf(InOrder({m})[i])] = [i \in 1 .. 1 |-> DeltasOf(m)]
    BY OneInOrder
  <1>8. work' = DeltasOf(m) BY <1>6, <1>7, FlattenOne
  <1>9. work' \in Works(m) /\ IdsIn(work') = IdsOfRow(RowOf(batch[m])) BY <1>5, <1>8, DeltasOfOne
  <1> QED BY <1>1, <1>2, <1>3, <1>9 DEF StartGroup

(* A delta is the next of the one message of the group.                    *)
LEMMA DeltaApplies ==
  ASSUME AtHand, ApplyDelta
  PROVE  \E m \in group :
           /\ group = {m} /\ work \in Works(m) /\ work # <<>> /\ pc = "handling"
           /\ \E o \in Resolve(Head(work)) :
                /\ store' = o.store
                /\ failed' = IF o.verdict = "failed" THEN failed \cup {Head(work).msg} ELSE failed
                /\ IF o.verdict = "failed" /\ policy = "fail"
                     THEN Raise
                     ELSE work' = Tail(work) /\ UNCHANGED <<policy, batch, arrival, todo, group, pc, applied>>
  <1>1. group # {} BY DEF AtHand, ApplyDelta
  <1>2. PICK m \in group : group = {m} /\ work \in Works(m) BY <1>1 DEF AtHand
  <1> QED BY <1>2 DEF ApplyDelta

(* The handler takes messages in order and drops none.                     *)
LEMMA AtHandHandle ==
  ASSUME Inv, Named, Arrived, Told(rows, log), BadVals = {}, AtHand, Handle
  PROVE  AtHand'
  <1>1. UNCHANGED <<log, committed, position, process>> /\ process # "down" BY DEF Handle, kafkaVars
  <1>2. \A p, o : Event(p, o)' <=> Event(p, o) BY <1>1 DEF Event
  <1>3. CASE StartGroup
    <2>1. PICK m \in todo :
            /\ group' = {m} /\ todo' = todo \ {m} /\ group = {} /\ pc = "handling"
            /\ UNCHANGED <<policy, store, batch, arrival, pc, applied, failed>>
            /\ work' \in Works(m)
            /\ \A n \in todo : arrival[m] <= arrival[n]
      BY <1>3, GroupStarts
    <2>2. Hand' = Hand BY <2>1 DEF Hand
    <2>3. \A p, o : Waits(p, o)' <=> Waits(p, o) BY <1>1, <1>2, <2>2 DEF Waits
    <2>4. ASSUME NEW n \in todo', m[1] = n[1] PROVE m[2] < n[2]
      <3>1. n \in todo /\ n # m /\ m \in DOMAIN batch /\ n \in DOMAIN batch BY <2>1 DEF Inv, Known
      <3>2. m = <<m[1], m[2]>> /\ n = <<n[1], n[2]>> /\ arrival[m] \in Nat /\ arrival[n] \in Nat
        BY <3>1 DEF Arrived
      <3>3. m[2] # n[2] BY <2>4, <3>1, <3>2
      <3>4. m[2] \in 1 .. Len(log[m[1]]) /\ n[2] \in 1 .. Len(log[n[1]]) BY <3>1 DEF Arrived, Event
      <3>5. ~(n[2] < m[2])
        <4>1. n[2] < m[2] => arrival[n] < arrival[m] BY <2>4, <3>1 DEF Arrived
        <4> QED BY <2>1, <3>1, <3>2, <4>1
      <3>6. m[2] \in Int /\ n[2] \in Int BY <3>4
      <3> QED BY <3>3, <3>5, <3>6
    <2>5. Works(m)' = Works(m) BY <2>1 DEF Works, Item
    <2> QED BY <1>1, <2>1, <2>2, <2>3, <2>4, <2>5 DEF AtHand
  <1>4. CASE ApplyDelta
    <2>1. PICK m \in group :
            /\ group = {m} /\ work \in Works(m) /\ work # <<>> /\ pc = "handling"
            /\ Raise \/ (work' = Tail(work) /\ UNCHANGED <<policy, batch, arrival, todo, group, pc, applied>>)
      BY <1>4, DeltaApplies
    <2>2. CASE Raise
      <3>1. Hand' = {} /\ group' = {} /\ work' = <<>> BY <2>2 DEF Raise, Forget, Hand
      <3> QED BY <3>1 DEF AtHand
    <2>3. CASE work' = Tail(work) /\ UNCHANGED <<policy, batch, arrival, todo, group, pc, applied>>
      <3>1. Hand' = Hand BY <2>3 DEF Hand
      <3>2. \A p, o : Waits(p, o)' <=> Waits(p, o) BY <1>1, <1>2, <3>1 DEF Waits
      <3>3. work' \in Works(m) BY <2>1, <2>3, WorkShrinks
      <3>4. Works(m)' = Works(m) BY <2>3 DEF Works, Item
      <3> QED BY <1>1, <2>1, <2>3, <3>1, <3>2, <3>3, <3>4 DEF AtHand
    <2> QED BY <2>1, <2>2, <2>3
  <1>5. CASE FinishGroup
    <2>1. /\ group # {} /\ work = <<>> /\ group' = {} /\ UNCHANGED <<todo, work>> /\ pc = "handling"
          /\ pc' = IF todo = {} THEN "handled" ELSE "handling"
      BY <1>5 DEF FinishGroup
    <2>2. PICK m \in group : group = {m} /\ \A n \in todo : m[1] = n[1] => m[2] < n[2] BY <2>1 DEF AtHand
    <2>3. Hand' = todo BY <2>1 DEF Hand
    <2>4. ASSUME NEW p, NEW o, <<p, o>> \in todo PROVE Waits(p, o)'
      <3>1. Waits(p, o) BY <2>4 DEF AtHand, Hand
      <3>2. ASSUME NEW q \in o .. position[p], Event(p, q) PROVE <<p, q>> \in todo
        <4>1. <<p, q>> \in Hand BY <3>1, <3>2 DEF Waits
        <4>2. CASE <<p, q>> = m
          <5>1. m[1] = p /\ m[2] = q BY <4>2
          <5>2. q < o BY <2>2, <2>4, <5>1
          <5>3. <<p, o>> \in DOMAIN batch BY <2>4 DEF Inv, Known
          <5>4. o \in 1 .. Len(log[p]) BY <5>3 DEF Arrived, Event
          <5> QED BY <3>2, <5>2, <5>4
        <4> QED BY <2>2, <4>1, <4>2 DEF Hand
      <3> QED BY <1>1, <1>2, <2>3, <3>1, <3>2 DEF Waits
    <2>5. pc' # "handling" => Hand' = {} BY <2>1, <2>3
    <2> QED BY <1>1, <2>1, <2>3, <2>4, <2>5 DEF AtHand
  <1> QED BY <1>3, <1>4, <1>5 DEF Handle, HandlerStep

(* A new batch is all the events from the old position to the new one.     *)
LEMMA Consumed ==
  ASSUME Inv, AtHand, Consume
  PROVE  \E events :
           /\ Hand = {} /\ todo' = events /\ group' = {} /\ group = {} /\ work' = <<>> /\ process = "running"
           /\ events # {} => pc' = "handling"
           /\ UNCHANGED <<log, committed, process, policy, store, failed, rows>>
           /\ \A p \in Partitions : /\ position'[p] \in position[p] .. Len(log[p])
                                    /\ \A o \in (position[p] + 1) .. position'[p] : Event(p, o) => <<p, o>> \in events
           /\ \A p, o : <<p, o>> \in events => p \in Partitions /\ o \in (position[p] + 1) .. position'[p]
  <1>1. PICK upto \in Batches : ConsumeUpTo(upto) /\ UNCHANGED committed BY DEF Consume
  <1> DEFINE events == Parsed(Fetched(upto))
  <1>2. process = "running" /\ pc = "idle" /\ position' = upto /\ UNCHANGED <<log, process, rows>>
    BY <1>1 DEF Consume, Waiting, ConsumeUpTo, sourceVars
  <1>3. Hand = {} /\ group = {} /\ todo = {} /\ work = <<>> BY <1>2 DEF AtHand, Hand
  <1>4. \A p \in Partitions : /\ upto[p] \in Nat /\ position[p] <= upto[p] /\ upto[p] <= Len(log[p])
                              /\ position[p] \in Nat /\ Len(log[p]) \in Nat
    BY <1>1, BoundsAssumption DEF Batches, Inv, Shape, Offset
  <1>5. \A p \in Partitions : \A o \in (position[p] + 1) .. upto[p] : Event(p, o) => <<p, o>> \in events
    BY DEF Parsed, Fetched, Event
  <1>6. ASSUME NEW p, NEW o, <<p, o>> \in events PROVE p \in Partitions /\ o \in (position[p] + 1) .. upto[p]
    <2>1. PICK q \in Partitions : \E r \in (position[q] + 1) .. upto[q] : <<p, o>> = <<q, r>>
      BY <1>6 DEF Parsed, Fetched
    <2>2. PICK r \in (position[q] + 1) .. upto[q] : <<p, o>> = <<q, r>> BY <2>1
    <2>3. p = q /\ o = r BY <2>2
    <2> QED BY <2>3
  <1> HIDE DEF events
  <1>7. /\ todo' = events /\ group' = {} /\ work' = <<>>
        /\ events # {} => pc' = "handling"
        /\ UNCHANGED <<policy, store, failed>>
    <2>1. CASE events = {} BY <1>1, <1>3, <2>1 DEF ConsumeUpTo, handlerVars, events
    <2>2. CASE events # {}
      <3>1. \E order \in Arrivals(events) : BeginBatch([m \in events |-> log[m[1]][m[2]]], order)
        BY <1>1, <2>2 DEF ConsumeUpTo, events
      <3> QED BY <1>3, <3>1 DEF BeginBatch
    <2> QED BY <2>1, <2>2
  <1>8. \A p \in Partitions : position'[p] \in position[p] .. Len(log[p]) BY <1>2, <1>4
  <1> QED BY <1>1, <1>2, <1>3, <1>5, <1>6, <1>7, <1>8

(* A batch is all there is between two positions.                          *)
LEMMA AtHandConsume ==
  ASSUME Inv, AtHand, Consume
  PROVE  AtHand'
  <1>1. PICK events :
           /\ Hand = {} /\ todo' = events /\ group' = {} /\ group = {} /\ work' = <<>> /\ process = "running"
           /\ events # {} => pc' = "handling"
           /\ UNCHANGED <<log, committed, process, policy, store, failed, rows>>
           /\ \A p \in Partitions : /\ position'[p] \in position[p] .. Len(log[p])
                                    /\ \A o \in (position[p] + 1) .. position'[p] : Event(p, o) => <<p, o>> \in events
           /\ \A p, o : <<p, o>> \in events => p \in Partitions /\ o \in (position[p] + 1) .. position'[p]
    BY Consumed
  <1>2. Hand' = events BY <1>1 DEF Hand
  <1>3. \A p, o : Event(p, o)' <=> Event(p, o) BY <1>1 DEF Event
  <1>4. ASSUME NEW p, NEW o, <<p, o>> \in events PROVE Waits(p, o)'
    <2>1. p \in Partitions /\ o \in (position[p] + 1) .. position'[p] BY <1>1, <1>4
    <2>2. committed[p] <= position[p] /\ committed[p] \in Nat /\ position[p] \in Nat BY <2>1 DEF Inv, Shape, Offset
    <2>3. position'[p] \in position[p] .. Len(log[p]) BY <1>1, <2>1
    <2>4. committed[p] < o /\ o <= position'[p] BY <2>1, <2>2, <2>3
    <2>5. \A q \in o .. position'[p] : q \in (position[p] + 1) .. position'[p] BY <2>1, <2>2, <2>3
    <2> QED BY <1>1, <1>2, <1>3, <2>1, <2>4, <2>5 DEF Waits
  <1>5. process' # "down" /\ (pc' # "handling" => events = {}) BY <1>1
  <1> QED BY <1>1, <1>2, <1>4, <1>5 DEF AtHand

(* Every step keeps what is in hand in order.                              *)
LEMMA AtHandNext ==
  ASSUME Inv, Named, Arrived, Told(rows, log), BadVals = {}, AtHand, [Next]_vars
  PROVE  AtHand'
  <1>1. CASE Produce
    <2>1. UNCHANGED <<committed, position, process, pc, todo, group, work, batch>> BY <1>1 DEF Produce, handlerVars
    <2>2. \A p \in Partitions : Extends(p) BY <1>1, ProduceExtends DEF Inv
    <2>3. ASSUME NEW p, NEW o, <<p, o>> \in Hand PROVE Waits(p, o)'
      <3>1. Waits(p, o) BY <2>3 DEF AtHand
      <3>2. <<p, o>> \in DOMAIN batch BY <2>3 DEF Hand, Inv, Known
      <3>3. p \in Partitions /\ o \in 1 .. Len(log[p]) BY <3>2 DEF Arrived, Event
      <3>4. Offset(p) BY <3>3 DEF Inv, Shape
      <3>5. \A q \in o .. position[p] : q \in 1 .. Len(log[p]) /\ log'[p][q] = log[p][q]
        BY <2>2, <3>3, <3>4 DEF Offset, Extends
      <3> QED BY <2>1, <3>1, <3>3, <3>5 DEF Waits, Event, Hand
    <2>4. \A m : Works(m)' = Works(m) BY <2>1 DEF Works, Item
    <2> QED BY <2>1, <2>3, <2>4 DEF AtHand, Hand
  <1>2. CASE Consume BY <1>2, AtHandConsume
  <1>3. CASE Handle BY <1>3, AtHandHandle
  <1>4. CASE Commit \/ CatchError \/ Crash
    <2>1. Hand' = {} /\ group' = {} /\ work' = <<>>
      BY <1>4 DEF Commit, CatchError, Crash, DropBatch, Forget, Hand
    <2> QED BY <2>1 DEF AtHand
  <1>5. CASE Exit \/ Start
    <2>1. Hand = {} /\ group = {} /\ work = <<>> BY <1>5 DEF Exit, Start, StartAt, AtHand, Hand
    <2>2. UNCHANGED <<todo, group, work>> BY <1>5 DEF Exit, Start, StartAt, handlerVars
    <2>3. Hand' = {} /\ group' = {} /\ work' = <<>> BY <2>1, <2>2 DEF Hand
    <2> QED BY <2>3 DEF AtHand
  <1>6. CASE StopSignal \/ UNCHANGED vars
    <2>1. UNCHANGED <<log, committed, position, pc, todo, group, work, batch>> /\ (process' = "down" => process = "down")
      BY <1>6 DEF StopSignal, vars, handlerVars, kafkaVars
    <2>2. \A p, o : Waits(p, o)' <=> Waits(p, o) BY <2>1 DEF Waits, Event, Hand
    <2>3. \A m : Works(m)' = Works(m) BY <2>1 DEF Works, Item
    <2> QED BY <2>1, <2>2, <2>3 DEF AtHand, Hand
  <1> QED BY <1>1, <1>2, <1>3, <1>4, <1>5, <1>6 DEF Next, Run

(***************************************************************************)
(* What the target shows                                                   *)
(***************************************************************************)

(* Up to where the consumer has read; what it has read of a document and   *)
(* not applied yet; and the place o of the log whose row a document shows. *)
Reached(p) == IF process = "down" THEN committed[p] ELSE position[p]
Pending(p, o, id) == <<p, o>> \in todo \/ (<<p, o>> \in group /\ id \in IdsIn(work))
Touches(p, o, id) == Event(p, o) /\ id \in IdsOfRow(RowOf(log[p][o]))
UpTo(p, o, id) == \A j \in (o + 1) .. Reached(p) : Touches(p, j, id) => Pending(p, j, id)
ShowsAt(k, id, o, row) ==
  /\ UpTo(PartitionOf[k], o, id)
  /\ Stood(log[PartitionOf[k]], k, Tombstone, o, row)
  /\ SameBody(store[id], View(row, id))

Faithful ==
  policy # "fail" /\ failed = {} =>
    /\ \A k \in Keys : \A id \in IdsOf(k) :
         \E o \in 0 .. Len(log[PartitionOf[k]]) : \E row \in RowsOf(k) : ShowsAt(k, id, o, row)
    /\ \A id \in DocIds \ (Nodes \cup Edges) : store[id] = NoDoc

(* Every id of a key is an id of the target.                               *)
LEMMA Inside == ASSUME NEW k \in Keys, NEW id \in IdsOf(k) PROVE id \in DocIds /\ id \in Nodes \cup Edges
  BY TargetAssumption DEF IdsOf, Nodes, Edges

(* A row touches ids of its own key only.                                  *)
LEMMA IdOfRow ==
  ASSUME NEW k \in Keys, NEW row \in RowsOf(k) \ {NoRow}, NEW id \in IdsOfRow(row)
  PROVE  id \in IdsOf(k) /\ \A h \in Keys : id \in IdsOf(h) => h = k
  <1>1. row \in Rows /\ row.key = k /\ row.fk \in Refs \cup {NoRef} BY DEF RowsOf, Rows
  <1>2. id = Node(k) \/ (row.fk \in Refs /\ id = Edge(k, row.fk)) BY <1>1 DEF IdsOfRow
  <1> QED BY <1>2, IdsDiffer DEF IdsOf

(* At first the target is the image of the table.                          *)
LEMMA FaithfulInit == Init => Faithful
  <1> SUFFICES ASSUME Init PROVE Faithful OBVIOUS
  <1>1. store = Image(InitRows) /\ log = [p \in Partitions |-> <<>>] /\ rows = InitRows /\ process = "running"
        /\ \A p \in Partitions : position[p] = 0
    BY DEF Init, SourceInit
  <1>2. InitRows \in Tables BY TableAssumption DEF Tables
  <1>3. ASSUME NEW k \in Keys, NEW id \in IdsOf(k)
        PROVE  \E o \in 0 .. Len(log[PartitionOf[k]]) : \E row \in RowsOf(k) : ShowsAt(k, id, o, row)
    <2>1. PICK p \in Partitions : p = PartitionOf[k] BY TopicAssumption
    <2>2. Len(log[p]) = 0 /\ Reached(p) = 0 BY <1>1, <2>1 DEF Reached
    <2>3. Stood(log[p], k, Tombstone, 0, InitRows[k]) BY DEF Stood
    <2>4. InitRows[k] \in RowsOf(k) BY <1>2, RowOfTable
    <2>5. store[id] = View(InitRows[k], id) BY <1>1, <1>2, ImageIsView
    <2>6. SameBody(store[id], View(InitRows[k], id)) BY <2>5 DEF SameBody
    <2>7. UpTo(p, 0, id) BY <2>2 DEF UpTo
    <2> QED BY <2>1, <2>2, <2>3, <2>4, <2>6, <2>7 DEF ShowsAt
  <1>4. \A id \in DocIds \ (Nodes \cup Edges) : store[id] = NoDoc BY <1>1, <1>2, ImageIsView
  <1> QED BY <1>3, <1>4 DEF Faithful

(* A step that applies nothing.                                            *)
LEMMA FaithfulKept ==
  ASSUME Faithful, UNCHANGED <<policy, store, failed>>,
         \A p \in Partitions : Prefix(log[p], log'[p]) /\ Reached(p)' \in Nat,
         \A p \in Partitions : \A j \in 1 .. Reached(p)' : \A id :
           Touches(p, j, id)' => Pending(p, j, id)' \/ (j \in 1 .. Reached(p) /\ Touches(p, j, id) /\ ~Pending(p, j, id))
  PROVE  Faithful'
  <1> SUFFICES ASSUME policy # "fail", failed = {} PROVE Faithful' BY DEF Faithful
  <1>1. ASSUME NEW k \in Keys, NEW id \in IdsOf(k)
        PROVE  \E o \in 0 .. Len(log'[PartitionOf[k]]) : \E row \in RowsOf(k) : ShowsAt(k, id, o, row)'
    <2>1. PICK p \in Partitions : p = PartitionOf[k] BY TopicAssumption
    <2>2. PICK o \in 0 .. Len(log[p]), row \in RowsOf(k) : ShowsAt(k, id, o, row) BY <2>1 DEF Faithful
    <2>3. Prefix(log[p], log'[p]) BY <2>1
    <2>4. o \in 0 .. Len(log'[p]) /\ o \in Nat BY <2>3 DEF Prefix
    <2>5. Stood(log'[p], k, Tombstone, o, row) BY <2>1, <2>2, <2>3, StoodBefore DEF ShowsAt
    <2>6. UpTo(p, o, id) BY <2>1, <2>2 DEF ShowsAt
    <2>7. ASSUME NEW j \in (o + 1) .. Reached(p)', Touches(p, j, id)' PROVE Pending(p, j, id)'
      <3>1. j \in 1 .. Reached(p)' BY <2>1, <2>4
      <3>2. CASE j \in 1 .. Reached(p) /\ Touches(p, j, id) /\ ~Pending(p, j, id)
        <4>1. j \in (o + 1) .. Reached(p) BY <2>1, <2>4, <3>2
        <4> QED BY <2>6, <3>2, <4>1 DEF UpTo
      <3> QED BY <2>1, <2>7, <3>1, <3>2
    <2>8. UpTo(p, o, id)' BY <2>7 DEF UpTo
    <2>9. SameBody(store'[id], View(row, id)) BY <2>2 DEF ShowsAt
    <2>10. ShowsAt(k, id, o, row)' BY <2>1, <2>5, <2>8, <2>9 DEF ShowsAt
    <2> QED BY <2>1, <2>4, <2>10
  <1> QED BY <1>1 DEF Faithful

(* Taking a message makes its deltas pending.                              *)
LEMMA FaithfulStart ==
  ASSUME Inv, Named, Arrived, Told(rows, log), BadVals = {}, AtHand, Faithful, Handle, StartGroup
  PROVE  Faithful'
  <1>1. PICK m \in todo :
          /\ group' = {m} /\ todo' = todo \ {m} /\ group = {}
          /\ UNCHANGED <<policy, store, failed>>
          /\ IdsIn(work') = IdsOfRow(RowOf(batch[m]))
    BY GroupStarts
  <1>2. UNCHANGED <<log, committed, position, process>> BY DEF Handle, kafkaVars
  <1>3. m = <<m[1], m[2]>> /\ batch[m] = log[m[1]][m[2]] BY DEF Inv, Known, Arrived
  <1>4. ASSUME NEW p, NEW j, NEW id, Touches(p, j, id), Pending(p, j, id) PROVE Pending(p, j, id)'
    <2>1. <<p, j>> \in todo BY <1>1, <1>4 DEF Pending
    <2>2. CASE <<p, j>> = m
      <3>1. p = m[1] /\ j = m[2] BY <2>2
      <3>2. id \in IdsIn(work') BY <1>1, <1>3, <1>4, <3>1 DEF Touches
      <3> QED BY <1>1, <2>2, <3>2 DEF Pending
    <2> QED BY <1>1, <2>1, <2>2 DEF Pending
  <1>5. \A p, j, id : Touches(p, j, id)' <=> Touches(p, j, id) BY <1>2 DEF Touches, Event
  <1>6. \A p \in Partitions : Reached(p)' = Reached(p) /\ Reached(p) \in Nat /\ Prefix(log[p], log'[p])
    BY <1>2 DEF Reached, Inv, Shape, Offset, Prefix
  <1>7. \A p \in Partitions : \A j \in 1 .. Reached(p)' : \A id :
           Touches(p, j, id)' => Pending(p, j, id)' \/ (j \in 1 .. Reached(p) /\ Touches(p, j, id) /\ ~Pending(p, j, id))
    BY <1>4, <1>5, <1>6
  <1>8. UNCHANGED <<policy, store, failed>> BY <1>1
  <1> QED BY <1>6, <1>7, <1>8, FaithfulKept

(* A message with no deltas left owes nothing.                             *)
LEMMA FaithfulFinish ==
  ASSUME Inv, Faithful, Handle, FinishGroup
  PROVE  Faithful'
  <1>1. UNCHANGED <<log, committed, position, process, policy, store, failed, todo, work>> /\ work = <<>>
    BY DEF Handle, kafkaVars, FinishGroup
  <1>2. IdsIn(work) = {} BY <1>1 DEF IdsIn
  <1>3. \A p, j, id : Pending(p, j, id) => Pending(p, j, id)' BY <1>1, <1>2 DEF Pending
  <1>4. \A p, j, id : Touches(p, j, id)' <=> Touches(p, j, id) BY <1>1 DEF Touches, Event
  <1>5. \A p \in Partitions : Reached(p)' = Reached(p) /\ Reached(p) \in Nat /\ Prefix(log[p], log'[p])
    BY <1>1 DEF Reached, Inv, Shape, Offset, Prefix
  <1>6. \A p \in Partitions : \A j \in 1 .. Reached(p)' : \A id :
           Touches(p, j, id)' => Pending(p, j, id)' \/ (j \in 1 .. Reached(p) /\ Touches(p, j, id) /\ ~Pending(p, j, id))
    BY <1>3, <1>4, <1>5
  <1> QED BY <1>1, <1>5, <1>6, FaithfulKept

(* New messages are pending.                                               *)
LEMMA FaithfulConsume ==
  ASSUME Inv, AtHand, Faithful, Consume
  PROVE  Faithful'
  <1>1. PICK events :
           /\ Hand = {} /\ todo' = events /\ group' = {} /\ group = {} /\ work' = <<>> /\ process = "running"
           /\ events # {} => pc' = "handling"
           /\ UNCHANGED <<log, committed, process, policy, store, failed, rows>>
           /\ \A p \in Partitions : /\ position'[p] \in position[p] .. Len(log[p])
                                    /\ \A o \in (position[p] + 1) .. position'[p] : Event(p, o) => <<p, o>> \in events
           /\ \A p, o : <<p, o>> \in events => p \in Partitions /\ o \in (position[p] + 1) .. position'[p]
    BY Consumed
  <1>2. \A p, j, id : ~Pending(p, j, id) BY <1>1 DEF Pending, Hand
  <1>3. \A p, j, id : (Touches(p, j, id)' <=> Touches(p, j, id)) /\ (Touches(p, j, id) => Event(p, j))
    BY <1>1 DEF Touches, Event
  <1>4. \A p \in Partitions : /\ Reached(p)' = position'[p] /\ Reached(p) = position[p]
                              /\ position[p] \in Nat /\ Len(log[p]) \in Nat
    BY <1>1 DEF Reached, Inv, Shape, Offset
  <1>5. \A p \in Partitions : Reached(p)' \in Nat BY <1>1, <1>4
  <1>6. \A p \in Partitions : Prefix(log[p], log'[p]) BY <1>1, <1>4 DEF Prefix
  <1>7. ASSUME NEW p \in Partitions, NEW j \in 1 .. Reached(p)', NEW id, Touches(p, j, id)'
        PROVE  Pending(p, j, id)' \/ (j \in 1 .. Reached(p) /\ Touches(p, j, id) /\ ~Pending(p, j, id))
    <2>1. j \in 1 .. position[p] \/ j \in (position[p] + 1) .. position'[p] BY <1>4, <1>5
    <2>2. CASE j \in 1 .. position[p] BY <1>2, <1>3, <1>4, <1>7, <2>2
    <2>3. CASE j \in (position[p] + 1) .. position'[p] BY <1>1, <1>3, <1>7, <2>3 DEF Pending
    <2> QED BY <2>1, <2>2, <2>3
  <1> QED BY <1>1, <1>5, <1>6, <1>7, FaithfulKept

(* Messages the consumer has not reached owe nothing yet.                  *)
LEMMA FaithfulProduce ==
  ASSUME Inv, Faithful, Produce
  PROVE  Faithful'
  <1>1. UNCHANGED <<committed, position, process, policy, store, failed, todo, group, work>> BY DEF Produce, handlerVars
  <1>2. \A p \in Partitions : Extends(p) BY ProduceExtends DEF Inv
  <1>3. \A p \in Partitions : Reached(p)' = Reached(p) /\ Reached(p) \in 0 .. Len(log[p]) /\ Len(log[p]) \in Nat
    BY <1>1 DEF Reached, Inv, Shape, Offset
  <1>4. \A p \in Partitions : Prefix(log[p], log'[p]) BY <1>2, <1>3 DEF Prefix, Extends
  <1>5. \A p, j, id : Pending(p, j, id) => Pending(p, j, id)' BY <1>1 DEF Pending
  <1>6. ASSUME NEW p \in Partitions, NEW j \in 1 .. Reached(p)', NEW id, Touches(p, j, id)'
        PROVE  Pending(p, j, id)' \/ (j \in 1 .. Reached(p) /\ Touches(p, j, id) /\ ~Pending(p, j, id))
    <2>1. j \in 1 .. Reached(p) /\ j \in 1 .. Len(log[p]) BY <1>3
    <2>2. log'[p][j] = log[p][j] BY <1>2, <2>1 DEF Extends
    <2>3. Touches(p, j, id) BY <1>6, <2>1, <2>2 DEF Touches, Event
    <2> QED BY <1>5, <2>1, <2>3
  <1>7. \A p \in Partitions : Reached(p)' \in Nat BY <1>3
  <1> QED BY <1>1, <1>4, <1>6, <1>7, FaithfulKept

(* A step that drops what is in hand, or moves the process.                *)
LEMMA FaithfulDropped ==
  ASSUME Inv, Inv', AtHand, Faithful, Commit \/ CatchError \/ StopSignal \/ Exit \/ Crash \/ Start \/ UNCHANGED vars
  PROVE  Faithful'
  <1>1. UNCHANGED <<log, policy, store, failed>>
    BY DEF Commit, CatchError, StopSignal, Exit, Crash, Start, StartAt, DropBatch, vars, handlerVars, kafkaVars
  <1>2. \A p, j, id : Touches(p, j, id)' <=> Touches(p, j, id) BY <1>1 DEF Touches, Event
  <1>3. \A p \in Partitions : /\ committed[p] \in Nat /\ position[p] \in Nat /\ committed'[p] \in Nat /\ position'[p] \in Nat
                              /\ committed[p] <= position[p] /\ Len(log[p]) \in Nat
    BY DEF Inv, Shape, Offset
  <1>4. \A p \in Partitions : Prefix(log[p], log'[p]) /\ Reached(p)' \in Nat BY <1>1, <1>3 DEF Prefix, Reached
  <1>5. \A p \in Partitions : Reached(p)' <= Reached(p)
    <2>1. CASE Commit \/ StopSignal
      <3>1. process # "down" /\ process' # "down" /\ position' = position BY <2>1 DEF Commit, StopSignal
      <3>2. \A p \in Partitions : Reached(p)' = position[p] /\ Reached(p) = position[p] BY <3>1 DEF Reached
      <3> QED BY <1>3, <3>2
    <2>2. CASE CatchError \/ Exit \/ Crash
      <3>1. process # "down" /\ position' = position /\ committed' = committed
        BY <2>2 DEF CatchError, Exit, Crash
      <3>2. \A p \in Partitions : Reached(p) = position[p] /\ Reached(p)' \in {position[p], committed[p]}
        BY <3>1 DEF Reached
      <3> QED BY <1>3, <3>2
    <2>3. CASE Start \/ UNCHANGED vars
      <3>1. \A p \in Partitions : Reached(p)' = Reached(p) BY <2>3 DEF Start, StartAt, vars, kafkaVars, Reached
      <3> QED BY <1>4, <3>1
    <2> QED BY <2>1, <2>2, <2>3
  <1>6. ASSUME NEW p \in Partitions, NEW j \in 1 .. Reached(p)', NEW id, Pending(p, j, id)
        PROVE  Pending(p, j, id)'
    <2>1. <<p, j>> \in Hand BY <1>6 DEF Pending, Hand
    <2>2. pc = "handling" /\ process # "down" /\ committed[p] < j BY <2>1 DEF AtHand, Waits
    <2>3. ~Commit /\ ~CatchError /\ ~Exit /\ ~Start BY <2>2 DEF Commit, CatchError, Exit, Start, StartAt
    <2>4. ~Crash
      <3>1. Crash => Reached(p)' = committed[p] BY DEF Crash, Reached
      <3> QED BY <1>3, <2>2, <3>1
    <2>5. UNCHANGED <<todo, group, work>> BY <2>3, <2>4 DEF StopSignal, vars, handlerVars
    <2> QED BY <1>6, <2>5 DEF Pending
  <1>7. \A p \in Partitions : \A j \in 1 .. Reached(p)' : j \in 1 .. Reached(p) BY <1>3, <1>4, <1>5 DEF Reached
  <1>8. \A p \in Partitions : \A j \in 1 .. Reached(p)' : \A id :
           Touches(p, j, id)' => Pending(p, j, id)' \/ (j \in 1 .. Reached(p) /\ Touches(p, j, id) /\ ~Pending(p, j, id))
    BY <1>2, <1>6, <1>7
  <1> QED BY <1>1, <1>4, <1>8, FaithfulKept

(* The document the current delta is about.                                *)
LEMMA ShowsAfter ==
  ASSUME Inv, Arrived, Told(rows, log), AtHand, NEW m \in group, pc = "handling", process # "down",
         NEW id \in IdsOfRow(RowOf(batch[m])), NEW k \in Keys, id \in IdsOf(k), id \in IdsIn(work),
         NEW o \in 0 .. Len(log[PartitionOf[k]]), NEW row \in RowsOf(k), ShowsAt(k, id, o, row),
         UNCHANGED <<log, committed, position, process, todo, group, batch>>,
         IdsIn(work') = IdsIn(work) \ {id},
         \/ SameBody(store'[id], View(batch[m].new, id))
         \/ batch[m].op = "INSERT" /\ store'[id] = store[id] /\ store[id] # NoDoc
         \/ batch[m].op = "UPDATE" /\ store'[id] = store[id] /\ store[id] = NoDoc
  PROVE  \E r \in 0 .. Len(log[PartitionOf[k]]) : \E s \in RowsOf(k) : ShowsAt(k, id, r, s)'
  <1>0. m \in DOMAIN batch BY DEF Inv, Known
  <1>1. /\ m = <<m[1], m[2]>> /\ Event(m[1], m[2]) /\ batch[m] = log[m[1]][m[2]]
        /\ \E h \in Keys : PartitionOf[h] = m[1] /\ Proper(batch[m], h)
    BY <1>0, ProperBatch
  <1>2. PartitionOf[k] = m[1] /\ Proper(batch[m], k) BY <1>1, IdOfRow DEF Proper
  <1>3. PICK p \in Partitions : p = m[1] /\ PartitionOf[k] = p BY <1>2, TopicAssumption
  <1>4. PICK i \in 1 .. Len(log[p]) : i = m[2] BY <1>1, <1>3 DEF Event
  <1>5. PICK e : e = log[p][i] /\ e = batch[m] /\ m = <<p, i>> BY <1>1, <1>3, <1>4
  <1>6. Len(log[p]) \in Nat /\ position[p] \in Nat /\ position[p] <= Len(log[p]) /\ Reached(p) = position[p]
        /\ i \in Nat /\ o \in Nat /\ o \in 0 .. Len(log[p])
    BY <1>3, <1>4 DEF Inv, Shape, Offset, Reached
  <1>7. m \in Hand /\ group = {m} /\ (\A n \in todo : m[1] = n[1] => m[2] < n[2]) BY DEF AtHand, Hand
  <1>8. Waits(p, i) BY <1>5, <1>7 DEF AtHand
  <1>9. Tells(log[p], k, Tombstone) BY <1>3 DEF Told
  <1>10. RowOf(e) \in RowsOf(k) \ {NoRow} /\ About(log[p], i, k, Tombstone)
    <2>1. RowOf(e) \in RowsOf(k) \ {NoRow} BY <1>2, <1>5 DEF Proper
    <2>2. RowOf(e).key = k BY <2>1 DEF RowsOf
    <2>3. log[p][i] # Tombstone BY <1>1, <1>3, <1>4 DEF Event
    <2> QED BY <1>5, <2>1, <2>2, <2>3 DEF About
  <1>11. \A q, j : Touches(q, j, id)' <=> Touches(q, j, id) BY DEF Touches, Event
  <1>12. Reached(p)' = Reached(p) BY DEF Reached
  <1>13. \A j : Pending(p, j, id) /\ j # i => <<p, j>> \in todo /\ Pending(p, j, id)' /\ i < j
    <2> SUFFICES ASSUME NEW j, Pending(p, j, id), j # i PROVE <<p, j>> \in todo /\ Pending(p, j, id)' /\ i < j OBVIOUS
    <2>1. <<p, j>> # m BY <1>5
    <2>2. <<p, j>> \in todo BY <1>7, <2>1 DEF Pending
    <2>3. m[1] = p /\ m[2] = i /\ <<p, j>>[1] = p /\ <<p, j>>[2] = j BY <1>5
    <2> QED BY <1>7, <2>2, <2>3 DEF Pending
  <1>14. PICK q \in RowsOf(k) : Stood(log[p], k, Tombstone, i - 1, q) /\ Legal(q, e)
    <2>1. i - 1 \in 0 .. Len(log[p]) /\ i - 1 < Len(log[p]) /\ (i - 1) + 1 = i BY <1>6
    <2>2. PICK q \in RowsOf(k) : /\ Stood(log[p], k, Tombstone, i - 1, q)
                                 /\ i - 1 < Len(log[p]) /\ About(log[p], (i - 1) + 1, k, Tombstone) => Legal(q, log[p][(i - 1) + 1])
      BY <1>9, <2>1 DEF Tells
    <2> QED BY <1>5, <1>10, <2>1, <2>2
  <1>15. CASE SameBody(store'[id], View(e.new, id))
    <2>1. PICK s \in RowsOf(k) : Stood(log[p], k, Tombstone, i, s) BY <1>6, <1>9 DEF Tells
    <2>2. s = e.new
      <3>1. PICK l : l = log[p] OBVIOUS
      <3>2. /\ Len(l) \in Nat /\ Tells(l, k, Tombstone) /\ i \in 1 .. Len(l)
            /\ Stood(l, k, Tombstone, i - 1, q) /\ Stood(l, k, Tombstone, i, s) /\ About(l, i, k, Tombstone)
        BY <1>6, <1>9, <1>10, <1>14, <2>1, <3>1
      <3>3. s = l[i].new BY <3>2, ToldNext
      <3> QED BY <1>5, <3>1, <3>3
    <2>3. ASSUME NEW j \in (i + 1) .. Reached(p), Touches(p, j, id) PROVE Pending(p, j, id)'
      <3>1. j \in i .. position[p] /\ j # i BY <1>6
      <3>2. <<p, j>> \in Hand BY <1>8, <2>3, <3>1 DEF Waits, Touches
      <3>3. <<p, j>> # m BY <1>5, <3>1
      <3>4. <<p, j>> \in todo BY <1>7, <3>2, <3>3 DEF Hand
      <3> QED BY <3>4 DEF Pending
    <2>4. UpTo(p, i, id)' BY <1>11, <1>12, <2>3 DEF UpTo
    <2>5. ShowsAt(k, id, i, s)' BY <1>3, <1>15, <2>1, <2>2, <2>4 DEF ShowsAt
    <2>6. i \in 0 .. Len(log[PartitionOf[k]]) BY <1>3, <1>6
    <2> QED BY <2>5, <2>6
  <1>16. CASE ~SameBody(store'[id], View(e.new, id))
    <2>1. UpTo(p, o, id) /\ Stood(log[p], k, Tombstone, o, row) /\ SameBody(store[id], View(row, id))
      BY <1>3 DEF ShowsAt
    <2>2. /\ store'[id] = store[id]
          /\ \/ e.op = "INSERT" /\ store[id] # NoDoc
             \/ e.op = "UPDATE" /\ store[id] = NoDoc
      BY <1>5, <1>16
    <2>3. ~(o < i)
      <3> SUFFICES ASSUME o < i PROVE FALSE OBVIOUS
      <3>1. i - 1 \in 0 .. Len(log[p]) /\ o <= i - 1 /\ i <= Reached(p) BY <1>6, <1>8 DEF Waits
      <3>2. ASSUME NEW j \in (o + 1) .. (i - 1), About(log[p], j, k, Tombstone)
            PROVE  id \notin IdsOfRow(RowOf(log[p][j]))
        <4>1. j \in (o + 1) .. Reached(p) /\ j # i /\ ~(i < j) /\ j \in 1 .. Len(log[p]) BY <1>6, <3>1
        <4>2. ~Pending(p, j, id) BY <1>13, <4>1
        <4>3. ~Touches(p, j, id) BY <2>1, <4>1, <4>2 DEF UpTo
        <4>4. Event(p, j) BY <3>2, <4>1 DEF Event, About
        <4> QED BY <4>3, <4>4 DEF Touches
      <3>3. View(row, id) = View(q, id)
        <4>1. PICK l : l = log[p] OBVIOUS
        <4>2. PICK n : n = i - 1 /\ n \in 0 .. Len(l) /\ o <= n BY <3>1, <4>1
        <4>3. /\ Len(l) \in Nat /\ o \in 0 .. Len(l) /\ Tells(l, k, Tombstone)
              /\ Stood(l, k, Tombstone, o, row) /\ Stood(l, k, Tombstone, n, q)
          BY <1>6, <1>9, <1>14, <2>1, <4>1, <4>2
        <4>4. \A j \in (o + 1) .. n : About(l, j, k, Tombstone) => id \notin IdsOfRow(RowOf(l[j]))
          BY <3>2, <4>1, <4>2
        <4> QED BY <4>2, <4>3, <4>4, StretchKept
      <3>4. CASE e.op = "INSERT"
        <4>1. q = NoRow BY <1>14, <3>4 DEF Legal
        <4>2. View(q, id) = NoDoc BY <4>1 DEF View
        <4> QED BY <2>1, <2>2, <3>3, <3>4, <4>2 DEF SameBody
      <3>5. CASE e.op = "UPDATE"
        <4>1. q # NoRow /\ e.new.fk = q.fk /\ RowOf(e) = e.new BY <1>14, <3>5 DEF Legal, RowOf
        <4>2. q \in Rows /\ q.key = k /\ e.new.key = k BY <1>10, <4>1 DEF RowsOf
        <4>3. id \in IdsOfRow(q) BY <1>5, <4>1, <4>2 DEF IdsOfRow
        <4>4. View(q, id) \in {Doc(q), Doc(NoRow)} BY <4>1, <4>3 DEF View
        <4>5. Doc(q) # NoDoc /\ Doc(NoRow) # NoDoc BY <4>2, TargetAssumption DEF Doc
        <4> QED BY <2>1, <2>2, <3>3, <3>5, <4>4, <4>5 DEF SameBody
      <3> QED BY <2>2, <3>4, <3>5
    <2>4. ASSUME NEW j \in (o + 1) .. Reached(p), Touches(p, j, id) PROVE Pending(p, j, id)'
      <3>1. j # i BY <1>6, <2>3
      <3> QED BY <1>13, <2>1, <2>4, <3>1 DEF UpTo
    <2>5. UpTo(p, o, id)' BY <1>11, <1>12, <2>4 DEF UpTo
    <2>6. ShowsAt(k, id, o, row)' BY <1>3, <2>1, <2>2, <2>5 DEF ShowsAt
    <2> QED BY <2>6
  <1> QED BY <1>15, <1>16

(* A delta moves its document on, and no other.                            *)
LEMMA FaithfulApply ==
  ASSUME Inv, Arrived, Told(rows, log), AtHand, Faithful, policy \in Policies, Handle, ApplyDelta
  PROVE  Faithful'
  <1> SUFFICES ASSUME (policy # "fail")', (failed = {})' PROVE Faithful' BY DEF Faithful
  <1>0. UNCHANGED <<log, committed, position, process>> /\ process # "down" BY DEF Handle, kafkaVars
  <1>1. PICK m \in group :
          /\ group = {m} /\ work \in Works(m) /\ work # <<>> /\ pc = "handling"
          /\ \E o \in Resolve(Head(work)) :
                /\ store' = o.store
                /\ failed' = IF o.verdict = "failed" THEN failed \cup {Head(work).msg} ELSE failed
                /\ IF o.verdict = "failed" /\ policy = "fail"
                     THEN Raise
                     ELSE work' = Tail(work) /\ UNCHANGED <<policy, batch, arrival, todo, group, pc, applied>>
    BY DeltaApplies
  <1>2. PICK o \in Resolve(Head(work)) :
           /\ store' = o.store
           /\ failed' = IF o.verdict = "failed" THEN failed \cup {Head(work).msg} ELSE failed
           /\ IF o.verdict = "failed" /\ policy = "fail"
                THEN Raise
                ELSE work' = Tail(work) /\ UNCHANGED <<policy, batch, arrival, todo, group, pc, applied>>
    BY <1>1
  <1>3. o.verdict # "failed" /\ failed = {} /\ work' = Tail(work)
        /\ UNCHANGED <<policy, batch, arrival, todo, group, pc, applied>>
    BY <1>2
  <1>4. policy \in GoesOn /\ policy # "fail" BY <1>3 DEF Policies, GoesOn
  <1>5. PICK d \in IdsOfRow(RowOf(batch[m])) :
          Head(work) = Item(m, d) /\ d \in IdsIn(work) /\ IdsIn(Tail(work)) = IdsIn(work) \ {d}
    BY <1>1, WorkShrinks
  <1>6. m \in DOMAIN batch BY DEF Inv, Known
  <1>7. PICK h \in Keys : PartitionOf[h] = m[1] /\ Proper(batch[m], h) BY <1>6, ProperBatch
  <1>8. /\ d \in IdsOf(h) /\ (\A k \in Keys : d \in IdsOf(k) => k = h)
        /\ RowOf(batch[m]) \in Rows
    BY <1>7, IdOfRow DEF Proper, RowsOf
  <1>9. d \in DocIds /\ d \in Nodes \cup Edges BY <1>8, Inside
  <1>10. /\ Elsewhere(store, o.store, d)
         /\ \/ SameBody(o.store[d], View(batch[m].new, d))
            \/ batch[m].op = "INSERT" /\ o.store[d] = store[d] /\ store[d] # NoDoc
            \/ batch[m].op = "UPDATE" /\ o.store[d] = store[d] /\ store[d] = NoDoc
    <2>1. o \in Resolve(Item(m, d)) BY <1>5
    <2> QED BY <1>3, <1>4, <1>7, <1>8, <1>9, <2>1, ResolvedItem DEF Proper
  <1>11. ASSUME NEW k \in Keys, NEW id \in IdsOf(k)
         PROVE  \E i \in 0 .. Len(log'[PartitionOf[k]]) : \E row \in RowsOf(k) : ShowsAt(k, id, i, row)'
    <2>1. PICK i \in 0 .. Len(log[PartitionOf[k]]), row \in RowsOf(k) : ShowsAt(k, id, i, row)
      BY <1>3, <1>4 DEF Faithful
    <2>2. CASE id = d
      <3>1. IdsIn(work') = IdsIn(work) \ {id} BY <1>3, <1>5, <2>2
      <3>2. \/ SameBody(store'[id], View(batch[m].new, id))
            \/ batch[m].op = "INSERT" /\ store'[id] = store[id] /\ store[id] # NoDoc
            \/ batch[m].op = "UPDATE" /\ store'[id] = store[id] /\ store[id] = NoDoc
        BY <1>2, <1>10, <2>2
      <3>3. id \in IdsOfRow(RowOf(batch[m])) /\ id \in IdsIn(work) BY <1>5, <2>2
      <3>4. \E r \in 0 .. Len(log[PartitionOf[k]]) : \E s \in RowsOf(k) : ShowsAt(k, id, r, s)'
        BY <1>0, <1>1, <1>3, <2>1, <3>1, <3>2, <3>3, ShowsAfter
      <3> QED BY <1>0, <3>4
    <2>3. CASE id # d
      <3>1. store'[id] = store[id] BY <1>2, <1>10, <2>3, Inside DEF Elsewhere
      <3>2. \A p, j : Pending(p, j, id) => Pending(p, j, id)' BY <1>3, <1>5, <2>3 DEF Pending
      <3>3. \A p, j : Touches(p, j, id)' <=> Touches(p, j, id) BY <1>0 DEF Touches, Event
      <3>4. \A p : Reached(p)' = Reached(p) BY <1>0 DEF Reached
      <3>5. UpTo(PartitionOf[k], i, id)' BY <2>1, <3>2, <3>3, <3>4 DEF ShowsAt, UpTo
      <3>6. ShowsAt(k, id, i, row)' BY <1>0, <2>1, <3>1, <3>5 DEF ShowsAt
      <3> QED BY <1>0, <3>6
    <2> QED BY <2>2, <2>3
  <1>12. \A id \in DocIds \ (Nodes \cup Edges) : store'[id] = NoDoc
    BY <1>2, <1>3, <1>4, <1>9, <1>10 DEF Faithful, Elsewhere
  <1> QED BY <1>11, <1>12 DEF Faithful

(***************************************************************************)
(* Caught up                                                               *)
(***************************************************************************)

(* With nothing pending and nothing unread the target shows the table.     *)
LEMMA CaughtUpShows ==
  ASSUME Inv, AtHand, Told(rows, log), Faithful
  PROVE  CaughtUpMeansMirror
  <1> SUFFICES ASSUME CaughtUp, failed = {}, policy # "fail" PROVE Mirror BY DEF CaughtUpMeansMirror
  <1>1. rows \in Tables BY DEF Told
  <1>2. Hand = {} BY DEF CaughtUp, Waiting, AtHand
  <1>3. ASSUME NEW k \in Keys, NEW id \in IdsOf(k) PROVE SameBody(store[id], Image(rows)[id])
    <2>1. PICK p \in Partitions : p = PartitionOf[k] BY TopicAssumption
    <2>2. PICK o \in 0 .. Len(log[p]), row \in RowsOf(k) : ShowsAt(k, id, o, row) BY <2>1 DEF Faithful
    <2>3. Len(log[p]) \in Nat /\ Reached(p) = Len(log[p]) BY DEF CaughtUp, Waiting, Reached, Inv, Shape, Offset
    <2>4. Tells(log[p], k, Tombstone) /\ Stood(log[p], k, Tombstone, Len(log[p]), rows[k]) BY <2>1 DEF Told
    <2>5. /\ UpTo(p, o, id) /\ Stood(log[p], k, Tombstone, o, row) /\ SameBody(store[id], View(row, id))
      BY <2>1, <2>2 DEF ShowsAt
    <2>6. ASSUME NEW j \in (o + 1) .. Len(log[p]), About(log[p], j, k, Tombstone)
          PROVE  id \notin IdsOfRow(RowOf(log[p][j]))
      <3>1. ~Pending(p, j, id) BY <1>2 DEF Pending, Hand
      <3>2. ~Touches(p, j, id) BY <2>3, <2>5, <2>6, <3>1 DEF UpTo
      <3>3. Event(p, j) BY <2>3, <2>6 DEF Event, About
      <3> QED BY <3>2, <3>3 DEF Touches
    <2>7. Len(log[p]) \in 0 .. Len(log[p]) /\ o <= Len(log[p]) BY <2>3
    <2>8. View(row, id) = View(rows[k], id) BY <2>3, <2>4, <2>5, <2>6, <2>7, StretchKept
    <2>9. View(rows[k], id) = Image(rows)[id] BY <1>1, ImageIsView
    <2> QED BY <2>5, <2>8, <2>9 DEF SameBody
  <1>4. ASSUME NEW id \in DocIds \ (Nodes \cup Edges) PROVE SameBody(store[id], Image(rows)[id])
    <2>1. store[id] = NoDoc /\ Image(rows)[id] = NoDoc BY <1>1, ImageIsView DEF Faithful
    <2> QED BY <2>1 DEF SameBody
  <1>5. \A id \in Nodes \cup Edges : \E k \in Keys : id \in IdsOf(k) BY DEF Nodes, Edges, IdsOf
  <1> QED BY <1>3, <1>4, <1>5 DEF Mirror

(* What every behaviour keeps: the log tells the history of the table, the *)
(* consumer holds a stretch of it in order, and each document is that of   *)
(* some earlier place of its partition, since when all that touches it is  *)
(* pending.                                                                *)
Shown == Named /\ Arrived /\ Told(rows, log) /\ AtHand /\ Faithful /\ policy \in Policies

(* It holds at first ...                                                   *)
LEMMA ShownInit == ASSUME Init PROVE Shown
  <1>1. policy \in Policies BY PoliciesAssumption DEF Init
  <1> QED BY <1>1, OrderInit, ToldInit, AtHandInit, FaithfulInit DEF Shown

(* ... and every step keeps it.                                            *)
LEMMA ShownStep ==
  ASSUME BadVals = {}, OnlyKinds, MaxRowsPerTxn = 1 \/ ~HasTids, Inv, Inv', Shown, [Next]_vars
  PROVE  Shown'
  <1> USE DEF Shown
  <1>1. Named' /\ Arrived' BY OrderNext
  <1>2. AtHand' BY AtHandNext
  <1>3. CASE Produce
    <2>1. Told(rows', log') BY <1>3, ToldProduce DEF Named
    <2>2. Faithful' BY <1>3, FaithfulProduce
    <2>3. policy' = policy BY <1>3 DEF Produce, handlerVars
    <2> QED BY <1>1, <1>2, <2>1, <2>2, <2>3
  <1>4. CASE ~Produce
    <2>1. UNCHANGED <<rows, log>>
      BY <1>4 DEF Next, Run, Consume, ConsumeUpTo, Handle, Commit, CatchError, StopSignal, Exit, Crash, Start, StartAt,
         sourceVars, kafkaVars, vars
    <2>2. Told(rows', log') BY <2>1
    <2>3. policy' = policy
      BY <1>4 DEF Next, Run, vars, handlerVars, Consume, ConsumeUpTo, BeginBatch, Handle,
             HandlerStep, StartGroup, ApplyDelta, FinishGroup, Raise, Commit, DropBatch,
             CatchError, StopSignal, Exit, Crash, Start, StartAt
    <2>4. Faithful'
      <3>1. CASE Consume BY <3>1, FaithfulConsume
      <3>2. CASE Handle
        BY <3>2, FaithfulStart, FaithfulApply, FaithfulFinish DEF Handle, HandlerStep
      <3>3. CASE Commit \/ CatchError \/ StopSignal \/ Exit \/ Crash \/ Start \/ UNCHANGED vars
        BY <3>3, FaithfulDropped
      <3> QED BY <1>4, <3>1, <3>2, <3>3 DEF Next, Run
    <2> QED BY <1>1, <1>2, <2>2, <2>3, <2>4
  <1> QED BY <1>3, <1>4

(* Once the consumer has caught up, every document and every edge of the   *)
(* target is what a load of the table would make it (handler.py applies    *)
(* each delta through conflict.py): for any rows, keys, partitions and     *)
(* batch size, any interleaving of partitions in a batch, any crashes,     *)
(* stops and commits that failed, hence any redelivery, any refused call   *)
(* or lost reply of the writer, and every policy that goes on after a      *)
(* conflict, unless a delta failed.  The source logs whole old rows and    *)
(* changes no key (NoStaleEdge says what becomes of an edge when it        *)
(* does), every value can be coerced, and a transaction changes one row,   *)
(* or none has an id.                                                      *)
THEOREM CaughtUpIsMirrored ==
  ASSUME BadVals = {}, OnlyKinds, MaxRowsPerTxn = 1 \/ ~HasTids
  PROVE  Spec => []CaughtUpMeansMirror
  <1>1. Init => Shown BY ShownInit
  <1>2. Inv /\ Inv' /\ Shown /\ [Next]_vars => Shown' BY ShownStep
  <1>3. Inv /\ Shown => CaughtUpMeansMirror BY CaughtUpShows DEF Shown
  <1> QED BY <1>1, <1>2, <1>3, Invariance, PTL DEF Spec
=============================================================================
