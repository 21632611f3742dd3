------------------------------- MODULE PgProofs -------------------------------
(***************************************************************************)
(* What PgListener.tla promises for any table, any transactions, any       *)
(* faults of the writer, and any number of stops, crashes, lost polls and  *)
(* dropped slots: no change is handed to the handler twice, without an     *)
(* interruption none is lost, and a listener that has caught up and lost   *)
(* nothing has made the target the image of the table.                     *)
(***************************************************************************)
EXTENDS PgListener, MirrorProofs

(* The slot, the base and the ends of transactions are positions in wal.   *)
Positions ==
  /\ \E S : wal \in Seq(S)
  /\ Len(wal) \in Nat /\ Len(wal) \in boundaries
  /\ boundaries \subseteq 0..Len(wal)
  /\ slot \in boundaries \cup {NoSlot}
  /\ base \in 0..Len(wal)
  /\ interruptions \in Nat

(* What has been handed out lies behind the slot, or, with no slot, behind *)
(* the place where the next one will be made.                              *)
Behind ==
  /\ todo \cup group \subseteq DOMAIN batch
  /\ DOMAIN batch \cup applied \subseteq 1..Len(wal)
  /\ slot # NoSlot => \A i \in DOMAIN batch \cup applied : i <= slot

(* Between batches nothing is in hand; only the FAIL policy and rows that  *)
(* cannot be coerced raise.                                                *)
Quiet ==
  /\ pc \in {"idle", "handled", "raised"} => todo = {} /\ group = {}
  /\ ~Gone => pc # "raised"

(* Without an interruption the load has found a slot, and what the slot    *)
(* has passed since then is handled or in hand.                            *)
InHand ==
  interruptions = 0 /\ ~Gone /\ ~LoadBeforeSlot =>
    /\ loaded => slot # NoSlot
    /\ slot # NoSlot => \A i \in (base + 1)..slot : i \in applied \cup todo \cup group

Inv == Positions /\ Behind /\ Quiet /\ InHand

LEMMA NoMessages == DOMAIN <<>> = {}
  OBVIOUS

LEMMA InvInit == Init => Inv
  <1> SUFFICES ASSUME Init PROVE Inv OBVIOUS
  <1> USE DEF Init, HandlerInit
  <1>1. wal \in Seq({}) /\ Len(wal) = 0 OBVIOUS
  <1>2. Positions BY <1>1 DEF Positions
  <1>3. Behind BY NoMessages DEF Behind
  <1>4. Quiet /\ InHand BY DEF Quiet, InHand
  <1> QED BY <1>2, <1>3, <1>4 DEF Inv

(***************************************************************************)
(* The source only appends                                                 *)
(***************************************************************************)

LEMMA EventsType ==
  ASSUME NEW txn \in Transactions(rows)
  PROVE  /\ \E T : EventsOf(txn) \in Seq(T)
         /\ Len(EventsOf(txn)) \in Nat
  <1>1. (\E c : txn = <<c>>) \/ (\E c, d : txn = <<c, d>>)
    BY DEF Transactions
  <1>2. DOMAIN txn \in {1..1, 1..2} BY <1>1
  <1>3. PICK n \in Nat : DOMAIN EventsOf(txn) = 1..n BY <1>2 DEF EventsOf
  <1> DEFINE T == {EventsOf(txn)[i] : i \in 1..n}
  <1>4. EventsOf(txn) \in [1..n -> T] BY <1>3 DEF EventsOf
  <1> HIDE DEF T
  <1>5. EventsOf(txn) \in Seq(T) BY <1>4
  <1> QED BY <1>5

LEMMA CommitAppends ==
  ASSUME Positions, Commit
  PROVE  /\ \E S : wal' \in Seq(S)
         /\ Len(wal') \in Nat /\ Len(wal) <= Len(wal')
  <1>1. PICK txn \in Transactions(rows) : wal' = wal \o EventsOf(txn) BY DEF Commit
  <1>2. PICK S : wal \in Seq(S) BY DEF Positions
  <1>3. PICK T : EventsOf(txn) \in Seq(T) BY EventsType
  <1>4. wal \in Seq(S \cup T) /\ EventsOf(txn) \in Seq(S \cup T) BY <1>2, <1>3
  <1>5. ASSUME NEW R, NEW s \in Seq(R), NEW t \in Seq(R)
        PROVE  s \o t \in Seq(R) /\ Len(s \o t) \in Nat /\ Len(s) <= Len(s \o t)
    OBVIOUS
  <1> QED BY <1>1, <1>4, <1>5

(***************************************************************************)
(* The steps                                                               *)
(***************************************************************************)

(* The handler's steps move changes from todo to group to applied; nothing *)
(* else is handed out, and only a forbidden change is let go.              *)
LEMMA HandlerKeeps ==
  ASSUME Behind, Quiet, HandlerStep
  PROVE  /\ todo' \cup group' \subseteq DOMAIN batch'
         /\ DOMAIN batch' \cup applied' \subseteq DOMAIN batch \cup applied
         /\ batch' = batch \/ batch' = <<>>
         /\ Quiet'
         /\ ~Gone => applied \cup todo \cup group \subseteq applied' \cup todo' \cup group'
         /\ policy' = policy
  <1>1. CASE StartGroup
    <2>1. PICK m \in todo :
            /\ First(m)
            /\ IF \E x \in GroupOf(m) : TransformRaises(batch[x])
                 THEN Raise /\ UNCHANGED <<store, failed>>
                 ELSE /\ group' = GroupOf(m)
                      /\ todo' = todo \ GroupOf(m)
                      /\ UNCHANGED <<policy, store, batch, arrival, pc, applied, failed>>
      BY <1>1 DEF StartGroup
    <2>2. pc = "handling" /\ group = {} BY <1>1 DEF StartGroup
    <2>3. GroupOf(m) \subseteq DOMAIN batch
      BY <2>1 DEF GroupOf, SameTxn, Behind
    <2>4. CASE Raise
      <3>1. CASE Gone
        BY <2>4, <3>1, NoMessages DEF Raise, Forget, Quiet, Gone
      <3>2. CASE ~Gone
        <4>1. \A x \in GroupOf(m) : ~TransformRaises(batch[x]) BY <3>2 DEF TransformRaises, Gone
        <4> QED BY <2>1, <2>2, <2>4, <4>1 DEF Raise
      <3> QED BY <3>1, <3>2
    <2>5. CASE ~Raise
      BY <2>1, <2>2, <2>3, <2>5 DEF Behind, Quiet, Gone
    <2> QED BY <2>4, <2>5
  <1>2. CASE ApplyDelta
    <2>1. pc = "handling" BY <1>2 DEF ApplyDelta
    <2>2. CASE policy = "fail" /\ Raise
      BY <2>2, NoMessages DEF Raise, Forget, Quiet, Gone
    <2>3. CASE UNCHANGED <<policy, batch, todo, group, pc, applied>>
      BY <2>1, <2>3 DEF Behind, Quiet, Gone
    <2> QED BY <1>2, <2>2, <2>3 DEF ApplyDelta
  <1>3. CASE FinishGroup
    BY <1>3 DEF FinishGroup, Behind, Quiet, Gone
  <1> QED BY <1>1, <1>2, <1>3 DEF HandlerStep

(* A batch forgotten: at its end, after an exception, in a crash.          *)
LEMMA Dropped ==
  ASSUME Behind, DropBatch
  PROVE  /\ Quiet' /\ DOMAIN batch' = {} /\ todo' = {} /\ group' = {}
         /\ applied' = applied /\ policy' = policy
  BY NoMessages DEF DropBatch, Forget, Quiet

(* A poll hands out what lies between the slot and the end of a            *)
(* transaction, and moves the slot there.                                  *)
LEMMA PollStep ==
  ASSUME Inv, Poll
  PROVE  /\ Inv'
         /\ DOMAIN batch' \cap (applied \cup DOMAIN batch) = {}
  <1> USE DEF Inv
  <1>1. PICK upto \in boundaries : PollUpTo(upto) /\ slot' = upto BY DEF Poll
  <1> DEFINE polled == (slot + 1)..upto
  <1>2. /\ pc = "idle" /\ slot # NoSlot /\ upto > slot
        /\ DOMAIN batch' = polled /\ todo' = polled /\ pc' = "handling"
        /\ UNCHANGED <<policy, group, applied, wal, boundaries, loaded, base, interruptions>>
    <2>1. BeginBatch([i \in polled |-> wal[i]], [i \in polled |-> i])
      BY <1>1 DEF PollUpTo
    <2>2. DOMAIN [i \in polled |-> wal[i]] = polled OBVIOUS
    <2> QED BY <1>1, <2>1, <2>2 DEF PollUpTo, BeginBatch
  <1> HIDE DEF polled
  <1>3. /\ slot \in Nat /\ upto \in Nat /\ upto <= Len(wal) /\ Len(wal) \in Nat
        /\ slot < upto /\ base \in Nat
    BY <1>1, <1>2 DEF Positions
  <1>4. Positions' BY <1>1, <1>2, <1>3 DEF Positions
  <1>5. group = {} /\ todo = {} BY <1>2 DEF Quiet
  <1>6. \A i \in polled : i \in 1..Len(wal) /\ slot < i /\ i <= upto BY <1>3 DEF polled
  <1>7. DOMAIN batch' \cap (applied \cup DOMAIN batch) = {}
    <2>1. \A i \in applied \cup DOMAIN batch : i \in 1..Len(wal) /\ i <= slot
      BY <1>2 DEF Behind
    <2> SUFFICES ASSUME NEW i \in DOMAIN batch', i \in applied \cup DOMAIN batch PROVE FALSE
      OBVIOUS
    <2>2. i \in Nat /\ i <= slot /\ slot < i BY <1>2, <1>3, <1>6, <2>1
    <2> QED BY <1>3, <2>2
  <1>8. Behind'
    <2>1. ASSUME NEW i \in applied PROVE i \in 1..Len(wal) /\ i <= upto
      <3>1. i \in 1..Len(wal) /\ i <= slot BY <1>2 DEF Behind
      <3> QED BY <1>3, <3>1
    <2>2. DOMAIN batch' \cup applied' = polled \cup applied BY <1>2
    <2>3. todo' \cup group' = polled BY <1>2, <1>5
    <2> QED BY <1>1, <1>2, <1>6, <2>1, <2>2, <2>3 DEF Behind
  <1>9. Quiet' BY <1>2, <1>5 DEF Quiet, Gone
  <1>10. InHand'
    <2> SUFFICES ASSUME interruptions = 0, ~Gone, ~LoadBeforeSlot, NEW i \in (base + 1)..upto
                 PROVE  i \in applied \cup polled
      BY <1>1, <1>2, <1>3, <1>5, SlotAssumption DEF InHand, Gone
    <2>1. i \in (base + 1)..slot \/ i \in polled
      BY <1>3 DEF polled
    <2> QED BY <1>2, <1>5, <2>1 DEF InHand
  <1> QED BY <1>4, <1>7, <1>8, <1>9, <1>10

LEMMA CommitStep ==
  ASSUME Inv, Commit
  PROVE  Inv'
  <1> USE DEF Inv
  <1>1. /\ UNCHANGED <<policy, batch, todo, group, pc, applied, slot, loaded, base, interruptions>>
        /\ boundaries' = boundaries \cup {Len(wal')}
    BY DEF Commit, handlerVars
  <1>2. Positions'
    <2>1. 0..Len(wal) \subseteq 0..Len(wal') /\ Len(wal') \in 0..Len(wal')
      BY CommitAppends DEF Positions
    <2>2. boundaries' \subseteq 0..Len(wal') BY <1>1, <2>1 DEF Positions
    <2>3. \E S : wal' \in Seq(S) BY CommitAppends
    <2> QED BY <1>1, <2>1, <2>2, <2>3, CommitAppends DEF Positions
  <1>3. Behind' BY <1>1, CommitAppends DEF Behind, Positions
  <1>4. Quiet' /\ InHand' BY <1>1 DEF Quiet, InHand, Gone
  <1> QED BY <1>2, <1>3, <1>4

(* A slot is made at the end of wal, behind which nothing is in hand.      *)
LEMMA SlotMade ==
  ASSUME Inv, CreateSlot,
         UNCHANGED <<policy, batch, todo, group, pc, applied, wal, boundaries, interruptions>>
  PROVE  /\ slot' \in boundaries' /\ slot' # NoSlot
         /\ Behind' /\ Quiet'
  <1> USE DEF Inv
  <1>1. slot' \in boundaries /\ slot' # NoSlot
    BY SlotAssumption DEF CreateSlot, Positions
  <1>2. Behind' BY DEF CreateSlot, Behind, Positions
  <1> QED BY <1>1, <1>2 DEF Quiet, Gone

LEMMA SetupStep ==
  ASSUME Inv, Setup
  PROVE  Inv'
  <1> USE DEF Inv
  <1>1. /\ slot = NoSlot /\ CreateSlot
        /\ base' = IF loaded THEN base ELSE Len(wal)
        /\ UNCHANGED <<policy, batch, todo, group, pc, applied, wal, boundaries, loaded, interruptions>>
    BY DEF Setup, handlerVars
  <1>2. slot' \in boundaries' /\ slot' # NoSlot /\ Behind' /\ Quiet' BY <1>1, SlotMade
  <1>3. slot' = Len(wal) BY <1>1 DEF CreateSlot
  <1>4. Positions' BY <1>1, <1>2 DEF Positions
  <1>5. InHand'
    <2> SUFFICES ASSUME interruptions = 0, ~Gone, ~LoadBeforeSlot
                 PROVE  \A i \in (base' + 1)..slot' : i \in applied \cup todo \cup group
      BY <1>1, <1>2 DEF InHand, Gone
    <2>1. base' = Len(wal) BY <1>1 DEF InHand
    <2> QED BY <1>3, <2>1 DEF Positions
  <1> QED BY <1>2, <1>4, <1>5

LEMMA StartStep ==
  ASSUME Inv, Start
  PROVE  Inv'
  <1> USE DEF Inv
  <1>1. /\ loaded /\ CreateSlot
        /\ UNCHANGED <<policy, batch, todo, group, pc, applied, wal, boundaries, loaded, base,
                       interruptions>>
    BY DEF Start, handlerVars
  <1>2. slot' \in boundaries' /\ slot' # NoSlot /\ Behind' /\ Quiet' BY <1>1, SlotMade
  <1>3. Positions' BY <1>1, <1>2 DEF Positions
  <1>4. InHand' BY <1>1 DEF InHand, Gone, CreateSlot
  <1> QED BY <1>2, <1>3, <1>4

LEMMA LoadStep ==
  ASSUME Inv, Load
  PROVE  Inv'
  <1> USE DEF Inv
  <1>1. /\ ~LoadBeforeSlot => slot # NoSlot
        /\ base' = IF slot = NoSlot THEN Len(wal) ELSE base
        /\ UNCHANGED <<policy, batch, todo, group, pc, applied, wal, boundaries, slot, interruptions>>
    BY DEF Load
  <1> QED BY <1>1 DEF Positions, Behind, Quiet, InHand, Gone

(* A step of the handler, of the loop or of the operator.                  *)
LEMMA InvStep == Inv /\ [Next]_vars => Inv'
  <1> SUFFICES ASSUME Inv, [Next]_vars PROVE Inv' OBVIOUS
  <1> USE DEF Inv
  <1>1. CASE Commit BY <1>1, CommitStep
  <1>2. CASE Setup BY <1>2, SetupStep
  <1>3. CASE Load BY <1>3, LoadStep
  <1>4. CASE Start BY <1>4, StartStep
  <1>5. CASE Poll BY <1>5, PollStep
  <1>6. CASE PollLost
    <2>1. /\ pc = "idle" /\ slot # NoSlot /\ interruptions' = interruptions + 1
          /\ slot' \in boundaries /\ slot' > slot
          /\ UNCHANGED <<policy, batch, todo, group, pc, applied, wal, boundaries, loaded, base>>
      BY <1>6 DEF PollLost, handlerVars
    <2>2. interruptions' \in Nat /\ interruptions' # 0 BY <2>1 DEF Positions
    <2>3. Positions' BY <2>1, <2>2 DEF Positions
    <2>4. Behind' BY <2>1 DEF Behind, Positions
    <2> QED BY <2>1, <2>2, <2>3, <2>4 DEF Quiet, InHand, Gone
  <1>7. CASE Handle
    <2>1. HandlerStep /\ UNCHANGED <<wal, boundaries, slot, loaded, base, interruptions>>
      BY <1>7 DEF Handle, listenerVars
    <2>2. /\ todo' \cup group' \subseteq DOMAIN batch' /\ Quiet' /\ policy' = policy
          /\ DOMAIN batch' \cup applied' \subseteq DOMAIN batch \cup applied
          /\ ~Gone => applied \cup todo \cup group \subseteq applied' \cup todo' \cup group'
      BY <2>1, HandlerKeeps
    <2>3. Positions' BY <2>1 DEF Positions
    <2>4. Behind' BY <2>1, <2>2 DEF Behind
    <2>5. InHand' BY <2>1, <2>2 DEF InHand, Gone
    <2> QED BY <2>2, <2>3, <2>4, <2>5
  <1>8. CASE NextPoll
    <2>1. /\ DropBatch /\ pc = "handled"
          /\ UNCHANGED <<wal, boundaries, slot, loaded, base, interruptions>>
      BY <1>8 DEF NextPoll, listenerVars
    <2>2. /\ Quiet' /\ DOMAIN batch' = {} /\ todo' = {} /\ group' = {}
          /\ applied' = applied /\ policy' = policy
      BY <2>1, Dropped
    <2>3. todo = {} /\ group = {} BY <2>1 DEF Quiet
    <2> QED BY <2>1, <2>2, <2>3 DEF Positions, Behind, InHand, Gone
  <1>9. CASE CatchError
    <2>1. /\ DropBatch /\ pc = "raised"
          /\ UNCHANGED <<wal, boundaries, slot, loaded, base, interruptions>>
      BY <1>9 DEF CatchError
    <2>2. /\ Quiet' /\ DOMAIN batch' = {} /\ todo' = {} /\ group' = {}
          /\ applied' = applied /\ policy' = policy
      BY <2>1, Dropped
    <2>3. todo = {} /\ group = {} BY <2>1 DEF Quiet
    <2> QED BY <2>1, <2>2, <2>3 DEF Positions, Behind, InHand, Gone
  <1>10. CASE StopSignal \/ Exit
    <2>1. UNCHANGED <<policy, batch, todo, group, pc, applied, wal, boundaries, slot, loaded, base,
                      interruptions>>
      BY <1>10 DEF StopSignal, Exit, handlerVars
    <2> QED BY <2>1 DEF Positions, Behind, Quiet, InHand, Gone
  <1>11. CASE Crash
    <2>1. /\ DropBatch /\ interruptions' = interruptions + 1
          /\ UNCHANGED <<wal, boundaries, slot, loaded, base>>
      BY <1>11 DEF Crash
    <2>2. /\ Quiet' /\ DOMAIN batch' = {} /\ todo' = {} /\ group' = {}
          /\ applied' = applied /\ policy' = policy
      BY <2>1, Dropped
    <2>3. interruptions' \in Nat /\ interruptions' # 0 BY <2>1 DEF Positions
    <2> QED BY <2>1, <2>2, <2>3 DEF Positions, Behind, InHand
  <1>12. CASE Teardown
    <2>1. /\ slot' = NoSlot /\ interruptions' = interruptions + 1
          /\ UNCHANGED <<policy, batch, todo, group, pc, applied, wal, boundaries, loaded, base>>
      BY <1>12 DEF Teardown, DropSlot, handlerVars
    <2>2. interruptions' \in Nat /\ interruptions' # 0 BY <2>1 DEF Positions
    <2> QED BY <2>1, <2>2 DEF Positions, Behind, Quiet, InHand, Gone
  <1>13. CASE UNCHANGED vars
    BY <1>13 DEF vars, handlerVars, listenerVars, Positions, Behind, Quiet, InHand, Gone
  <1> QED
    BY <1>1, <1>2, <1>3, <1>4, <1>5, <1>6, <1>7, <1>8, <1>9, <1>10, <1>11, <1>12, <1>13 DEF Next

(***************************************************************************)
(* The log tells the history of the table                                  *)
(***************************************************************************)

(* What is no event: wal has events only.                                  *)
None == <<>>
Told(tbl, l) ==
  /\ tbl \in Tables
  /\ \E S : l \in Seq(S)
  /\ \A k \in Keys : Tells(l, k, None) /\ Stood(l, k, None, Len(l), tbl[k])
  /\ \A o \in 1 .. Len(l) : l[o] # None /\ \E k \in Keys : Proper(l[o], k)

(* A transaction is one event, which gives it its id, or two.              *)
Dated ==
  /\ emitted = Len(wal)
  /\ \A i \in 1 .. Len(wal) : wal[i].tid \in IF HasTids THEN {i, i - 1} ELSE {NoTid}

LEMMA Joined ==
  ASSUME NEW T, NEW s \in Seq(T), NEW t \in Seq(T)
  PROVE  /\ s \o t \in Seq(T) /\ Len(s) \in Nat /\ Len(t) \in Nat /\ Len(s \o t) = Len(s) + Len(t)
         /\ \A o \in 1 .. Len(s) : (s \o t)[o] = s[o]
         /\ \A o \in 1 .. Len(t) : (s \o t)[Len(s) + o] = t[o]
  OBVIOUS

LEMMA JoinedThrice ==
  ASSUME NEW T, NEW s \in Seq(T), NEW t \in Seq(T), NEW u \in Seq(T)
  PROVE  s \o (t \o u) = (s \o t) \o u
  OBVIOUS

LEMMA Appended ==
  ASSUME NEW T, NEW l \in Seq(T), NEW e \in T
  PROVE  /\ Append(l, e) \in Seq(T)
         /\ Len(l) \in Nat /\ Len(Append(l, e)) = Len(l) + 1
         /\ Append(l, e)[Len(l) + 1] = e
         /\ \A o \in 1 .. Len(l) : Append(l, e)[o] = l[o]
         /\ l \o <<e>> = Append(l, e)
  <1>3. /\ Append(l, e) \in Seq(T) /\ Len(l) \in Nat /\ Len(Append(l, e)) = Len(l) + 1
        /\ Append(l, e)[Len(l) + 1] = e
        /\ \A o \in 1 .. Len(l) : Append(l, e)[o] = l[o]
    OBVIOUS
  <1>4. l \o <<e>> = Append(l, e)
    <2> DEFINE t == <<e>>
    <2>1. t \in Seq(T) /\ Len(t) = 1 /\ t[1] = e OBVIOUS
    <2> HIDE DEF t
    <2>2. /\ l \o t \in Seq(T) /\ Len(l \o t) = Len(l) + 1
          /\ \A o \in 1 .. Len(l) : (l \o t)[o] = l[o]
          /\ (l \o t)[Len(l) + 1] = e
      <3>1. /\ l \o t \in Seq(T) /\ Len(l \o t) = Len(l) + Len(t)
            /\ \A o \in 1 .. Len(l) : (l \o t)[o] = l[o]
            /\ \A o \in 1 .. Len(t) : (l \o t)[Len(l) + o] = t[o]
        BY <2>1, Joined
      <3> QED BY <1>3, <2>1, <3>1
    <2>3. PICK u, v : u = l \o t /\ v = Append(l, e) OBVIOUS
    <2>4. PICK n \in Nat : n = Len(l) BY <1>3
    <2>5. /\ u \in Seq(T) /\ v \in Seq(T) /\ Len(u) = n + 1 /\ Len(v) = n + 1
          /\ \A o \in 1 .. (n + 1) : u[o] = v[o]
      <3>1. \A o \in 1 .. (n + 1) : o \in 1 .. n \/ o = n + 1 OBVIOUS
      <3> QED BY <1>3, <2>2, <2>3, <2>4, <3>1
    <2>6. u = v BY <2>5
    <2> QED BY <2>3, <2>6 DEF t
  <1> QED BY <1>3, <1>4

(* A change of the table and its event in the log.                         *)
LEMMA ToldMore ==
  ASSUME NEW tbl, NEW l, Told(tbl, l), NEW c \in RowChanges(tbl), OnlyKinds, NEW e,
         e.op = c.op, e.new = c.new, e.old = c.old, e.lsn \in Nat, e # None
  PROVE  Told(AfterChange(tbl, c), Append(l, e))
  <1>1. PICK S : l \in Seq(S) BY DEF Told
  <1> DEFINE after == AfterChange(tbl, c)
             m == Append(l, e)
  <1>2. /\ c.key \in Keys /\ c.op \in {"INSERT", "UPDATE", "DELETE"}
        /\ RowOf(e) \in RowsOf(c.key) \ {NoRow} /\ e.new \in RowsOf(c.key)
        /\ Legal(tbl[c.key], e)
        /\ after \in Tables /\ after[c.key] = e.new
        /\ \A k \in Keys : k # c.key => after[k] = tbl[k]
    BY ChangeIsLegal DEF Told
  <1>3. \A k \in Keys : tbl[k] \in RowsOf(k) /\ after[k] \in RowsOf(k) BY <1>2, RowOfTable DEF Told
  <1>4. RowOf(e).key = c.key BY <1>2 DEF RowsOf
  <1>5. /\ \E T : m \in Seq(T)
        /\ Len(l) \in Nat /\ Len(m) = Len(l) + 1 /\ m[Len(l) + 1] = e
        /\ \A o \in 1 .. Len(l) : m[o] = l[o]
    <2>1. PICK T : T = S \cup {e} OBVIOUS
    <2>2. l \in Seq(T) /\ e \in T BY <1>1, <2>1
    <2> QED BY <2>2, Appended
  <1> HIDE DEF after, m
  <1>6. Prefix(l, m) BY <1>5 DEF Prefix
  <1>7. ASSUME NEW k \in Keys PROVE Tells(m, k, None) /\ Stood(m, k, None, Len(m), after[k])
    <2>1. Tells(l, k, None) /\ Stood(l, k, None, Len(l), tbl[k]) BY DEF Told
    <2>2. CASE k = c.key
      <3>1. About(m, Len(l) + 1, k, None) BY <1>4, <1>5, <2>2 DEF About
      <3>2. \A o \in ((Len(l) + 1) + 1) .. Len(m) : ~About(m, o, k, None) BY <1>5
      <3>3. Legal(tbl[k], m[Len(l) + 1]) /\ after[k] = m[Len(l) + 1].new BY <1>2, <1>5, <2>2
      <3>4. Len(l) + 1 <= Len(m) /\ Len(l) + 1 # Len(l) /\ Len(l) + 1 \in {Len(l), Len(l) + 1} BY <1>5
      <3> QED BY <1>3, <1>6, <2>1, <3>1, <3>2, <3>3, <3>4, TellsMore
    <2>3. CASE k # c.key
      <3>1. after[k] = tbl[k] BY <1>2, <2>3
      <3>2. ASSUME NEW o \in (Len(l) + 1) .. Len(m) PROVE ~About(m, o, k, None)
        <4>1. m[o] = e BY <1>5
        <4> QED BY <1>4, <2>3, <4>1 DEF About
      <3>3. Len(l) <= Len(m) BY <1>5
      <3> QED BY <1>3, <1>6, <2>1, <3>1, <3>2, <3>3, TellsMore
    <2> QED BY <2>2, <2>3
  <1>8. ASSUME NEW o \in 1 .. Len(m) PROVE m[o] # None /\ \E k \in Keys : Proper(m[o], k)
    <2>1. CASE o \in 1 .. Len(l) BY <1>5, <2>1 DEF Told
    <2>2. CASE o \notin 1 .. Len(l)
      <3>1. m[o] = e BY <1>5, <2>2
      <3>2. e.op = "DELETE" => e.new = NoRow BY <1>2 DEF Legal
      <3>3. Proper(e, c.key) BY <1>2, <3>2 DEF Proper
      <3> QED BY <1>2, <3>1, <3>3
    <2> QED BY <2>1, <2>2
  <1>9. Told(after, m) BY <1>2, <1>5, <1>7, <1>8 DEF Told
  <1> QED BY <1>9 DEF after, m

(* The events of a transaction, one after the other.                       *)
LEMMA EventsAre ==
  ASSUME NEW txn, NEW i \in DOMAIN txn, i \in Nat, emitted \in Nat
  PROVE  LET e == EventsOf(txn)[i]
         IN  /\ e.op = txn[i].op /\ e.new = txn[i].new /\ e.old = txn[i].old
             /\ e.lsn \in Nat /\ e # None
             /\ e.tid = IF HasTids THEN emitted + 1 ELSE NoTid
  <1> DEFINE e == EventsOf(txn)[i]
  <1>1. e = [op |-> txn[i].op, new |-> txn[i].new, old |-> txn[i].old,
             lsn |-> emitted + i, tid |-> IF HasTids THEN emitted + 1 ELSE NoTid]
    BY DEF EventsOf
  <1> HIDE DEF e
  <1>2. e # None
    <2>1. "op" \in DOMAIN e BY <1>1
    <2>2. "op" \notin DOMAIN None BY DEF None
    <2> QED BY <2>1, <2>2
  <1>3. emitted + i \in Nat OBVIOUS
  <1>4. e.lsn \in Nat BY <1>1, <1>3
  <1>5. /\ e.op = txn[i].op /\ e.new = txn[i].new /\ e.old = txn[i].old
        /\ e.tid = IF HasTids THEN emitted + 1 ELSE NoTid
    BY <1>1
  <1> QED BY <1>2, <1>4, <1>5 DEF e

(* Wal continues as it was.                                                *)
LEMMA CommitTells ==
  ASSUME Positions, Told(rows, wal), Dated, OnlyKinds, Commit
  PROVE  Told(rows', wal') /\ Dated' /\ Prefix(wal, wal') /\ Len(wal) < Len(wal')
  <1>1. PICK txn \in Transactions(rows) : CommitTxn(txn) /\ wal' = wal \o EventsOf(txn) BY DEF Commit
  <1>2. rows' = AfterTxn(rows, txn) /\ emitted' = emitted + Len(txn) BY <1>1 DEF CommitTxn
  <1>3. PICK S : wal \in Seq(S) BY DEF Positions
  <1>4. PICK n \in Nat : n = Len(wal) /\ n = emitted BY DEF Positions, Dated
  <1>5. PICK a, b : a = EventsOf(txn)[1] /\ b = EventsOf(txn)[2] OBVIOUS
  <1>6. PICK T : wal \in Seq(T) /\ a \in T /\ b \in T
    <2>1. PICK T : T = S \cup {a, b} OBVIOUS
    <2>2. wal \in Seq(T) /\ a \in T /\ b \in T BY <1>3, <2>1
    <2> QED BY <2>2
  <1>7. PICK l : l = Append(wal, a) OBVIOUS
  <1>8. /\ l \in Seq(T) /\ Len(l) = n + 1 /\ l[n + 1] = a
        /\ \A o \in 1 .. n : l[o] = wal[o]
        /\ wal \o <<a>> = l
    <2>1. /\ l \in Seq(T) /\ Len(l) = Len(wal) + 1 /\ l[Len(wal) + 1] = a
          /\ \A o \in 1 .. Len(wal) : l[o] = wal[o]
          /\ wal \o <<a>> = l
      BY <1>6, <1>7, Appended
    <2> QED BY <1>4, <2>1
  <1>9. PICK m : m = Append(l, b) OBVIOUS
  <1>10. /\ m \in Seq(T) /\ Len(m) = n + 2 /\ m[n + 2] = b
         /\ \A o \in 1 .. (n + 1) : m[o] = l[o]
         /\ l \o <<b>> = m
    <2>1. /\ m \in Seq(T) /\ Len(m) = Len(l) + 1 /\ m[Len(l) + 1] = b
          /\ \A o \in 1 .. Len(l) : m[o] = l[o]
          /\ l \o <<b>> = m
      BY <1>6, <1>8, <1>9, Appended
    <2>2. Len(l) + 1 = n + 2 BY <1>8
    <2> QED BY <1>8, <2>1, <2>2
  <1>11. ASSUME NEW x, Told(rows', x), wal' = x, emitted' = Len(x),
                Len(x) = n + 1 \/ Len(x) = n + 2,
                \A o \in 1 .. n : x[o] = wal[o],
                x[n + 1].tid = IF HasTids THEN n + 1 ELSE NoTid,
                Len(x) = n + 2 => x[n + 2].tid = IF HasTids THEN n + 1 ELSE NoTid
         PROVE  Told(rows', wal') /\ Dated' /\ Prefix(wal, wal') /\ Len(wal) < Len(wal')
    <2>1. Prefix(wal, wal') /\ Len(wal) < Len(wal') BY <1>4, <1>11 DEF Prefix
    <2>2. ASSUME NEW o \in 1 .. Len(x) PROVE x[o].tid \in IF HasTids THEN {o, o - 1} ELSE {NoTid}
      <3>1. o \in 1 .. n \/ o = n + 1 \/ (o = n + 2 /\ Len(x) = n + 2) BY <1>11
      <3>2. CASE o \in 1 .. n
        <4>1. x[o] = wal[o] /\ o \in 1 .. Len(wal) BY <1>4, <1>11, <3>2
        <4> QED BY <4>1 DEF Dated
      <3>3. CASE o = n + 1 BY <1>11, <3>3
      <3>4. CASE o = n + 2 /\ Len(x) = n + 2
        <4>1. o - 1 = n + 1 BY <3>4
        <4> QED BY <1>11, <3>4, <4>1
      <3> QED BY <3>1, <3>2, <3>3, <3>4
    <2>3. Dated' BY <1>11, <2>2 DEF Dated
    <2> QED BY <1>11, <2>1, <2>3
  <1>12. ASSUME NEW c \in RowChanges(rows), 1 \in DOMAIN txn, txn[1] = c
         PROVE  Told(AfterChange(rows, c), l) /\ a.tid = IF HasTids THEN n + 1 ELSE NoTid
    <2>1. /\ a.op = c.op /\ a.new = c.new /\ a.old = c.old /\ a.lsn \in Nat /\ a # None
          /\ a.tid = IF HasTids THEN n + 1 ELSE NoTid
      BY <1>4, <1>5, <1>12, EventsAre
    <2> QED BY <1>7, <2>1, ToldMore
  <1>13. CASE \E c \in RowChanges(rows) : txn = <<c>>
    <2>1. PICK c \in RowChanges(rows) : txn = <<c>> BY <1>13
    <2>2. Len(txn) = 1 /\ DOMAIN txn = 1 .. 1 /\ 1 \in DOMAIN txn /\ txn[1] = c BY <2>1
    <2>3. EventsOf(txn) = <<a>>
      <3>1. EventsOf(txn) = [i \in 1 .. 1 |-> EventsOf(txn)[i]] BY <2>2 DEF EventsOf
      <3>2. [i \in 1 .. 1 |-> EventsOf(txn)[i]] = <<a>> BY <1>5
      <3> QED BY <3>1, <3>2
    <2>4. wal' = l BY <1>1, <1>8, <2>3
    <2>5. rows' = AfterChange(rows, c) BY <1>2, <2>2 DEF AfterTxn
    <2>6. Told(rows', l) /\ a.tid = IF HasTids THEN n + 1 ELSE NoTid BY <1>12, <2>2, <2>5
    <2>7. emitted' = Len(l) BY <1>2, <1>4, <1>8, <2>2
    <2>8. Len(l) # n + 2 BY <1>8
    <2> QED BY <1>8, <1>11, <2>4, <2>6, <2>7, <2>8
  <1>14. CASE \E c \in RowChanges(rows) : \E d \in RowChanges(AfterChange(rows, c)) : txn = <<c, d>>
    <2>1. PICK c \in RowChanges(rows) : \E d \in RowChanges(AfterChange(rows, c)) : txn = <<c, d>> BY <1>14
    <2>2. PICK d \in RowChanges(AfterChange(rows, c)) : txn = <<c, d>> BY <2>1
    <2>3. /\ Len(txn) = 2 /\ DOMAIN txn = 1 .. 2 /\ 1 \in DOMAIN txn /\ 2 \in DOMAIN txn
          /\ txn[1] = c /\ txn[2] = d
      BY <2>2
    <2>4. EventsOf(txn) = <<a, b>>
      <3>1. EventsOf(txn) = [i \in 1 .. 2 |-> EventsOf(txn)[i]] BY <2>3 DEF EventsOf
      <3>2. [i \in 1 .. 2 |-> EventsOf(txn)[i]] = <<a, b>> BY <1>5
      <3> QED BY <3>1, <3>2
    <2>5. wal' = m
      <3>1. wal \o (<<a>> \o <<b>>) = (wal \o <<a>>) \o <<b>>
        <4>1. <<a>> \in Seq(T) /\ <<b>> \in Seq(T) BY <1>6
        <4> QED BY <1>6, <4>1, JoinedThrice
      <3>2. <<a>> \o <<b>> = <<a, b>> BY OneAndOne
      <3> QED BY <1>1, <1>8, <1>10, <2>4, <3>1, <3>2
    <2>6. rows' = AfterChange(AfterChange(rows, c), d) BY <1>2, <2>3 DEF AfterTxn
    <2>7. Told(AfterChange(rows, c), l) /\ a.tid = IF HasTids THEN n + 1 ELSE NoTid BY <1>12, <2>3
    <2>8. /\ b.op = d.op /\ b.new = d.new /\ b.old = d.old /\ b.lsn \in Nat /\ b # None
          /\ b.tid = IF HasTids THEN n + 1 ELSE NoTid
      BY <1>4, <1>5, <2>3, EventsAre
    <2>9. Told(rows', m)
      <3>1. PICK tbl : tbl = AfterChange(rows, c) OBVIOUS
      <3>2. Told(tbl, l) /\ d \in RowChanges(tbl) BY <2>2, <2>7, <3>1
      <3> QED BY <1>9, <2>6, <2>8, <3>1, <3>2, ToldMore
    <2>10. emitted' = Len(m) BY <1>2, <1>4, <1>10, <2>3
    <2>11. /\ \A o \in 1 .. n : m[o] = wal[o]
           /\ m[n + 1] = a
      <3>1. n + 1 \in 1 .. (n + 1) /\ \A o \in 1 .. n : o \in 1 .. (n + 1) OBVIOUS
      <3> QED BY <1>8, <1>10, <3>1
    <2> QED BY <1>10, <1>11, <2>5, <2>7, <2>8, <2>9, <2>10, <2>11
  <1> QED BY <1>13, <1>14 DEF Transactions

(***************************************************************************)
(* What the listener has in hand                                           *)
(***************************************************************************)

(* What is polled and not handled reaches, without gaps, up to the slot:   *)
(* whole groups, that in progress before the others.                       *)
Hand == todo \cup group

AtHand ==
  /\ process # "down" => loaded
  /\ process = "down" => pc = "idle"
  /\ slot # NoSlot => base <= slot
  /\ Hand # {} => slot # NoSlot
  /\ Hand \cap applied = {}
  /\ \A i \in Hand : base < i /\ \A j \in i .. slot : j \in Hand
  /\ \A i \in DOMAIN batch : batch[i] = wal[i] /\ arrival[i] = i
  /\ group = {} => work = <<>>
  /\ \A i \in group : \A j \in todo : i < j
  /\ \A n \in todo : GroupOf(n) \subseteq todo

(* The group that starts is the first event left in the batch, perhaps     *)
(* with the next one.                                                      *)
LEMMA FirstGroup ==
  ASSUME Inv, Dated, AtHand, NEW m \in todo, First(m)
  PROVE  /\ GroupOf(m) = {m} \/ (GroupOf(m) = {m, m + 1} /\ m + 1 \in todo)
         /\ \A g \in GroupOf(m) : \A n \in todo \ GroupOf(m) : g < n
  <1>1. ASSUME NEW x \in DOMAIN batch
        PROVE  /\ x \in Nat /\ arrival[x] = x
               /\ batch[x].tid \in IF HasTids THEN {x, x - 1} ELSE {NoTid}
    <2>1. x \in 1 .. Len(wal) /\ Len(wal) \in Nat BY DEF Inv, Behind, Positions
    <2>2. batch[x] = wal[x] /\ arrival[x] = x BY DEF AtHand
    <2>3. wal[x].tid \in IF HasTids THEN {x, x - 1} ELSE {NoTid} BY <2>1 DEF Dated
    <2>4. x \in Nat BY <2>1
    <2> QED BY <2>2, <2>3, <2>4
  <1>2. todo \subseteq DOMAIN batch BY DEF Inv, Behind
  <1>3. ASSUME NEW x \in DOMAIN batch PROVE Leader(x) \in SameTxn(x)
    <2>1. \A y \in SameTxn(x) : arrival[y] = y /\ y \in Nat BY <1>1 DEF SameTxn
    <2>2. {arrival[y] : y \in SameTxn(x)} = SameTxn(x) BY <2>1
    <2>3. SameTxn(x) \in SUBSET Nat /\ SameTxn(x) # {} BY <2>1 DEF SameTxn
    <2> QED BY <2>2, <2>3, MinOfSome DEF Leader
  <1>4. ASSUME NEW n \in todo, batch[n].tid = batch[m].tid PROVE m <= n
    <2>1. SameTxn(m) = SameTxn(n) BY <1>4 DEF SameTxn
    <2>2. Leader(m) = Leader(n) /\ Leader(m) \in Nat BY <1>1, <1>2, <1>3, <2>1 DEF Leader, SameTxn
    <2>3. m \in Nat /\ n \in Nat /\ arrival[m] = m /\ arrival[n] = n BY <1>1, <1>2
    <2>4. Before(m, n) BY DEF First
    <2>5. ~(Leader(m) < Leader(n)) BY <2>2
    <2> QED BY <2>3, <2>4, <2>5 DEF Before
  <1>5. ASSUME NEW n \in todo, batch[n].tid # batch[m].tid, NEW g \in SameTxn(m) PROVE g < n
    <2>1. PICK a \in SameTxn(m), b \in SameTxn(n) : a = Leader(m) /\ b = Leader(n) BY <1>2, <1>3
    <2>2. /\ a \in DOMAIN batch /\ b \in DOMAIN batch /\ g \in DOMAIN batch /\ n \in DOMAIN batch /\ m \in DOMAIN batch
          /\ batch[a].tid = batch[m].tid /\ batch[b].tid = batch[n].tid /\ batch[g].tid = batch[m].tid
      BY <1>2, <2>1 DEF SameTxn
    <2>3. HasTids BY <1>1, <1>5, <2>2
    <2>4. PICK t, u : t = batch[m].tid /\ u = batch[n].tid OBVIOUS
    <2>5. /\ a \in Nat /\ b \in Nat /\ g \in Nat /\ n \in Nat
          /\ t \in {a, a - 1} /\ u \in {b, b - 1} /\ t \in {g, g - 1} /\ u \in {n, n - 1}
      BY <1>1, <2>2, <2>3, <2>4
    <2>6. a <= b BY <2>1 , <2>5 DEF First, Before
    <2>7. t # u BY <1>5, <2>4
    <2>8. t <= u
      <3>1. t <= a /\ b <= u + 1 /\ t \in Int /\ u \in Int BY <2>5
      <3>2. a # b BY <2>2, <2>4, <2>7
      <3>3. a < b BY <2>5, <2>6, <3>2
      <3> QED BY <2>5, <3>1, <3>3
    <2>9. g <= t + 1 /\ u <= n /\ t \in Int /\ u \in Int BY <2>5
    <2>10. g # n BY <1>5, <2>2
    <2> QED BY <2>5, <2>7, <2>8, <2>9, <2>10
  <1>6. CASE batch[m].tid = NoTid
    <2>1. GroupOf(m) = {m} BY <1>6 DEF GroupOf
    <2>2. ASSUME NEW n \in todo \ {m} PROVE m < n
      <3>1. m \in Nat /\ n \in Nat /\ m # n BY <1>1, <1>2
      <3>2. CASE batch[n].tid = batch[m].tid
        <4>1. m <= n BY <1>4, <3>2
        <4> QED BY <3>1, <4>1
      <3>3. CASE batch[n].tid # batch[m].tid
        <4>1. m \in SameTxn(m) BY <1>2 DEF SameTxn
        <4> QED BY <1>5, <3>3, <4>1
      <3> QED BY <3>2, <3>3
    <2> QED BY <2>1, <2>2
  <1>7. CASE batch[m].tid # NoTid
    <2>1. GroupOf(m) = SameTxn(m) /\ m \in SameTxn(m) BY <1>2, <1>7 DEF GroupOf, SameTxn
    <2>2. HasTids BY <1>1, <1>2, <1>7
    <2>3. ASSUME NEW x \in SameTxn(m) PROVE x \in todo /\ x \in {m, m + 1}
      <3>1. x \in todo BY <2>1 DEF AtHand
      <3>2. batch[x].tid = batch[m].tid BY DEF SameTxn
      <3>3. m <= x BY <1>4, <3>1, <3>2
      <3>4. PICK t : t = batch[m].tid OBVIOUS
      <3>5. m \in Nat /\ x \in Nat /\ t \in {m, m - 1} /\ t \in {x, x - 1} BY <1>1, <1>2, <2>2, <3>1, <3>2, <3>4
      <3> QED BY <3>1, <3>3, <3>5
    <2>4. GroupOf(m) = {m} \/ (GroupOf(m) = {m, m + 1} /\ m + 1 \in todo) BY <2>1, <2>3
    <2>5. ASSUME NEW n \in todo \ SameTxn(m) PROVE batch[n].tid # batch[m].tid BY <1>2 DEF SameTxn
    <2> QED BY <1>5, <2>1, <2>4, <2>5
  <1> QED BY <1>6, <1>7

(***************************************************************************)
(* The work of a group                                                     *)
(***************************************************************************)

(* Of the deltas of a group g, the first have been applied and w is left:  *)
(* event by event, each with all its deltas but perhaps the first.         *)
Left(w, m, id) == \E i \in DOMAIN w : w[i] = Item(m, id)
InLine(w, g) ==
  /\ \E S : w \in Seq(S)
  /\ \A i \in DOMAIN w : \E m \in g : \E id \in IdsOfRow(RowOf(batch[m])) : w[i] = Item(m, id)
  /\ \A i, j \in DOMAIN w : i < j => w[i].msg <= w[j].msg
  /\ \A i \in DOMAIN w : \A n \in g : w[i].msg < n => \A id \in IdsOfRow(RowOf(batch[n])) : Left(w, n, id)
AllLeft(w, g) == \A m \in g : \A id \in IdsOfRow(RowOf(batch[m])) : Left(w, m, id)

LEMMA ItemHas == ASSUME NEW m, NEW id PROVE Item(m, id).msg = m /\ Item(m, id).delta.id = id
  BY DEF Item

(* The deltas of one event.                                                *)
LEMMA OneLine ==
  ASSUME NEW m \in Nat, RowOf(batch[m]) # NoRow
  PROVE  InLine(DeltasOf(m), {m}) /\ AllLeft(DeltasOf(m), {m})
  <1> DEFINE row == RowOf(batch[m])
  <1>1. PICK w : w = DeltasOf(m) OBVIOUS
  <1>2. w \in Works(m) /\ IdsIn(w) = IdsOfRow(row) /\ w # <<>> BY <1>1, DeltasOfOne
  <1>3. PICK a, b : a = Item(m, Node(row.key)) /\ b = Item(m, Edge(row.key, row.fk)) OBVIOUS
  <1>4. a.msg = m /\ b.msg = m /\ a.delta.id # b.delta.id /\ a.delta.id = Node(row.key) /\ b.delta.id = Edge(row.key, row.fk)
    BY <1>3, ItemHas, IdsDiffer
  <1>5. w = <<a>> \/ w = <<b>> \/ w = <<a, b>> BY <1>2, <1>3 DEF Works
  <1>6. \A i \in DOMAIN w : w[i] \in {a, b} BY <1>5
  <1>7. \E S : w \in Seq(S)
    <2>1. PICK T : T = {a, b} OBVIOUS
    <2>2. a \in T /\ b \in T BY <2>1
    <2>3. <<a>> \in Seq(T) /\ <<b>> \in Seq(T) /\ <<a, b>> \in Seq(T) BY <2>2
    <2> QED BY <1>5, <2>3
  <1>8. ASSUME NEW i \in DOMAIN w PROVE \E id \in IdsOfRow(row) : w[i] = Item(m, id)
    <2>1. w[i].delta.id \in IdsOfRow(row) BY <1>2 DEF IdsIn
    <2> QED BY <1>3, <1>4, <1>6, <2>1
  <1>10. ASSUME NEW i \in DOMAIN w PROVE w[i].msg = m BY <1>4, <1>6
  <1>11. ASSUME NEW id \in IdsOfRow(row) PROVE Left(w, m, id)
    <2>1. PICK i \in DOMAIN w : w[i].delta.id = id BY <1>2 DEF IdsIn
    <2>2. w[i] = Item(m, id) BY <1>3, <1>4, <1>6, <2>1
    <2> QED BY <2>2 DEF Left
  <1>12. InLine(w, {m})
    <2>1. \A i, j \in DOMAIN w : i < j => w[i].msg <= w[j].msg
      BY <1>10
    <2>2. \A i \in DOMAIN w : ~(w[i].msg < m) BY <1>10
    <2> QED BY <1>7, <1>8, <2>1, <2>2 DEF InLine
  <1> QED BY <1>1, <1>11, <1>12 DEF AllLeft

(* One event's deltas before another's.                                    *)
LEMMA TwoLines ==
  ASSUME NEW m \in Nat, NEW n \in Nat, m < n, NEW x, NEW y,
         InLine(x, {m}), AllLeft(x, {m}), InLine(y, {n}), AllLeft(y, {n})
  PROVE  InLine(x \o y, {m, n}) /\ AllLeft(x \o y, {m, n})
  <1>1. PICK T : x \in Seq(T) /\ y \in Seq(T)
    <2>1. PICK S : x \in Seq(S) BY DEF InLine
    <2>2. PICK R : y \in Seq(R) BY DEF InLine
    <2>3. x \in Seq(S \cup R) /\ y \in Seq(S \cup R) BY <2>1, <2>2
    <2> QED BY <2>3
  <1>2. PICK w : w = x \o y OBVIOUS
  <1>3. PICK a \in Nat, b \in Nat : a = Len(x) /\ b = Len(y) BY <1>1
  <1>4. /\ w \in Seq(T) /\ DOMAIN w = 1 .. (a + b) /\ DOMAIN x = 1 .. a /\ DOMAIN y = 1 .. b
        /\ \A i \in 1 .. a : w[i] = x[i]
        /\ \A i \in 1 .. b : w[a + i] = y[i]
    <2>1. w \in Seq(T) /\ Len(w) = a + b BY <1>1, <1>2, <1>3, Joined
    <2>2. \A i \in 1 .. Len(x) : w[i] = x[i] BY <1>1, <1>2, Joined
    <2>3. \A i \in 1 .. Len(y) : w[Len(x) + i] = y[i] BY <1>1, <1>2, Joined
    <2> QED BY <1>1, <1>3, <2>1, <2>2, <2>3
  <1>5. ASSUME NEW i \in DOMAIN w
        PROVE  \/ i \in DOMAIN x /\ w[i] = x[i] /\ i <= a
               \/ i - a \in DOMAIN y /\ w[i] = y[i - a] /\ a < i
    <2>1. i \in 1 .. a \/ (i - a \in 1 .. b /\ a < i /\ a + (i - a) = i) BY <1>4
    <2> QED BY <1>4, <2>1
  <1>6. \A i \in DOMAIN x : (\E id \in IdsOfRow(RowOf(batch[m])) : x[i] = Item(m, id)) /\ x[i].msg = m
    BY ItemHas DEF InLine
  <1>7. \A i \in DOMAIN y : (\E id \in IdsOfRow(RowOf(batch[n])) : y[i] = Item(n, id)) /\ y[i].msg = n
    BY ItemHas DEF InLine
  <1>8. ASSUME NEW id, Left(x, m, id) PROVE Left(w, m, id)
    <2>1. PICK i \in DOMAIN x : x[i] = Item(m, id) BY <1>8 DEF Left
    <2>2. i \in DOMAIN w /\ w[i] = x[i] BY <1>4
    <2> QED BY <2>1, <2>2 DEF Left
  <1>9. ASSUME NEW id, Left(y, n, id) PROVE Left(w, n, id)
    <2>1. PICK i \in DOMAIN y : y[i] = Item(n, id) BY <1>9 DEF Left
    <2>2. a + i \in DOMAIN w /\ w[a + i] = y[i] BY <1>4
    <2> QED BY <2>1, <2>2 DEF Left
  <1>10. AllLeft(w, {m, n}) BY <1>8, <1>9 DEF AllLeft
  <1>11. ASSUME NEW i \in DOMAIN w, NEW j \in DOMAIN w, i < j
         PROVE  w[i].msg <= w[j].msg
    <2>1. i \in Int /\ j \in Int BY <1>4
    <2>2. CASE i \in DOMAIN x /\ w[i] = x[i] /\ j \in DOMAIN x /\ w[j] = x[j] BY <1>11, <2>2 DEF InLine
    <2>3. CASE i - a \in DOMAIN y /\ w[i] = y[i - a] /\ j - a \in DOMAIN y /\ w[j] = y[j - a]
      <3>1. i - a < j - a BY <1>11, <2>1
      <3> QED BY <2>3, <3>1 DEF InLine
    <2>4. CASE i \in DOMAIN x /\ w[i] = x[i] /\ j - a \in DOMAIN y /\ w[j] = y[j - a]
      <3>1. w[i].msg = m /\ w[j].msg = n BY <1>6, <1>7, <2>4
      <3> QED BY <3>1
    <2>5. ~(a < i /\ j <= a) BY <1>11, <2>1
    <2> QED BY <1>5, <2>2, <2>3, <2>4, <2>5
  <1>12. \A i \in DOMAIN w : \E g \in {m, n} : \E id \in IdsOfRow(RowOf(batch[g])) : w[i] = Item(g, id)
    BY <1>5, <1>6, <1>7
  <1>13. InLine(w, {m, n}) BY <1>4, <1>10, <1>11, <1>12 DEF InLine, AllLeft
  <1> QED BY <1>2, <1>10, <1>13

(* Applying the first delta takes it off the work, and no other.           *)
LEMMA LineShrinks ==
  ASSUME NEW g \in SUBSET Nat, NEW w, InLine(w, g), w # <<>>
  PROVE  /\ InLine(Tail(w), g)
         /\ \E m \in g : \E d \in IdsOfRow(RowOf(batch[m])) :
              /\ Head(w) = Item(m, d)
              /\ \A n, id : Left(w, n, id) => m <= n /\ (Left(Tail(w), n, id) \/ (n = m /\ id = d))
              /\ \A n \in g : \A id \in IdsOfRow(RowOf(batch[n])) : m < n => Left(Tail(w), n, id)
  <1>1. PICK T : w \in Seq(T) BY DEF InLine
  <1>2. PICK l \in Nat : l = Len(w) /\ DOMAIN w = 1 .. l BY <1>1
  <1>3. l # 0 BY <1>1, <1>2
  <1>4. PICK t : t = Tail(w) OBVIOUS
  <1>5. t \in Seq(T) /\ DOMAIN t = 1 .. (l - 1) /\ \A i \in 1 .. (l - 1) : t[i] = w[i + 1]
    <2>1. t \in Seq(T) /\ Len(t) = Len(w) - 1 /\ \A i \in 1 .. Len(t) : t[i] = w[i + 1] BY <1>1, <1>3, <1>2, <1>4
    <2> QED BY <1>2, <2>1
  <1>6. Head(w) = w[1] /\ 1 \in DOMAIN w BY <1>1, <1>2, <1>3
  <1>7. PICK m \in g : \E d \in IdsOfRow(RowOf(batch[m])) : w[1] = Item(m, d) BY <1>6 DEF InLine
  <1>70. PICK d \in IdsOfRow(RowOf(batch[m])) : w[1] = Item(m, d) BY <1>7
  <1>8. w[1].msg = m /\ w[1].delta.id = d BY <1>70, ItemHas
  <1>9. ASSUME NEW i \in DOMAIN t PROVE i + 1 \in DOMAIN w /\ t[i] = w[i + 1] /\ i \in Int /\ i >= 1 BY <1>2, <1>5
  <1>10. ASSUME NEW n, NEW id, Left(w, n, id)
         PROVE  m <= n /\ (Left(t, n, id) \/ (n = m /\ id = d))
    <2>1. PICK i \in DOMAIN w : w[i] = Item(n, id) BY <1>10 DEF Left
    <2>2. w[i].msg = n /\ w[i].delta.id = id BY <2>1, ItemHas
    <2>3. CASE i = 1 BY <1>8, <2>2, <2>3
    <2>4. CASE i # 1
      <3>1. i - 1 \in DOMAIN t /\ (i - 1) + 1 = i /\ 1 < i BY <1>2, <1>5, <2>4
      <3>2. t[i - 1] = Item(n, id) BY <1>5, <2>1, <3>1
      <3>3. m <= n BY <1>6, <1>8, <2>2, <3>1 DEF InLine
      <3> QED BY <3>1, <3>2, <3>3 DEF Left
    <2> QED BY <2>3, <2>4
  <1>11. ASSUME NEW n \in g, NEW id \in IdsOfRow(RowOf(batch[n])), m < n PROVE Left(t, n, id)
    <2>1. Left(w, n, id) BY <1>6, <1>8, <1>11 DEF InLine
    <2>2. n # m BY <1>11
    <2> QED BY <1>10, <2>1, <2>2
  <1>12. InLine(t, g)
    <2>1. \A i \in DOMAIN t : \E n \in g : \E id \in IdsOfRow(RowOf(batch[n])) : t[i] = Item(n, id)
      BY <1>9 DEF InLine
    <2>2. ASSUME NEW i \in DOMAIN t, NEW j \in DOMAIN t, i < j
          PROVE  t[i].msg <= t[j].msg
      <3>1. i + 1 < j + 1 BY <1>9, <2>2
      <3> QED BY <1>9, <3>1 DEF InLine
    <2>3. ASSUME NEW i \in DOMAIN t, NEW n \in g, t[i].msg < n, NEW id \in IdsOfRow(RowOf(batch[n]))
          PROVE  Left(t, n, id)
      <3>1. 1 < i + 1 /\ i + 1 \in DOMAIN w /\ t[i] = w[i + 1] BY <1>9
      <3>2. m <= t[i].msg BY <1>6, <1>8, <3>1 DEF InLine
      <3>3. PICK h \in g : \E c \in IdsOfRow(RowOf(batch[h])) : t[i] = Item(h, c) BY <3>1 DEF InLine
      <3>4. t[i].msg = h /\ h \in Nat /\ m \in Nat /\ n \in Nat BY <3>3, ItemHas
      <3>5. m < n BY <2>3, <3>2, <3>4
      <3> QED BY <1>11, <3>5
    <2> QED BY <1>5, <2>1, <2>2, <2>3 DEF InLine
  <1> QED BY <1>4, <1>6, <1>70, <1>10, <1>11, <1>12

(* A group of two has one order.                                           *)
LEMMA TwoInOrder ==
  ASSUME NEW m, NEW n, arrival[m] \in Nat, arrival[n] \in Nat, arrival[m] < arrival[n]
  PROVE  InOrder({m, n}) = [i \in 1 .. 2 |-> IF i = 1 THEN m ELSE n]
  <1>1. Cardinality({m, n}) = 2
    <2>1. IsFiniteSet({m}) /\ Cardinality({m}) = 1 BY FS_Singleton
    <2>2. n \notin {m} OBVIOUS
    <2>3. Cardinality({m} \cup {n}) = Cardinality({m}) + 1 BY <2>1, <2>2, FS_AddElement
    <2>4. {m} \cup {n} = {m, n} OBVIOUS
    <2> QED BY <2>1, <2>3, <2>4
  <1> DEFINE s == [i \in 1 .. 2 |-> IF i = 1 THEN m ELSE n]
             P(x) == x \in [1 .. 2 -> {m, n}] /\ \A i, j \in DOMAIN x : i < j => arrival[x[i]] < arrival[x[j]]
  <1>2. P(s)
    <2>1. s \in [1 .. 2 -> {m, n}] /\ DOMAIN s = 1 .. 2 /\ s[1] = m /\ s[2] = n OBVIOUS
    <2>2. \A i, j \in 1 .. 2 : i < j => i = 1 /\ j = 2 OBVIOUS
    <2> HIDE DEF s
    <2> QED BY <2>1, <2>2
  <1>3. InOrder({m, n}) = CHOOSE x : P(x)
    <2>1. InOrder({m, n}) = CHOOSE x \in [1 .. 2 -> {m, n}] : \A i, j \in DOMAIN x : i < j => arrival[x[i]] < arrival[x[j]]
      BY <1>1 DEF InOrder
    <2> QED BY <2>1
  <1> HIDE DEF P
  <1>4. PICK x : x = InOrder({m, n}) /\ P(x) BY <1>2, <1>3
  <1>5. x \in [1 .. 2 -> {m, n}] /\ arrival[x[1]] < arrival[x[2]] BY <1>4 DEF P
  <1>6. x[1] = m /\ x[2] = n
    <2>1. x[1] \in {m, n} /\ x[2] \in {m, n} BY <1>5
    <2> QED BY <1>5, <2>1
  <1>7. x = s BY <1>5, <1>6
  <1> QED BY <1>4, <1>7

(* Two sequences of deltas make one.                                       *)
LEMMA FlattenTwo ==
  ASSUME NEW x, NEW y PROVE FlattenSeq([i \in 1 .. 2 |-> IF i = 1 THEN x ELSE y]) = x \o y
  <1> DEFINE s == [i \in 1 .. 2 |-> IF i = 1 THEN x ELSE y]
  <1>0. Len(s) = 2 /\ s[1] = x /\ s[2] = y OBVIOUS
  <1> HIDE DEF s
  <1> DEFINE F == CHOOSE f : f = [i \in 1 .. Len(s) |-> IF i = 1 THEN s[i] ELSE f[i-1] \o s[i]]
  <1>2. FlattenSeq(s) = F[Len(s)] BY <1>0 DEF FlattenSeq
  <1>3. \E f : f = [i \in 1 .. Len(s) |-> IF i = 1 THEN s[i] ELSE f[i-1] \o s[i]]
    <2>1. PICK z : z = x \o y OBVIOUS
    <2> DEFINE g == [i \in 1 .. 2 |-> IF i = 1 THEN x ELSE z]
    <2>2. g[1] = x OBVIOUS
    <2>3. \A i \in 1 .. 2 : g[i] = IF i = 1 THEN s[i] ELSE g[i-1] \o s[i]
      <3> SUFFICES ASSUME NEW i \in 1 .. 2 PROVE g[i] = IF i = 1 THEN s[i] ELSE g[i-1] \o s[i] OBVIOUS
      <3>1. CASE i = 1 BY <1>0, <3>1
      <3>2. CASE i = 2
        <4>1. g[i] = z /\ i - 1 = 1 BY <3>2
        <4>2. g[i - 1] = x BY <2>2, <4>1
        <4> HIDE DEF g
        <4> QED BY <1>0, <2>1, <3>2, <4>1, <4>2
      <3> QED BY <3>1, <3>2
    <2>4. g = [i \in 1 .. 2 |-> g[i]] OBVIOUS
    <2> HIDE DEF g
    <2>5. g = [i \in 1 .. Len(s) |-> IF i = 1 THEN s[i] ELSE g[i-1] \o s[i]] BY <1>0, <2>3, <2>4
    <2> QED BY <2>5
  <1>4. F = [i \in 1 .. Len(s) |-> IF i = 1 THEN s[i] ELSE F[i-1] \o s[i]] BY <1>3
  <1> HIDE DEF F
  <1>5. F[1] = x BY <1>0, <1>4
  <1>6. F[2] = x \o y
    <2>1. 2 \in 1 .. Len(s) /\ ~(2 = 1) /\ 2 - 1 = 1 BY <1>0
    <2>2. F[2] = IF 2 = 1 THEN s[2] ELSE F[2 - 1] \o s[2] BY <1>4, <2>1
    <2>3. F[2] = F[2 - 1] \o s[2] BY <2>1, <2>2
    <2>4. F[2 - 1] = x BY <1>5, <2>1
    <2> QED BY <1>0, <2>3, <2>4
  <1>8. FlattenSeq(s) = x \o y BY <1>0, <1>2, <1>6
  <1> QED BY <1>8 DEF s

(* An event of a batch is one of wal.                                      *)
LEMMA ProperBatch ==
  ASSUME Inv, Told(rows, wal), AtHand, NEW m \in DOMAIN batch
  PROVE  /\ m \in Nat /\ m \in 1 .. Len(wal) /\ batch[m] = wal[m] /\ arrival[m] = m
         /\ \E k \in Keys : Proper(batch[m], k)
         /\ RowOf(batch[m]) # NoRow
  <1>1. m \in 1 .. Len(wal) /\ Len(wal) \in Nat BY DEF Inv, Behind, Positions
  <1>2. batch[m] = wal[m] /\ arrival[m] = m BY DEF AtHand
  <1>3. \E k \in Keys : Proper(batch[m], k) BY <1>1, <1>2 DEF Told
  <1>4. RowOf(batch[m]) # NoRow BY <1>3 DEF Proper
  <1> QED BY <1>1, <1>2, <1>3, <1>4

(* A group starts with all its deltas, in line.                            *)
LEMMA GroupStarts ==
  ASSUME Inv, Dated, Told(rows, wal), AtHand, BadVals = {}, StartGroup
  PROVE  \E g \in SUBSET todo :
           /\ group' = g /\ todo' = todo \ g /\ group = {} /\ pc = "handling" /\ g # {}
           /\ UNCHANGED <<policy, store, batch, arrival, pc, applied, failed>>
           /\ \E w : work' = w /\ InLine(w, g) /\ AllLeft(w, g)
           /\ \A m \in g : \A n \in todo \ g : m < n
           /\ \A n \in todo \ g : GroupOf(n) \subseteq todo \ g
  <1>1. PICK m \in todo :
          /\ First(m)
          /\ IF \E n \in GroupOf(m) : TransformRaises(batch[n])
               THEN Raise /\ UNCHANGED <<store, failed>>
               ELSE /\ group' = GroupOf(m)
                    /\ todo' = todo \ GroupOf(m)
                    /\ LET ms == InOrder(GroupOf(m))
                       IN  work' = FlattenSeq([i \in DOMAIN ms |-> DeltasOf(ms[i])])
                    /\ UNCHANGED <<policy, store, batch, arrival, pc, applied, failed>>
    BY DEF StartGroup
  <1>2. pc = "handling" /\ group = {} BY DEF StartGroup
  <1>3. /\ GroupOf(m) = {m} \/ (GroupOf(m) = {m, m + 1} /\ m + 1 \in todo)
        /\ \A g \in GroupOf(m) : \A n \in todo \ GroupOf(m) : g < n
    BY <1>1, FirstGroup
  <1>4. ~\E n \in GroupOf(m) : TransformRaises(batch[n]) BY DEF TransformRaises
  <1>5. todo \subseteq DOMAIN batch BY DEF Inv, Behind
  <1>6. /\ m \in Nat /\ arrival[m] = m /\ RowOf(batch[m]) # NoRow
        /\ InLine(DeltasOf(m), {m}) /\ AllLeft(DeltasOf(m), {m})
    BY <1>5, ProperBatch, OneLine
  <1>7. PICK w : w = FlattenSeq([i \in DOMAIN InOrder(GroupOf(m)) |-> DeltasOf(InOrder(GroupOf(m))[i])])
    OBVIOUS
  <1>8. InLine(w, GroupOf(m)) /\ AllLeft(w, GroupOf(m))
    <2>1. CASE GroupOf(m) = {m}
      <3>1. [i \in DOMAIN InOrder({m}) |-> DeltasOf(InOrder({m})[i])] = [i \in 1 .. 1 |-> DeltasOf(m)]
        BY OneInOrder
      <3>2. w = DeltasOf(m) BY <1>7, <2>1, <3>1, FlattenOne
      <3> QED BY <1>6, <2>1, <3>2
    <2>2. CASE GroupOf(m) = {m, m + 1} /\ m + 1 \in todo
      <3>1. PICK n \in todo : n = m + 1 BY <2>2
      <3>2. /\ n \in Nat /\ arrival[n] = n
            /\ InLine(DeltasOf(n), {n}) /\ AllLeft(DeltasOf(n), {n})
        BY <1>5, ProperBatch, OneLine
      <3>3. m < n BY <1>6, <3>1
      <3>4. InOrder({m, n}) = [i \in 1 .. 2 |-> IF i = 1 THEN m ELSE n] BY <1>6, <3>2, <3>3, TwoInOrder
      <3>5. [i \in DOMAIN InOrder({m, n}) |-> DeltasOf(InOrder({m, n})[i])]
              = [i \in 1 .. 2 |-> IF i = 1 THEN DeltasOf(m) ELSE DeltasOf(n)]
        BY <3>4
      <3>6. w = DeltasOf(m) \o DeltasOf(n)
        <4>1. GroupOf(m) = {m, n} BY <2>2, <3>1
        <4>2. w = FlattenSeq([i \in DOMAIN InOrder({m, n}) |-> DeltasOf(InOrder({m, n})[i])])
          BY <1>7, <4>1
        <4>3. w = FlattenSeq([i \in 1 .. 2 |-> IF i = 1 THEN DeltasOf(m) ELSE DeltasOf(n)])
          BY <3>5, <4>2
        <4>4. PICK x, y : x = DeltasOf(m) /\ y = DeltasOf(n) OBVIOUS
        <4>5. w = FlattenSeq([i \in 1 .. 2 |-> IF i = 1 THEN x ELSE y]) BY <4>3, <4>4
        <4>6. w = x \o y BY <4>5, FlattenTwo
        <4> QED BY <4>4, <4>6
      <3> QED BY <1>6, <2>2, <3>1, <3>2, <3>3, <3>6, TwoLines
    <2> QED BY <1>3, <2>1, <2>2
  <1>9. ASSUME NEW n \in todo \ GroupOf(m) PROVE GroupOf(n) \subseteq todo \ GroupOf(m)
    <2>1. GroupOf(n) \subseteq todo BY DEF AtHand
    <2> SUFFICES ASSUME NEW x \in GroupOf(n), x \in GroupOf(m) PROVE FALSE BY <2>1
    <2>2. CASE batch[n].tid = NoTid
      <3>1. x = n BY <2>2 DEF GroupOf
      <3> QED BY <3>1
    <2>3. CASE batch[m].tid = NoTid /\ batch[n].tid # NoTid
      <3>1. x = m /\ batch[x].tid = batch[n].tid BY <2>3 DEF GroupOf, SameTxn
      <3> QED BY <2>3, <3>1
    <2>4. CASE batch[m].tid # NoTid /\ batch[n].tid # NoTid
      <3>1. batch[x].tid = batch[n].tid /\ batch[x].tid = batch[m].tid BY <2>4 DEF GroupOf, SameTxn
      <3>2. n \in GroupOf(m) BY <1>5, <2>4, <3>1 DEF GroupOf, SameTxn
      <3> QED BY <3>2
    <2> QED BY <2>2, <2>3, <2>4
  <1>10. GroupOf(m) \subseteq todo /\ GroupOf(m) # {} BY <1>3
  <1>11. /\ group' = GroupOf(m) /\ todo' = todo \ GroupOf(m) /\ work' = w
         /\ UNCHANGED <<policy, store, batch, arrival, pc, applied, failed>>
    BY <1>1, <1>4, <1>7
  <1> QED BY <1>2, <1>3, <1>8, <1>9, <1>10, <1>11

(* The work left is that of the group, in order.                           *)
Ready == AtHand /\ InLine(work, group)

LEMMA NoWork == ASSUME NEW g PROVE InLine(<<>>, g)
  <1>1. PICK e : e = <<>> OBVIOUS
  <1>2. DOMAIN e = {} /\ \E S : e \in Seq(S) BY <1>1
  <1>3. InLine(e, g) BY <1>2 DEF InLine
  <1> QED BY <1>1, <1>3

(* At first nothing is in hand.                                            *)
LEMMA ReadyInit == Init => Ready
  <1> SUFFICES ASSUME Init PROVE Ready OBVIOUS
  <1>1. /\ todo = {} /\ group = {} /\ work = <<>> /\ DOMAIN batch = {} /\ pc = "idle"
        /\ process = "down" /\ slot = NoSlot
    BY NoMessages DEF Init, HandlerInit
  <1>2. AtHand BY <1>1 DEF AtHand, Hand
  <1> QED BY <1>1, <1>2, NoWork DEF Ready

(* What is in line stays so while the batch stays.                         *)
LEMMA SameLine ==
  ASSUME NEW w, NEW g, InLine(w, g), batch' = batch, work' = w, group' = g
  PROVE  InLine(work, group)'
  <1>1. \A m, id : Item(m, id)' = Item(m, id) BY DEF Item
  <1>2. \A v, m, id : (\E i \in DOMAIN v : v[i] = Item(m, id)') <=> Left(v, m, id) BY <1>1 DEF Left
  <1>3. \A m, id : Left(work, m, id)' <=> Left(w, m, id) BY <1>1 DEF Left
  <1> QED BY <1>1, <1>3 DEF InLine

(* A step that forgets the batch has nothing in hand.                      *)
LEMMA ReadyForgets ==
  ASSUME Forget, process' # "down" => loaded', process' = "down" => pc' = "idle",
         (slot # NoSlot => base <= slot)'
  PROVE  Ready'
  <1>1. todo' = {} /\ group' = {} /\ work' = <<>> /\ DOMAIN batch' = {} BY NoMessages DEF Forget
  <1>2. Hand' = {} BY <1>1 DEF Hand
  <1>3. AtHand' BY <1>1, <1>2 DEF AtHand
  <1>4. PICK e : e = <<>> /\ work' = e BY <1>1
  <1>5. DOMAIN e = {} /\ \E S : e \in Seq(S) BY <1>1, <1>4
  <1>6. InLine(work, group)' BY <1>4, <1>5, <1>1 DEF InLine
  <1> QED BY <1>3, <1>6 DEF Ready

(* The handler takes events in order and drops none.                       *)
LEMMA ReadyHandle ==
  ASSUME Inv, Dated, Told(rows, wal), BadVals = {}, Ready, Handle
  PROVE  Ready'
  <1> USE DEF Ready
  <1>1. UNCHANGED <<wal, slot, base, loaded, process>> /\ process # "down" BY DEF Handle, listenerVars
  <1>2. CASE StartGroup
    <2>1. PICK g \in SUBSET todo :
            /\ group' = g /\ todo' = todo \ g /\ group = {} /\ pc = "handling" /\ g # {}
            /\ UNCHANGED <<policy, store, batch, arrival, pc, applied, failed>>
            /\ \E w : work' = w /\ InLine(w, g) /\ AllLeft(w, g)
            /\ \A m \in g : \A n \in todo \ g : m < n
            /\ \A n \in todo \ g : GroupOf(n) \subseteq todo \ g
      BY <1>2, GroupStarts
    <2>2. Hand' = Hand BY <2>1 DEF Hand
    <2>3. \A n : GroupOf(n)' = GroupOf(n) BY <2>1 DEF GroupOf, SameTxn
    <2>4. InLine(work, group)' BY <2>1, SameLine
    <2>5. AtHand' BY <1>1, <2>1, <2>2, <2>3 DEF AtHand
    <2> QED BY <2>4, <2>5
  <1>3. CASE ApplyDelta
    <2>1. CASE Raise
      BY <1>1, <2>1, ReadyForgets DEF Raise, AtHand
    <2>2. CASE ~Raise
      <3>1. /\ work' = Tail(work) /\ work # <<>>
            /\ UNCHANGED <<policy, batch, arrival, todo, group, pc, applied>>
        BY <1>3, <2>2 DEF ApplyDelta
      <3>2. group \in SUBSET Nat
        <4>1. group \subseteq DOMAIN batch BY DEF Inv, Behind
        <4> QED BY <4>1, ProperBatch
      <3>3. InLine(Tail(work), group) BY <3>1, <3>2, LineShrinks
      <3>4. InLine(work, group)' BY <3>1, <3>3, SameLine
      <3>5. \A n : GroupOf(n)' = GroupOf(n) BY <3>1 DEF GroupOf, SameTxn
      <3>6. group # {}
        <4>1. PICK i \in DOMAIN work : TRUE BY <3>1 DEF InLine
        <4> QED BY <4>1 DEF InLine
      <3>7. Hand' = Hand BY <3>1 DEF Hand
      <3>8. AtHand' BY <1>1, <3>1, <3>5, <3>6, <3>7 DEF AtHand
      <3> QED BY <3>4, <3>8
    <2> QED BY <2>1, <2>2
  <1>4. CASE FinishGroup
    <2>1. /\ group # {} /\ work = <<>> /\ group' = {} /\ applied' = applied \cup group
          /\ UNCHANGED <<batch, arrival, todo, work>>
      BY <1>4 DEF FinishGroup
    <2>2. Hand' = todo BY <2>1 DEF Hand
    <2>3. \A n : GroupOf(n)' = GroupOf(n) BY <2>1 DEF GroupOf, SameTxn
    <2>4. todo \cup group \subseteq DOMAIN batch BY DEF Inv, Behind
    <2>5. \A i \in todo \cup group : i \in Nat BY <2>4, ProperBatch
    <2>6. ASSUME NEW i \in todo, NEW j \in i .. slot PROVE j \in todo
      <3>1. j \in Hand BY DEF AtHand, Hand
      <3>2. \A g \in group : g < i /\ g \in Nat /\ i \in Nat BY <2>5 DEF AtHand
      <3>3. j \notin group
        <4> SUFFICES ASSUME j \in group PROVE FALSE OBVIOUS
        <4>1. j < i /\ j \in Nat /\ i \in Nat BY <3>2
        <4>2. i <= j OBVIOUS
        <4> QED BY <4>1, <4>2
      <3> QED BY <3>1, <3>3 DEF Hand
    <2>7. todo \cap group = {}
      <3> SUFFICES ASSUME NEW i \in todo, i \in group PROVE FALSE OBVIOUS
      <3>1. i < i /\ i \in Nat BY <2>5 DEF AtHand
      <3> QED BY <3>1
    <2>8. Hand' \cap applied' = {} BY <2>1, <2>2, <2>7 DEF AtHand, Hand
    <2>9. \A i \in todo : base < i BY DEF AtHand, Hand
    <2>10. todo # {} => slot # NoSlot BY DEF AtHand, Hand
    <2>11. AtHand' BY <1>1, <2>1, <2>2, <2>3, <2>6, <2>8, <2>9, <2>10 DEF AtHand
    <2>12. InLine(work, group)'
      <3>1. InLine(<<>>, {}) BY NoWork
      <3> QED BY <2>1, <3>1, SameLine
    <2> QED BY <2>11, <2>12
  <1> QED BY <1>2, <1>3, <1>4 DEF Handle, HandlerStep

(* A poll's events are all those behind the slot, up to where it moves.    *)
LEMMA Polled ==
  ASSUME Inv, Ready, Poll
  PROVE  \E upto \in Nat :
           /\ slot \in Nat /\ slot # NoSlot /\ slot < upto /\ upto <= Len(wal) /\ Len(wal) \in Nat
           /\ slot' = upto /\ Hand = {} /\ group = {} /\ process = "running"
           /\ todo' = (slot + 1) .. upto /\ group' = {} /\ work' = <<>> /\ pc' = "handling"
           /\ DOMAIN batch' = (slot + 1) .. upto
           /\ \A i \in (slot + 1) .. upto : batch'[i] = wal[i] /\ arrival'[i] = i
           /\ UNCHANGED <<rows, emitted, wal, boundaries, loaded, base, process, policy, store, applied, failed>>
  <1>1. PICK upto \in boundaries : PollUpTo(upto) /\ slot' = upto BY DEF Poll
  <1>2. PICK polled : polled = (slot + 1) .. upto OBVIOUS
  <1>3. /\ process = "running" /\ pc = "idle" /\ slot # NoSlot /\ upto > slot
        /\ BeginBatch([i \in polled |-> wal[i]], [i \in polled |-> i])
        /\ UNCHANGED <<rows, emitted, wal, boundaries, loaded, base, process>>
    BY <1>1, <1>2 DEF PollUpTo, sourceVars
  <1>4. /\ DOMAIN batch' = polled /\ todo' = polled /\ pc' = "handling"
        /\ \A i \in polled : batch'[i] = wal[i] /\ arrival'[i] = i
        /\ UNCHANGED <<policy, store, group, work, applied, failed>>
    <2>1. PICK b, a : b = [i \in polled |-> wal[i]] /\ a = [i \in polled |-> i] OBVIOUS
    <2>2. DOMAIN b = polled /\ \A i \in polled : b[i] = wal[i] /\ a[i] = i BY <2>1
    <2> QED BY <1>3, <2>1, <2>2 DEF BeginBatch
  <1>5. todo = {} /\ group = {} /\ work = <<>> BY <1>3 DEF Inv, Quiet, Ready, AtHand
  <1>6. slot \in Nat /\ upto \in Nat /\ upto <= Len(wal) /\ Len(wal) \in Nat
    BY <1>3 DEF Inv, Positions
  <1> QED BY <1>1, <1>2, <1>3, <1>4, <1>5, <1>6 DEF Hand

(* A poll leaves no gap.                                                   *)
LEMMA ReadyPoll ==
  ASSUME Inv, Ready, Poll
  PROVE  Ready'
  <1>1. PICK upto \in Nat :
           /\ slot \in Nat /\ slot # NoSlot /\ slot < upto /\ upto <= Len(wal) /\ Len(wal) \in Nat
           /\ slot' = upto /\ Hand = {} /\ group = {} /\ process = "running"
           /\ todo' = (slot + 1) .. upto /\ group' = {} /\ work' = <<>> /\ pc' = "handling"
           /\ DOMAIN batch' = (slot + 1) .. upto
           /\ \A i \in (slot + 1) .. upto : batch'[i] = wal[i] /\ arrival'[i] = i
           /\ UNCHANGED <<rows, emitted, wal, boundaries, loaded, base, process, policy, store, applied, failed>>
    BY Polled
  <1>2. Hand' = (slot + 1) .. upto BY <1>1 DEF Hand
  <1>3. base <= slot /\ base \in Nat BY <1>1 DEF Ready, AtHand, Inv, Positions
  <1>4. ASSUME NEW i \in Hand' PROVE base' < i /\ \A j \in i .. slot' : j \in Hand'
    <2>1. base < i BY <1>1, <1>2, <1>3
    <2>2. \A j \in i .. upto : j \in (slot + 1) .. upto BY <1>1, <1>2
    <2> QED BY <1>1, <1>2, <2>1, <2>2
  <1>5. Hand' \cap applied' = {}
    <2> SUFFICES ASSUME NEW i \in Hand', i \in applied PROVE FALSE BY <1>1
    <2>1. i <= slot BY <1>1 DEF Inv, Behind
    <2>2. slot + 1 <= i /\ i \in Nat BY <1>1, <1>2
    <2> QED BY <1>1, <2>1, <2>2
  <1>6. \A n \in todo' : GroupOf(n)' \subseteq todo' BY <1>1 DEF GroupOf, SameTxn
  <1>7. base' <= slot' BY <1>1, <1>3
  <1>8. upto # NoSlot BY SlotAssumption
  <1>9. AtHand' BY <1>1, <1>4, <1>5, <1>6, <1>7, <1>8 DEF AtHand, Ready
  <1>10. InLine(work, group)'
    <2>1. PICK e : e = <<>> /\ work' = e BY <1>1
    <2>2. DOMAIN e = {} /\ \E S : e \in Seq(S) BY <2>1
    <2> QED BY <2>1, <2>2 DEF InLine
  <1> QED BY <1>9, <1>10 DEF Ready

(* Every step keeps what is in hand in order.                              *)
LEMMA ReadyNext ==
  ASSUME Inv, Dated, Told(rows, wal), BadVals = {}, OnlyKinds, Ready, [Next]_vars
  PROVE  Ready'
  <1> USE DEF Ready
  <1>1. CASE Poll BY <1>1, ReadyPoll
  <1>2. CASE Handle BY <1>2, ReadyHandle
  <1>3. CASE NextPoll \/ CatchError \/ Crash
    <2>1. Forget /\ pc' = "idle" /\ UNCHANGED <<slot, base, loaded>> /\ process # "down"
      BY <1>3 DEF NextPoll, CatchError, Crash, DropBatch, listenerVars
    <2>2. loaded /\ (slot # NoSlot => base <= slot) BY <2>1 DEF AtHand
    <2> QED BY <2>1, <2>2, ReadyForgets
  <1>4. ASSUME UNCHANGED <<batch, arrival, todo, group, work, pc, applied>>,
               process' # "down" => loaded', process' = "down" => pc = "idle",
               (slot # NoSlot => base <= slot)',
               \A i \in DOMAIN batch : wal'[i] = wal[i],
               UNCHANGED <<slot, base>> \/ Hand = {}
        PROVE  Ready'
    <2>1. \A n : GroupOf(n)' = GroupOf(n) BY <1>4 DEF GroupOf, SameTxn
    <2>2. Hand' = Hand BY <1>4 DEF Hand
    <2>3. InLine(work, group)' BY <1>4, SameLine
    <2>4. Hand # {} => slot' # NoSlot BY <1>4 DEF AtHand
    <2>5. \A i \in Hand : base' < i /\ \A j \in i .. slot' : j \in Hand BY <1>4 DEF AtHand
    <2>6. AtHand' BY <1>4, <2>1, <2>2, <2>4, <2>5 DEF AtHand
    <2> QED BY <2>3, <2>6
  <1>5. CASE Commit
    <2>1. UNCHANGED <<batch, arrival, todo, group, work, pc, applied, slot, base, loaded, process>>
      BY <1>5 DEF Commit, handlerVars
    <2>2. Prefix(wal, wal') BY <1>5, CommitTells DEF Inv
    <2>3. \A i \in DOMAIN batch : wal'[i] = wal[i] BY <2>2 DEF Prefix, Inv, Behind
    <2>4. /\ (process # "down" => loaded) /\ (process = "down" => pc = "idle")
          /\ (slot # NoSlot => base <= slot)
      BY DEF AtHand
    <2> QED BY <1>4, <2>1, <2>3, <2>4
  <1>6. CASE Setup \/ Load \/ Start \/ Teardown
    <2>1. /\ UNCHANGED <<batch, arrival, todo, group, work, pc, applied, wal>>
          /\ process' # "down" => loaded'
          /\ process' = "down" => process = "down"
      BY <1>6 DEF Setup, Load, Start, Teardown, handlerVars, AtHand
    <2>2. (slot # NoSlot => base <= slot)'
      <3>1. CASE Setup
        BY <3>1 DEF Setup, CreateSlot, Inv, Positions
      <3>2. CASE Load
        BY <3>2 DEF Load, AtHand
      <3>3. CASE Start
        BY <3>3 DEF Start, CreateSlot, Inv, Positions, AtHand
      <3>4. CASE Teardown
        BY <3>4 DEF Teardown, DropSlot
      <3> QED BY <1>6, <3>1, <3>2, <3>3, <3>4
    <2>3. Hand = {}
      <3>1. CASE Setup BY <3>1 DEF Setup, AtHand
      <3>2. CASE Load \/ Start \/ Teardown
        <4>1. process = "down" BY <3>2 DEF Load, Start, Teardown, AtHand
        <4> QED BY <4>1 DEF AtHand, Inv, Quiet, Hand
      <3> QED BY <1>6, <3>1, <3>2
    <2>4. process = "down" => pc = "idle" BY DEF AtHand
    <2>5. \A i \in DOMAIN batch : wal'[i] = wal[i] BY <2>1
    <2> QED BY <1>4, <2>1, <2>2, <2>3, <2>4, <2>5
  <1>7. CASE PollLost
    <2>1. /\ UNCHANGED <<batch, arrival, todo, group, work, pc, applied, wal, base, loaded, process>>
          /\ pc = "idle" /\ slot # NoSlot /\ slot' \in boundaries /\ slot' > slot
      BY <1>7 DEF PollLost, handlerVars
    <2>2. Hand = {} BY <2>1 DEF Inv, Quiet, Hand
    <2>3. slot \in Nat /\ slot' \in Nat /\ base <= slot /\ base \in Nat
      BY <2>1 DEF Inv, Positions, AtHand
    <2>4. base' <= slot' BY <2>1, <2>3
    <2> QED BY <1>4, <2>1, <2>2, <2>4 DEF AtHand
  <1>8. CASE StopSignal \/ Exit \/ UNCHANGED vars
    <2>1. /\ UNCHANGED <<batch, arrival, todo, group, work, pc, applied, wal, slot, base, loaded>>
          /\ process' # "down" => loaded'
          /\ process' = "down" => pc = "idle"
      BY <1>8 DEF StopSignal, Exit, vars, handlerVars, listenerVars, AtHand
    <2> QED BY <1>4, <2>1 DEF AtHand
  <1> QED BY <1>1, <1>2, <1>3, <1>5, <1>6, <1>7, <1>8 DEF Next

(***************************************************************************)
(* What the target shows                                                   *)
(***************************************************************************)

(* Up to where the listener reads; whether what lies behind is handled or  *)
(* in hand; what it has in hand of a document; and the place o of wal      *)
(* whose row a document shows.                                             *)
Reached == IF slot = NoSlot THEN Len(wal) ELSE slot
Whole == \A i \in (base + 1) .. Reached : i \in applied \cup Hand
Pending(o, id) == o \in todo \/ (o \in group /\ Left(work, o, id))
Touches(o, id) == o \in 1 .. Len(wal) /\ id \in IdsOfRow(RowOf(wal[o]))
UpTo(o, id) == \A j \in (o + 1) .. Reached : Touches(j, id) => Pending(j, id)
ShowsAt(k, id, o, row) ==
  UpTo(o, id) /\ Stood(wal, k, None, o, row) /\ SameBody(store[id], View(row, id))

Calm == loaded /\ Whole /\ failed = {} /\ policy # "fail"
Shows ==
  /\ \A k \in Keys : \A id \in IdsOf(k) :
       \E o \in 0 .. Len(wal) : \E row \in RowsOf(k) : ShowsAt(k, id, o, row)
  /\ \A id \in DocIds \ (Nodes \cup Edges) : store[id] = NoDoc
Faithful == Calm => Shows

(* A step that applies nothing.                                            *)
LEMMA ShowsKept ==
  ASSUME Shows, UNCHANGED store, Prefix(wal, wal'), Reached' \in Nat,
         \A j \in 1 .. Reached' : \A id :
           Touches(j, id)' => Pending(j, id)' \/ (j \in 1 .. Reached /\ Touches(j, id) /\ ~Pending(j, id))
  PROVE  Shows'
  <1>1. ASSUME NEW k \in Keys, NEW id \in IdsOf(k)
        PROVE  \E o \in 0 .. Len(wal') : \E row \in RowsOf(k) : ShowsAt(k, id, o, row)'
    <2>1. PICK o \in 0 .. Len(wal), row \in RowsOf(k) : ShowsAt(k, id, o, row) BY DEF Shows
    <2>2. o \in 0 .. Len(wal') /\ o \in Nat BY DEF Prefix
    <2>3. Stood(wal', k, None, o, row) BY <2>1, StoodBefore DEF ShowsAt
    <2>4. UpTo(o, id) BY <2>1 DEF ShowsAt
    <2>5. ASSUME NEW j \in (o + 1) .. Reached', Touches(j, id)' PROVE Pending(j, id)'
      <3>1. j \in 1 .. Reached' BY <2>2
      <3>2. CASE j \in 1 .. Reached /\ Touches(j, id) /\ ~Pending(j, id)
        <4>1. j \in (o + 1) .. Reached BY <2>2, <3>2
        <4> QED BY <2>4, <3>2, <4>1 DEF UpTo
      <3> QED BY <2>5, <3>1, <3>2
    <2>6. UpTo(o, id)' BY <2>5 DEF UpTo
    <2>7. SameBody(store'[id], View(row, id)) BY <2>1 DEF ShowsAt
    <2>8. ShowsAt(k, id, o, row)' BY <2>3, <2>6, <2>7 DEF ShowsAt
    <2> QED BY <2>2, <2>8
  <1>2. \A id \in DocIds \ (Nodes \cup Edges) : store'[id] = NoDoc BY DEF Shows
  <1> QED BY <1>1, <1>2 DEF Shows

(* The initial load.                                                       *)
LEMMA ShowsLoaded ==
  ASSUME Inv, Told(rows, wal), Load
  PROVE  Shows'
  <1>1. store' = Image(rows) /\ UNCHANGED <<wal, slot>> BY DEF Load
  <1>2. rows \in Tables BY DEF Told
  <1>3. Len(wal) \in Nat /\ Reached' \in Nat /\ Reached' <= Len(wal)
    BY <1>1 DEF Reached, Inv, Positions
  <1>4. ASSUME NEW k \in Keys, NEW id \in IdsOf(k)
        PROVE  \E o \in 0 .. Len(wal') : \E row \in RowsOf(k) : ShowsAt(k, id, o, row)'
    <2>1. PICK n, row : n = Len(wal) /\ row = rows[k] OBVIOUS
    <2>2. Stood(wal', k, None, n, row) BY <1>1, <2>1 DEF Told
    <2>3. row \in RowsOf(k) /\ n \in 0 .. Len(wal') BY <1>1, <1>2, <1>3, <2>1, RowOfTable
    <2>4. store'[id] = View(row, id) BY <1>1, <1>2, <2>1, ImageIsView
    <2>5. SameBody(store'[id], View(row, id)) BY <2>4 DEF SameBody
    <2>6. \A j \in (n + 1) .. Reached' : FALSE BY <1>3, <2>1
    <2>7. UpTo(n, id)' BY <2>6 DEF UpTo
    <2>8. ShowsAt(k, id, n, row)' BY <2>2, <2>5, <2>7 DEF ShowsAt
    <2> QED BY <2>3, <2>8
  <1>5. \A id \in DocIds \ (Nodes \cup Edges) : store'[id] = NoDoc BY <1>1, <1>2, ImageIsView
  <1> QED BY <1>4, <1>5 DEF Shows

(* Taking a group makes its deltas pending.                                *)
LEMMA FaithfulStart ==
  ASSUME Inv, Dated, Told(rows, wal), BadVals = {}, Ready, Faithful, Handle, StartGroup
  PROVE  Faithful'
  <1>1. PICK g \in SUBSET todo :
          /\ group' = g /\ todo' = todo \ g /\ group = {}
          /\ UNCHANGED <<policy, store, batch, arrival, pc, applied, failed>>
          /\ \E w : work' = w /\ InLine(w, g) /\ AllLeft(w, g)
    BY GroupStarts DEF Ready
  <1>2. UNCHANGED <<wal, slot, base, loaded>> BY DEF Handle, listenerVars
  <1>3. Hand' = Hand BY <1>1 DEF Hand
  <1>4. Calm' <=> Calm BY <1>1, <1>2, <1>3 DEF Calm, Whole, Reached
  <1>5. ASSUME NEW j, NEW id, Touches(j, id), Pending(j, id) PROVE Pending(j, id)'
    <2>1. j \in todo BY <1>1, <1>5 DEF Pending
    <2>2. CASE j \in g
      <3>1. j \in DOMAIN batch BY <2>1 DEF Inv, Behind
      <3>2. batch[j] = wal[j] BY <3>1 DEF Ready, AtHand
      <3>3. PICK w : work' = w /\ AllLeft(w, g) BY <1>1
      <3>4. Left(w, j, id) BY <1>5, <2>2, <3>2, <3>3 DEF Touches, AllLeft
      <3>5. Item(j, id)' = Item(j, id) BY <1>1 DEF Item
      <3>6. Left(work, j, id)' BY <3>3, <3>4, <3>5 DEF Left
      <3> QED BY <1>1, <2>2, <3>6 DEF Pending
    <2> QED BY <1>1, <2>1, <2>2 DEF Pending
  <1>6. \A j, id : Touches(j, id)' <=> Touches(j, id) BY <1>2 DEF Touches
  <1>7. Reached' = Reached /\ Reached \in Nat /\ Prefix(wal, wal')
    BY <1>2 DEF Reached, Inv, Positions, Prefix
  <1>8. \A j \in 1 .. Reached' : \A id :
           Touches(j, id)' => Pending(j, id)' \/ (j \in 1 .. Reached /\ Touches(j, id) /\ ~Pending(j, id))
    BY <1>5, <1>6, <1>7
  <1>9. Calm => Shows' BY <1>1, <1>7, <1>8, ShowsKept DEF Faithful
  <1> QED BY <1>4, <1>9 DEF Faithful

(* A group with no deltas left owes nothing.                               *)
LEMMA FaithfulFinish ==
  ASSUME Inv, Faithful, Handle, FinishGroup
  PROVE  Faithful'
  <1>1. /\ UNCHANGED <<wal, slot, base, loaded, policy, store, failed, todo, work, batch>>
        /\ work = <<>> /\ applied' = applied \cup group /\ group' = {}
    BY DEF Handle, listenerVars, FinishGroup
  <1>2. applied' \cup Hand' = applied \cup Hand BY <1>1 DEF Hand
  <1>3. Calm' <=> Calm BY <1>1, <1>2 DEF Calm, Whole, Reached
  <1>4. \A j, id : ~Left(work, j, id) BY <1>1 DEF Left
  <1>5. \A j, id : Pending(j, id) => Pending(j, id)' BY <1>1, <1>4 DEF Pending
  <1>6. \A j, id : Touches(j, id)' <=> Touches(j, id) BY <1>1 DEF Touches
  <1>7. Reached' = Reached /\ Reached \in Nat /\ Prefix(wal, wal')
    BY <1>1 DEF Reached, Inv, Positions, Prefix
  <1>8. \A j \in 1 .. Reached' : \A id :
           Touches(j, id)' => Pending(j, id)' \/ (j \in 1 .. Reached /\ Touches(j, id) /\ ~Pending(j, id))
    BY <1>5, <1>6, <1>7
  <1>9. Calm => Shows' BY <1>1, <1>7, <1>8, ShowsKept DEF Faithful
  <1> QED BY <1>3, <1>9 DEF Faithful

(* New events are pending.                                                 *)
LEMMA FaithfulPoll ==
  ASSUME Inv, Ready, Faithful, Poll
  PROVE  Faithful'
  <1>1. PICK upto \in Nat :
           /\ slot \in Nat /\ slot # NoSlot /\ slot < upto /\ upto <= Len(wal) /\ Len(wal) \in Nat
           /\ slot' = upto /\ Hand = {} /\ group = {} /\ process = "running"
           /\ todo' = (slot + 1) .. upto /\ group' = {} /\ work' = <<>> /\ pc' = "handling"
           /\ DOMAIN batch' = (slot + 1) .. upto
           /\ \A i \in (slot + 1) .. upto : batch'[i] = wal[i] /\ arrival'[i] = i
           /\ UNCHANGED <<rows, emitted, wal, boundaries, loaded, base, process, policy, store, applied, failed>>
    BY Polled
  <1>2. Reached = slot /\ Reached' = upto BY <1>1, SlotAssumption DEF Reached
  <1>3. Hand' = (slot + 1) .. upto BY <1>1 DEF Hand
  <1>4. base \in Nat BY <1>1 DEF Inv, Positions
  <1>5. Whole' => Whole
    <2> SUFFICES ASSUME Whole', NEW i \in (base + 1) .. slot PROVE i \in applied \cup Hand
      BY <1>2 DEF Whole
    <2>1. i \in (base' + 1) .. Reached' /\ i \notin (slot + 1) .. upto BY <1>1, <1>2, <1>4
    <2> QED BY <1>1, <1>3, <2>1 DEF Whole
  <1>6. Calm' => Calm BY <1>1, <1>5 DEF Calm
  <1>7. \A j, id : ~Pending(j, id) BY <1>1 DEF Pending, Hand
  <1>8. \A j, id : Touches(j, id)' <=> Touches(j, id) BY <1>1 DEF Touches
  <1>9. ASSUME NEW j \in 1 .. Reached', NEW id, Touches(j, id)'
        PROVE  Pending(j, id)' \/ (j \in 1 .. Reached /\ Touches(j, id) /\ ~Pending(j, id))
    <2>1. j \in 1 .. slot \/ j \in (slot + 1) .. upto BY <1>1, <1>2
    <2>2. CASE j \in 1 .. slot BY <1>2, <1>7, <1>8, <1>9, <2>2
    <2>3. CASE j \in (slot + 1) .. upto BY <1>1, <2>3 DEF Pending
    <2> QED BY <2>1, <2>2, <2>3
  <1>10. Reached' \in Nat /\ Prefix(wal, wal') BY <1>1, <1>2 DEF Prefix
  <1>11. Calm => Shows' BY <1>1, <1>9, <1>10, ShowsKept DEF Faithful
  <1> QED BY <1>6, <1>11 DEF Faithful

(* Events the slot holds owe nothing yet; without a slot they are lost.    *)
LEMMA FaithfulCommit ==
  ASSUME Inv, Dated, Told(rows, wal), OnlyKinds, Ready, Faithful, Commit
  PROVE  Faithful'
  <1>1. UNCHANGED <<policy, store, failed, batch, todo, group, work, applied, slot, base, loaded>>
    BY DEF Commit, handlerVars
  <1>2. Prefix(wal, wal') /\ Len(wal) < Len(wal') BY CommitTells DEF Inv
  <1>3. Len(wal) \in Nat /\ Len(wal') \in Nat /\ base \in 0 .. Len(wal) BY <1>2 DEF Prefix, Inv, Positions
  <1>4. CASE slot = NoSlot
    <2>1. ~Whole'
      <3>1. Reached' = Len(wal') BY <1>1, <1>4 DEF Reached
      <3>2. Len(wal') \in (base' + 1) .. Reached' BY <1>1, <1>2, <1>3, <3>1
      <3>3. applied \cup Hand \subseteq 1 .. Len(wal) BY DEF Inv, Behind, Hand
      <3>4. Hand' = Hand BY <1>1 DEF Hand
      <3>5. Len(wal') \notin 1 .. Len(wal) BY <1>2, <1>3
      <3> QED BY <1>1, <3>2, <3>3, <3>4, <3>5 DEF Whole
    <2> QED BY <2>1 DEF Faithful, Calm
  <1>5. CASE slot # NoSlot
    <2>1. Reached' = Reached /\ Reached \in 0 .. Len(wal) BY <1>1, <1>5 DEF Reached, Inv, Positions
    <2>2. Hand' = Hand BY <1>1 DEF Hand
    <2>3. Calm' <=> Calm BY <1>1, <2>1, <2>2 DEF Calm, Whole
    <2>4. \A j, id : Item(j, id)' = Item(j, id) BY <1>1 DEF Item
    <2>5. \A j, id : Pending(j, id) => Pending(j, id)' BY <1>1, <2>4 DEF Pending, Left
    <2>6. ASSUME NEW j \in 1 .. Reached', NEW id, Touches(j, id)'
          PROVE  Pending(j, id)' \/ (j \in 1 .. Reached /\ Touches(j, id) /\ ~Pending(j, id))
      <3>1. j \in 1 .. Reached /\ j \in 1 .. Len(wal) BY <1>3, <2>1
      <3>2. wal'[j] = wal[j] BY <1>2, <3>1 DEF Prefix
      <3>3. Touches(j, id) BY <2>6, <3>1, <3>2 DEF Touches
      <3> QED BY <2>5, <3>1, <3>3
    <2>7. Reached' \in Nat BY <1>3, <2>1
    <2>8. Calm => Shows' BY <1>1, <1>2, <2>6, <2>7, ShowsKept DEF Faithful
    <2> QED BY <2>3, <2>8 DEF Faithful
  <1> QED BY <1>4, <1>5

(* Every id of a key is an id of the target.                               *)
LEMMA Inside == ASSUME NEW k \in Keys, NEW id \in IdsOf(k) PROVE id \in DocIds /\ id \in Nodes \cup Edges
  BY TargetAssumption DEF IdsOf, Nodes, Edges

(* A row touches ids of its own key only.                                  *)
LEMMA IdOfRow ==
  ASSUME NEW k \in Keys, NEW row \in RowsOf(k) \ {NoRow}, NEW id \in IdsOfRow(row)
  PROVE  id \in IdsOf(k) /\ \A h \in Keys : id \in IdsOf(h) => h = k
  <1>1. row \in Rows /\ row.key = k /\ row.fk \in Refs \cup {NoRef} BY DEF RowsOf, Rows
  <1>2. id = Node(k) \/ (row.fk \in Refs /\ id = Edge(k, row.fk)) BY <1>1 DEF IdsOfRow
  <1> QED BY <1>2, IdsDiffer DEF IdsOf

(* A step that neither applies nor hands out anything: what is in hand is  *)
(* kept, or, if it is let go, nothing was in hand or something is lost.    *)
LEMMA FaithfulMoved ==
  ASSUME Inv, Ready, BadVals = {}, Faithful,
         Setup \/ Start \/ PollLost \/ NextPoll \/ CatchError \/ StopSignal \/ Exit \/ Crash \/ Teardown
           \/ UNCHANGED vars
  PROVE  Faithful'
  <1>1. UNCHANGED <<wal, policy, store, failed, applied, loaded>>
    BY DEF Setup, Start, PollLost, NextPoll, CatchError, StopSignal, Exit, Crash, Teardown, DropBatch,
           vars, handlerVars, listenerVars
  <1> SUFFICES ASSUME Calm' PROVE Shows' BY DEF Faithful
  <1>2. loaded /\ failed = {} /\ policy # "fail" /\ Whole' BY <1>1 DEF Calm
  <1>3. base' = base BY <1>2 DEF Setup, Start, PollLost, NextPoll, CatchError, StopSignal, Exit, Crash,
                              Teardown, vars, listenerVars
  <1>4. Len(wal) \in Nat /\ base \in 0 .. Len(wal) /\ Reached \in 0 .. Len(wal)
    BY DEF Inv, Positions, Reached
  <1>5. applied \cup Hand \subseteq 1 .. Reached
    <2>1. ASSUME NEW i \in applied \cup Hand PROVE i \in 1 .. Len(wal) /\ (slot # NoSlot => i <= slot)
      BY DEF Inv, Behind, Hand
    <2> QED BY <1>4, <2>1 DEF Reached
  <1>6. \/ Hand' = Hand /\ UNCHANGED <<todo, group, work, batch>>
        \/ Hand = {} /\ Hand' = {}
    <2>1. CASE Setup \/ Start \/ PollLost \/ StopSignal \/ Exit \/ Teardown \/ UNCHANGED vars
      <3>1. UNCHANGED <<todo, group, work, batch>>
        BY <2>1 DEF Setup, Start, PollLost, StopSignal, Exit, Teardown, vars, handlerVars
      <3> QED BY <3>1 DEF Hand
    <2>2. CASE NextPoll
      BY <2>2 DEF NextPoll, Inv, Quiet, Hand, DropBatch, Forget
    <2>3. CASE CatchError
      <3>1. ~Gone BY <1>2 DEF Gone
      <3> QED BY <2>3, <3>1 DEF CatchError, Inv, Quiet
    <2>4. CASE Crash
      <3>1. Hand' = {} BY <2>4 DEF Crash, DropBatch, Forget, Hand
      <3>2. ASSUME NEW i \in Hand PROVE FALSE
        <4>1. slot # NoSlot /\ base < i /\ i \notin applied BY DEF Ready, AtHand
        <4>2. i \in 1 .. Reached /\ slot' = slot /\ Reached = slot /\ slot \in Nat
          BY <1>4, <1>5, <2>4, <4>1 DEF Crash, Reached, Hand
        <4>3. i \in (base + 1) .. Reached' BY <1>4, <4>1, <4>2 DEF Reached
        <4> QED BY <1>1, <1>2, <1>3, <3>1, <4>1, <4>3 DEF Whole
      <3> QED BY <3>1, <3>2
    <2> QED BY <2>1, <2>2, <2>3, <2>4
  <1>7. Hand' = Hand BY <1>6
  <1>8. Reached' = Reached
    <2>1. CASE Setup \/ Start
      BY <1>1, <2>1, SlotAssumption DEF Setup, Start, CreateSlot, Reached, Inv, Positions
    <2>2. CASE PollLost \/ Teardown
      <3>1. Reached' \in Nat /\ Reached <= Reached'
        <4>1. CASE PollLost
          <5>1. slot' \in boundaries /\ slot' > slot /\ slot # NoSlot BY <4>1 DEF PollLost
          <5>2. slot' \in Nat /\ slot \in Nat /\ slot' # NoSlot BY <5>1, SlotAssumption DEF Inv, Positions
          <5> QED BY <5>1, <5>2 DEF Reached
        <4>2. CASE Teardown
          BY <1>1, <1>4, <4>2 DEF Teardown, DropSlot, Reached
        <4> QED BY <2>2, <4>1, <4>2
      <3>2. base <= Reached
        BY <1>4 DEF Ready, AtHand, Reached
      <3>3. ASSUME Reached < Reached' PROVE FALSE
        <4>1. Reached' \in (base + 1) .. Reached' BY <1>4, <3>1, <3>2, <3>3
        <4>2. Reached' \in applied \cup Hand BY <1>1, <1>2, <1>3, <1>7, <4>1 DEF Whole
        <4>3. Reached' \in 1 .. Reached BY <1>5, <4>2
        <4> QED BY <1>4, <3>3, <4>3
      <3> QED BY <1>4, <3>1, <3>3
    <2>3. CASE NextPoll \/ CatchError \/ StopSignal \/ Exit \/ Crash \/ UNCHANGED vars
      BY <1>1, <2>3 DEF NextPoll, CatchError, StopSignal, Exit, Crash, vars, listenerVars, Reached
    <2> QED BY <2>1, <2>2, <2>3
  <1>9. Calm BY <1>1, <1>2, <1>3, <1>7, <1>8 DEF Calm, Whole
  <1>10. ASSUME NEW j, NEW id, Pending(j, id) PROVE Pending(j, id)'
    <2>1. j \in Hand BY <1>10 DEF Pending, Hand
    <2>2. UNCHANGED <<todo, group, work, batch>> BY <1>6, <2>1
    <2>3. Item(j, id)' = Item(j, id) BY <2>2 DEF Item
    <2> QED BY <1>10, <2>2, <2>3 DEF Pending, Left
  <1>11. \A j, id : Touches(j, id)' <=> Touches(j, id) BY <1>1 DEF Touches
  <1>12. \A j \in 1 .. Reached' : \A id :
           Touches(j, id)' => Pending(j, id)' \/ (j \in 1 .. Reached /\ Touches(j, id) /\ ~Pending(j, id))
    BY <1>8, <1>10, <1>11
  <1>13. Reached' \in Nat /\ Prefix(wal, wal') BY <1>1, <1>4, <1>8 DEF Prefix
  <1> QED BY <1>1, <1>9, <1>12, <1>13, ShowsKept DEF Faithful

(***************************************************************************)
(* Caught up                                                               *)
(***************************************************************************)

(* With nothing pending and nothing unread the target shows the table.     *)
LEMMA CaughtUpShows ==
  ASSUME Inv, Told(rows, wal), Ready, Faithful
  PROVE  CaughtUpMeansMirror
  <1> SUFFICES ASSUME CaughtUp, Lost = {}, failed = {}, policy # "fail" PROVE Mirror
    BY DEF CaughtUpMeansMirror
  <1>1. rows \in Tables BY DEF Told
  <1>2. loaded /\ Hand = {} BY DEF CaughtUp, Ready, AtHand, Inv, Quiet, Hand
  <1>3. slot = Len(wal) /\ Len(wal) \in Nat /\ slot # NoSlot /\ Reached = Len(wal)
    BY SlotAssumption DEF CaughtUp, Reached, Inv, Positions
  <1>4. Whole BY <1>2, <1>3 DEF Whole, Lost, Reached, Hand
  <1>5. Shows BY <1>2, <1>4 DEF Faithful, Calm
  <1>6. ASSUME NEW k \in Keys, NEW id \in IdsOf(k) PROVE SameBody(store[id], Image(rows)[id])
    <2>1. PICK o \in 0 .. Len(wal), row \in RowsOf(k) : ShowsAt(k, id, o, row) BY <1>5 DEF Shows
    <2>2. Tells(wal, k, None) /\ Stood(wal, k, None, Len(wal), rows[k]) BY DEF Told
    <2>3. UpTo(o, id) /\ Stood(wal, k, None, o, row) /\ SameBody(store[id], View(row, id))
      BY <2>1 DEF ShowsAt
    <2>4. ASSUME NEW j \in (o + 1) .. Len(wal), About(wal, j, k, None)
          PROVE  id \notin IdsOfRow(RowOf(wal[j]))
      <3>1. ~Pending(j, id) BY <1>2 DEF Pending, Hand
      <3>2. ~Touches(j, id) BY <1>3, <2>3, <2>4, <3>1 DEF UpTo
      <3>3. j \in 1 .. Len(wal) BY <1>3
      <3> QED BY <3>2, <3>3 DEF Touches
    <2>5. Len(wal) \in 0 .. Len(wal) /\ o <= Len(wal) BY <1>3
    <2>6. View(row, id) = View(rows[k], id) BY <1>3, <2>2, <2>3, <2>4, <2>5, StretchKept
    <2>7. View(rows[k], id) = Image(rows)[id] BY <1>1, ImageIsView
    <2> QED BY <2>3, <2>6, <2>7 DEF SameBody
  <1>7. ASSUME NEW id \in DocIds \ (Nodes \cup Edges) PROVE SameBody(store[id], Image(rows)[id])
    <2>1. store[id] = NoDoc /\ Image(rows)[id] = NoDoc BY <1>1, <1>5, ImageIsView DEF Shows
    <2> QED BY <2>1 DEF SameBody
  <1>8. \A id \in Nodes \cup Edges : \E k \in Keys : id \in IdsOf(k) BY DEF Nodes, Edges, IdsOf
  <1> QED BY <1>6, <1>7, <1>8 DEF Mirror

(* The document the current delta is about: it shows the event's row, or,  *)
(* after a conflict, what it showed.                                       *)
LEMMA ShowsAfter ==
  ASSUME Inv, Told(rows, wal), Ready, NEW m \in group,
         NEW id \in IdsOfRow(RowOf(batch[m])), NEW k \in Keys, id \in IdsOf(k), Left(work, m, id),
         NEW o \in 0 .. Len(wal), NEW row \in RowsOf(k), ShowsAt(k, id, o, row),
         UNCHANGED <<wal, slot, todo, group, batch>>,
         \A n : Left(work, n, id) => m <= n /\ (Left(work', n, id) \/ n = m),
         \A n \in group : id \in IdsOfRow(RowOf(batch[n])) /\ m < n => Left(work', n, id),
         \/ SameBody(store'[id], View(batch[m].new, id))
         \/ batch[m].op = "INSERT" /\ store'[id] = store[id] /\ store[id] # NoDoc
         \/ batch[m].op = "UPDATE" /\ store'[id] = store[id] /\ store[id] = NoDoc
  PROVE  \E r \in 0 .. Len(wal) : \E s \in RowsOf(k) : ShowsAt(k, id, r, s)'
  <1>0. m \in DOMAIN batch BY DEF Inv, Behind
  <1>1. /\ m \in Nat /\ m \in 1 .. Len(wal) /\ batch[m] = wal[m]
        /\ \E h \in Keys : Proper(batch[m], h)
    BY <1>0, ProperBatch DEF Ready
  <1>2. Proper(batch[m], k) BY <1>1, IdOfRow DEF Proper
  <1>3. PICK e : e = wal[m] /\ e = batch[m] BY <1>1
  <1>4. m \in Hand /\ slot # NoSlot BY DEF Ready, AtHand, Hand
  <1>5. Len(wal) \in Nat /\ Reached = slot /\ slot \in Nat /\ slot <= Len(wal) /\ m <= slot /\ o \in Nat
    <2>1. Len(wal) \in Nat /\ slot \in Nat /\ slot <= Len(wal) BY <1>4 DEF Inv, Positions
    <2>2. m <= slot BY <1>0, <1>4 DEF Inv, Behind
    <2> QED BY <1>4, <2>1, <2>2 DEF Reached
  <1>6. Tells(wal, k, None) BY DEF Told
  <1>7. RowOf(e) \in RowsOf(k) \ {NoRow} /\ About(wal, m, k, None)
    <2>1. RowOf(e) \in RowsOf(k) \ {NoRow} BY <1>2, <1>3 DEF Proper
    <2>2. RowOf(e).key = k BY <2>1 DEF RowsOf
    <2>3. wal[m] # None BY <1>1 DEF Told
    <2> QED BY <1>3, <2>1, <2>2, <2>3 DEF About
  <1>8. \A j : Touches(j, id)' <=> Touches(j, id) BY DEF Touches
  <1>9. Reached' = Reached BY DEF Reached
  <1>10. \A n : Left(work, n, id)' <=> Left(work', n, id)
    <2>1. \A n : Item(n, id)' = Item(n, id) BY DEF Item
    <2> QED BY <2>1 DEF Left
  <1>11. ASSUME NEW j, Pending(j, id), j # m PROVE Pending(j, id)' /\ m <= j
    <2>1. CASE j \in todo BY <1>0, <1>1, <2>1, ProperBatch DEF Pending, Ready, AtHand, Inv, Behind
    <2>2. CASE j \in group /\ Left(work, j, id) BY <1>10, <1>11, <2>2 DEF Pending
    <2> QED BY <1>11, <2>1, <2>2 DEF Pending
  <1>12. PICK q \in RowsOf(k) : Stood(wal, k, None, m - 1, q) /\ Legal(q, e)
    <2>1. m - 1 \in 0 .. Len(wal) /\ m - 1 < Len(wal) /\ (m - 1) + 1 = m BY <1>1, <1>5
    <2>2. PICK q \in RowsOf(k) :
            /\ Stood(wal, k, None, m - 1, q)
            /\ m - 1 < Len(wal) /\ About(wal, (m - 1) + 1, k, None) => Legal(q, wal[(m - 1) + 1])
      BY <1>6, <2>1 DEF Tells
    <2> QED BY <1>3, <1>7, <2>1, <2>2
  <1>13. CASE SameBody(store'[id], View(e.new, id))
    <2>1. PICK s \in RowsOf(k) : Stood(wal, k, None, m, s) BY <1>1, <1>5, <1>6 DEF Tells
    <2>2. s = e.new
      <3>1. s = wal[m].new BY <1>1, <1>5, <1>6, <1>7, <1>12, <2>1, ToldNext
      <3> QED BY <1>3, <3>1
    <2>3. ASSUME NEW j \in (m + 1) .. Reached, Touches(j, id) PROVE Pending(j, id)'
      <3>1. j \in m .. slot /\ m < j BY <1>1, <1>5
      <3>2. j \in Hand BY <1>4, <3>1 DEF Ready, AtHand
      <3>3. CASE j \in todo BY <3>3 DEF Pending
      <3>4. CASE j \in group
        <4>1. j \in DOMAIN batch BY <3>4 DEF Inv, Behind
        <4>2. batch[j] = wal[j] BY <4>1 DEF Ready, AtHand
        <4>3. Left(work', j, id) BY <2>3, <3>1, <3>4, <4>2 DEF Touches
        <4> QED BY <1>10, <3>4, <4>3 DEF Pending
      <3> QED BY <3>2, <3>3, <3>4 DEF Hand
    <2>4. UpTo(m, id)' BY <1>8, <1>9, <2>3 DEF UpTo
    <2>5. ShowsAt(k, id, m, s)' BY <1>13, <2>1, <2>2, <2>4 DEF ShowsAt
    <2>6. m \in 0 .. Len(wal) BY <1>1
    <2> QED BY <2>5, <2>6
  <1>14. CASE ~SameBody(store'[id], View(e.new, id))
    <2>1. UpTo(o, id) /\ Stood(wal, k, None, o, row) /\ SameBody(store[id], View(row, id))
      BY DEF ShowsAt
    <2>2. /\ store'[id] = store[id]
          /\ \/ e.op = "INSERT" /\ store[id] # NoDoc
             \/ e.op = "UPDATE" /\ store[id] = NoDoc
      BY <1>3, <1>14
    <2>3. ~(o < m)
      <3> SUFFICES ASSUME o < m PROVE FALSE OBVIOUS
      <3>1. PICK n : n = m - 1 /\ n \in 0 .. Len(wal) /\ o <= n BY <1>1, <1>5
      <3>2. ASSUME NEW j \in (o + 1) .. n, About(wal, j, k, None)
            PROVE  id \notin IdsOfRow(RowOf(wal[j]))
        <4>1. j \in (o + 1) .. Reached /\ j # m /\ ~(m <= j) /\ j \in 1 .. Len(wal) BY <1>1, <1>5, <3>1
        <4>2. ~Pending(j, id) BY <1>11, <4>1
        <4>3. ~Touches(j, id) BY <2>1, <4>1, <4>2 DEF UpTo
        <4> QED BY <4>1, <4>3 DEF Touches
      <3>3. View(row, id) = View(q, id)
        <4>1. Stood(wal, k, None, n, q) BY <1>12, <3>1
        <4> QED BY <1>5, <1>6, <2>1, <3>1, <3>2, <4>1, StretchKept
      <3>4. CASE e.op = "INSERT"
        <4>1. q = NoRow BY <1>12, <3>4 DEF Legal
        <4>2. View(q, id) = NoDoc BY <4>1 DEF View
        <4> QED BY <2>1, <2>2, <3>3, <3>4, <4>2 DEF SameBody
      <3>5. CASE e.op = "UPDATE"
        <4>1. q # NoRow /\ e.new.fk = q.fk /\ RowOf(e) = e.new BY <1>12, <3>5 DEF Legal, RowOf
        <4>2. q \in Rows /\ q.key = k /\ e.new.key = k BY <1>7, <4>1 DEF RowsOf
        <4>3. id \in IdsOfRow(q) BY <1>3, <4>1, <4>2 DEF IdsOfRow
        <4>4. View(q, id) \in {Doc(q), Doc(NoRow)} BY <4>1, <4>3 DEF View
        <4>5. Doc(q) # NoDoc /\ Doc(NoRow) # NoDoc BY <4>2, TargetAssumption DEF Doc
        <4> QED BY <2>1, <2>2, <3>3, <3>5, <4>4, <4>5 DEF SameBody
      <3> QED BY <2>2, <3>4, <3>5
    <2>4. ASSUME NEW j \in (o + 1) .. Reached, Touches(j, id) PROVE Pending(j, id)'
      <3>1. j # m BY <1>1, <1>5, <2>3
      <3> QED BY <1>11, <2>1, <2>4, <3>1 DEF UpTo
    <2>5. UpTo(o, id)' BY <1>8, <1>9, <2>4 DEF UpTo
    <2>6. ShowsAt(k, id, o, row)' BY <2>1, <2>2, <2>5 DEF ShowsAt
    <2> QED BY <2>6
  <1> QED BY <1>13, <1>14

(* A delta moves its document on, and no other.                            *)
LEMMA FaithfulApply ==
  ASSUME Inv, Told(rows, wal), Ready, Faithful, policy \in Policies, BadVals = {}, Handle, ApplyDelta
  PROVE  Faithful'
  <1>0. UNCHANGED <<wal, slot, base, loaded>> BY DEF Handle, listenerVars
  <1> SUFFICES ASSUME Calm' PROVE Shows' BY DEF Faithful
  <1>1. PICK o \in Resolve(Head(work)) :
           /\ store' = o.store
           /\ failed' = IF o.verdict = "failed" THEN failed \cup {Head(work).msg} ELSE failed
           /\ IF o.verdict = "failed" /\ policy = "fail"
                THEN Raise
                ELSE work' = Tail(work) /\ UNCHANGED <<policy, batch, arrival, todo, group, pc, applied>>
    BY DEF ApplyDelta
  <1>2. (policy # "fail")' /\ failed' = {} BY DEF Calm
  <1>3. /\ o.verdict # "failed" /\ failed = {} /\ work' = Tail(work)
        /\ UNCHANGED <<policy, batch, arrival, todo, group, pc, applied>>
    BY <1>1, <1>2 DEF Raise
  <1>4. policy \in GoesOn /\ policy # "fail" BY <1>2, <1>3 DEF Policies, GoesOn
  <1>5. Hand' = Hand BY <1>3 DEF Hand
  <1>6. Calm BY <1>0, <1>3, <1>4, <1>5 DEF Calm, Whole, Reached
  <1>7. Shows BY <1>6 DEF Faithful
  <1>8. group \in SUBSET DOMAIN batch BY DEF Inv, Behind
  <1>9. group \in SUBSET Nat BY <1>8, ProperBatch DEF Ready
  <1>10. PICK m, d :
           /\ m \in group /\ d \in IdsOfRow(RowOf(batch[m]))
           /\ Head(work) = Item(m, d)
           /\ \A n, id : Left(work, n, id) => m <= n /\ (Left(Tail(work), n, id) \/ (n = m /\ id = d))
           /\ \A n \in group : \A id \in IdsOfRow(RowOf(batch[n])) : m < n => Left(Tail(work), n, id)
    BY <1>9, LineShrinks DEF Ready, ApplyDelta
  <1>11. Left(work, m, d)
    <2>1. 1 \in DOMAIN work /\ Head(work) = work[1] BY DEF Ready, InLine, ApplyDelta
    <2> QED BY <1>10, <2>1 DEF Left
  <1>12. PICK h \in Keys : Proper(batch[m], h) BY <1>8, <1>10, ProperBatch DEF Ready
  <1>13. /\ d \in IdsOf(h) /\ (\A k \in Keys : d \in IdsOf(k) => k = h)
         /\ RowOf(batch[m]) \in Rows
    BY <1>10, <1>12, IdOfRow DEF Proper, RowsOf
  <1>14. d \in DocIds /\ d \in Nodes \cup Edges BY <1>13, Inside
  <1>15. /\ Elsewhere(store, o.store, d)
         /\ \/ SameBody(o.store[d], View(batch[m].new, d))
            \/ batch[m].op = "INSERT" /\ o.store[d] = store[d] /\ store[d] # NoDoc
            \/ batch[m].op = "UPDATE" /\ o.store[d] = store[d] /\ store[d] = NoDoc
    <2>1. o \in Resolve(Item(m, d)) BY <1>10
    <2> QED BY <1>3, <1>4, <1>10, <1>12, <1>13, <1>14, <2>1, ResolvedItem DEF Proper
  <1>16. ASSUME NEW k \in Keys, NEW id \in IdsOf(k)
         PROVE  \E i \in 0 .. Len(wal') : \E row \in RowsOf(k) : ShowsAt(k, id, i, row)'
    <2>1. PICK i \in 0 .. Len(wal), row \in RowsOf(k) : ShowsAt(k, id, i, row) BY <1>7 DEF Shows
    <2>2. CASE id = d
      <3>1. \/ SameBody(store'[id], View(batch[m].new, id))
            \/ batch[m].op = "INSERT" /\ store'[id] = store[id] /\ store[id] # NoDoc
            \/ batch[m].op = "UPDATE" /\ store'[id] = store[id] /\ store[id] = NoDoc
        BY <1>1, <1>15, <2>2
      <3>2. \A n : Left(work, n, id) => m <= n /\ (Left(work', n, id) \/ n = m) BY <1>3, <1>10
      <3>3. \A n \in group : id \in IdsOfRow(RowOf(batch[n])) /\ m < n => Left(work', n, id) BY <1>3, <1>10
      <3>4. id \in IdsOfRow(RowOf(batch[m])) /\ Left(work, m, id) BY <1>10, <1>11, <2>2
      <3>5. \E r \in 0 .. Len(wal) : \E s \in RowsOf(k) : ShowsAt(k, id, r, s)'
        BY <1>0, <1>3, <1>10, <2>1, <3>1, <3>2, <3>3, <3>4, ShowsAfter
      <3> QED BY <1>0, <3>5
    <2>3. CASE id # d
      <3>1. store'[id] = store[id] BY <1>1, <1>15, <2>3, Inside DEF Elsewhere
      <3>2. \A j : Item(j, id)' = Item(j, id) BY <1>3 DEF Item
      <3>3. \A j : Left(work, j, id) => Left(Tail(work), j, id) BY <1>10, <2>3
      <3>4. \A j : Left(work, j, id) => Left(work, j, id)' BY <1>3, <3>2, <3>3 DEF Left
      <3>5. \A j : Pending(j, id) => Pending(j, id)' BY <1>3, <3>4 DEF Pending
      <3>6. \A j : Touches(j, id)' <=> Touches(j, id) BY <1>0 DEF Touches
      <3>7. Reached' = Reached BY <1>0 DEF Reached
      <3>8. UpTo(i, id)' BY <2>1, <3>5, <3>6, <3>7 DEF ShowsAt, UpTo
      <3>9. ShowsAt(k, id, i, row)' BY <1>0, <2>1, <3>1, <3>8 DEF ShowsAt
      <3> QED BY <1>0, <3>9
    <2> QED BY <2>2, <2>3
  <1>17. \A id \in DocIds \ (Nodes \cup Edges) : store'[id] = NoDoc
    BY <1>1, <1>7, <1>14, <1>15 DEF Shows, Elsewhere
  <1> QED BY <1>16, <1>17 DEF Shows

(* An empty log tells the table as it is at first.                         *)
LEMMA ToldInit == Init => Told(rows, wal) /\ Dated
  <1> SUFFICES ASSUME Init PROVE Told(rows, wal) /\ Dated OBVIOUS
  <1>1. rows = InitRows /\ wal = <<>> /\ emitted = 0 BY DEF Init, SourceInit
  <1>2. rows \in Tables BY <1>1, TableAssumption DEF Tables
  <1>3. wal \in Seq({0}) /\ Len(wal) = 0 BY <1>1
  <1>4. ASSUME NEW k \in Keys PROVE Tells(wal, k, None) /\ Stood(wal, k, None, Len(wal), rows[k])
    <2>1. Stood(wal, k, None, 0, rows[k]) BY <1>1 DEF Stood
    <2>2. rows[k] \in RowsOf(k) BY <1>2, RowOfTable
    <2>3. \A o \in 0 .. Len(wal) : o = 0 /\ ~(o < Len(wal)) BY <1>3
    <2>4. Tells(wal, k, None) BY <2>1, <2>2, <2>3 DEF Tells
    <2> QED BY <1>3, <2>1, <2>4
  <1>5. 1 .. Len(wal) = {} BY <1>3
  <1>6. \E S : wal \in Seq(S) BY <1>3
  <1> QED BY <1>1, <1>2, <1>3, <1>4, <1>5, <1>6 DEF Told, Dated

(* What every behaviour keeps: wal tells the history of the table, the     *)
(* listener holds the stretch of it before the slot in order, and, while   *)
(* nothing is lost, each document is that of some earlier place of wal,    *)
(* since when all that touches it is in hand.                              *)
Shown == Told(rows, wal) /\ Dated /\ Ready /\ Faithful /\ policy \in Policies

(* It holds at first ...                                                   *)
LEMMA ShownInit == ASSUME Init PROVE Shown
  <1>1. policy \in Policies BY PoliciesAssumption DEF Init
  <1>2. Faithful BY DEF Init, Faithful, Calm
  <1> QED BY <1>1, <1>2, ToldInit, ReadyInit DEF Shown

(* ... and every step keeps it.                                            *)
LEMMA ShownStep ==
  ASSUME BadVals = {}, OnlyKinds, Inv, Shown, [Next]_vars
  PROVE  Shown'
  <1> USE DEF Shown
  <1>1. Ready' BY ReadyNext
  <1>2. policy' = policy
    BY DEF Next, Commit, Setup, Load, Start, Poll, PollUpTo, BeginBatch, PollLost, Handle,
           HandlerStep, StartGroup, ApplyDelta, FinishGroup, Raise, NextPoll, DropBatch, CatchError,
           StopSignal, Exit, Crash, Teardown, vars, handlerVars
  <1>3. CASE Commit
    <2>1. Told(rows', wal') /\ Dated' BY <1>3, CommitTells DEF Inv
    <2>2. Faithful' BY <1>3, FaithfulCommit
    <2> QED BY <1>1, <1>2, <2>1, <2>2
  <1>4. CASE ~Commit
    <2>1. UNCHANGED <<rows, emitted, wal>>
      BY <1>4 DEF Next, Setup, Load, Start, Poll, PollUpTo, PollLost, Handle, NextPoll, CatchError,
         StopSignal, Exit, Crash, Teardown, vars, sourceVars, listenerVars
    <2>2. Told(rows', wal') /\ Dated' BY <2>1 DEF Dated
    <2>3. Faithful'
      <3>1. CASE Poll BY <3>1, FaithfulPoll
      <3>2. CASE Handle
        BY <3>2, FaithfulStart, FaithfulApply, FaithfulFinish DEF Handle, HandlerStep
      <3>3. CASE Load BY <3>3, ShowsLoaded DEF Faithful
      <3>4. CASE \/ Setup \/ Start \/ PollLost \/ NextPoll \/ CatchError \/ StopSignal \/ Exit
                 \/ Crash \/ Teardown \/ UNCHANGED vars
        BY <3>4, FaithfulMoved
      <3> QED BY <1>4, <3>1, <3>2, <3>3, <3>4 DEF Next
    <2> QED BY <1>1, <1>2, <2>2, <2>3
  <1> QED BY <1>3, <1>4

(***************************************************************************)
(* Theorems                                                                *)
(***************************************************************************)

(* Inv holds in every state of every behaviour.                            *)
THEOREM Invariance == Spec => []Inv
  BY InvInit, InvStep, PTL DEF Spec

(* A listener that is stopped and started as often as one likes, in the    *)
(* middle of a batch or between two, and whose slot was made before the    *)
(* initial load, loses no change (pg_listener.py:100-128, cdc-start).      *)
THEOREM StopsLoseNothing == Spec => []OnlyInterruptionsLose
  <1>1. Inv => OnlyInterruptionsLose
    BY DEF Inv, InHand, OnlyInterruptionsLose, Lost
  <1> QED BY <1>1, Invariance, PTL

(* pg_logical_slot_get_changes moves the slot over what it returns, so no  *)
(* change reaches the handler twice, whatever crashes, stops, fails, is    *)
(* lost on the way, or is torn down and set up again.                      *)
THEOREM HandedOutOnce == Spec => NeverTwice
  <1> DEFINE Once == batch' # batch => DOMAIN batch' \cap (applied \cup DOMAIN batch) = {}
  <1>1. Inv /\ [Next]_vars => [Once]_vars
    <2> SUFFICES ASSUME Inv, Next PROVE Once OBVIOUS
    <2> USE DEF Inv
    <2>1. CASE Poll BY <2>1, PollStep
    <2>2. CASE Handle
      <3>1. batch' = batch \/ batch' = <<>> BY <2>2, HandlerKeeps DEF Handle
      <3> QED BY <3>1, NoMessages
    <2>3. CASE NextPoll \/ CatchError \/ Crash
      BY <2>3, NoMessages DEF NextPoll, CatchError, Crash, DropBatch, Forget
    <2>4. CASE Commit \/ Setup \/ Load \/ Start \/ PollLost \/ StopSignal \/ Exit \/ Teardown
      BY <2>4 DEF Commit, Setup, Load, Start, PollLost, StopSignal, Exit, Teardown, handlerVars
    <2> QED BY <2>1, <2>2, <2>3, <2>4 DEF Next
  <1> QED BY <1>1, Invariance, PTL DEF Spec, NeverTwice

(* Whenever the listener has caught up and no change was lost, every       *)
(* document and every edge of the target is what a load of the table would *)
(* make it (handler.py applies each delta through conflict.py): for any    *)
(* rows, keys, transactions of one or two rows, with or without ids, any   *)
(* interleaving of the slot, the initial load and the polls, any stops,    *)
(* crashes, lost polls and dropped slots, any refused call or lost reply   *)
(* of the writer, and every policy that goes on after a conflict, unless a *)
(* delta failed.  The source logs whole old rows and changes no key, and   *)
(* every value can be coerced.                                             *)
THEOREM CaughtUpIsMirrored ==
  ASSUME BadVals = {}, OnlyKinds
  PROVE  Spec => []CaughtUpMeansMirror
  <1>1. Init => Shown BY ShownInit
  <1>2. Inv /\ Shown /\ [Next]_vars => Shown' BY ShownStep
  <1>3. Inv /\ Shown => CaughtUpMeansMirror BY CaughtUpShows DEF Shown
  <1> QED BY <1>1, <1>2, <1>3, Invariance, PTL DEF Spec
================================================================================
