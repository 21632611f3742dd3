---------------------------- MODULE TemporalProofs ----------------------------
(***************************************************************************)
(* What TemporalApplier.tla promises, for any keys, any contents, any      *)
(* retention and any history.  The invariant has a part that always holds  *)
(* and a part that holds as long as no change is replayed after TTL has    *)
(* removed something.  CurrentInv, on top of it, says at which place of    *)
(* the table's history each entity is.                                     *)
(***************************************************************************)
EXTENDS TemporalApplier, TLAPS

USE TimesAssumption

Busy == pc # "idle"

(* Nothing is dated in the future, nor after the change in progress.       *)
Dated(e) ==
  /\ e.created <= clock /\ (e.expired # Never => e.expired <= clock)
  /\ Busy => e.created <= now /\ (e.expired # Never => e.expired <= now)
Stamps == clock < Never /\ \A e \in versions : Dated(e)

(* Deterministic keys: one document per entity and number.                 *)
UniqueNumbers ==
  \A e, f \in versions : e.key = f.key /\ e.n = f.n => e = f

(* What a change in progress has found.                                    *)
Progress ==
  /\ Busy => pos < Len(hist)
  /\ pc \in {"find", "expire", "expire_edges"} => op.op # "INSERT"
  /\ pc \in {"put_proxy_in", "put_proxy_out", "put_version", "put_edges"} => op.op # "DELETE"
  /\ pc = "expire" =>
       \E e \in versions : e.key = op.key /\ e.n = n /\ e.expired = Never
  /\ (~Busy \/ op.op = "INSERT") => n = 0
  /\ pc \in {"find", "put_proxy_in", "put_proxy_out"} => n = 0

ProxiesThere ==
  /\ pc = "put_proxy_out" => <<"in", op.key>> \in proxies
  /\ pc \in {"expire", "expire_edges", "put_version"} =>
       <<"in", op.key>> \in proxies /\ <<"out", op.key>> \in proxies

AlwaysInv ==
  /\ TypeOK /\ Stamps /\ UniqueNumbers /\ Progress /\ ProxiesThere /\ VersionsHaveProxies

(* Between the expiry of a version and the next one none is live.          *)
NoneLive ==
  /\ pc = "expire_edges" => Live(op.key) = {}
  /\ pc \in {"put_proxy_in", "put_proxy_out", "put_version"} /\ op.op # "INSERT" =>
       Live(op.key) = {}

(* Until TTL has removed something, an entity with a version has version 0. *)
Rooted ==
  ~aged =>
    /\ \A e \in versions : Has(versions, e.key, 0)
    /\ pc \in {"expire", "expire_edges"} => Has(versions, op.key, 0)
    /\ pc = "put_version" /\ n # 0 => Has(versions, op.key, 0)

(* A feed that never went back: only rows of the table are live, and the   *)
(* change it delivers next is the only one outstanding.                    *)
InStep ==
  redeliveries + aborts = 0 =>
    /\ Len(hist) <= pos + 1
    /\ \A k \in Keys :
         Live(k) # {} /\ ~(pos < Len(hist) /\ op.key = k) => rows[k] # NoRow
    /\ pos < Len(hist) /\ op.op # "DELETE" => rows[op.key] # NoRow
    /\ pos < Len(hist) /\ op.op = "INSERT" /\ pc # "put_edges" => Live(op.key) = {}

Inv == AlwaysInv /\ (~ReplayedAfterAging => NoneLive /\ Rooted /\ InStep) /\ IntervalsDisjoint

LEMMA InvInit == Init => Inv
  <1> SUFFICES ASSUME Init PROVE Inv OBVIOUS
  <1> USE DEF Init
  <1>1. hist \in Seq(Changes) /\ pos \in 0..Len(hist) OBVIOUS
  <1>2. rows \in [Keys -> Data \cup {NoRow}] OBVIOUS
  <1>3. clock \in 0..Never /\ now \in 0..clock /\ n \in Nat OBVIOUS
  <1>4. aborts \in Nat /\ redeliveries \in Nat OBVIOUS
  <1>5. aged \in BOOLEAN OBVIOUS
  <1>6. TypeOK BY <1>1, <1>2, <1>3, <1>4, <1>5 DEF TypeOK, Times
  <1>7. \A k \in Keys : Live(k) = {} BY DEF Live
  <1>8. AlwaysInv
    BY <1>6 DEF AlwaysInv, Stamps, UniqueNumbers, Progress, ProxiesThere, VersionsHaveProxies, Busy
  <1>9. NoneLive /\ Rooted /\ IntervalsDisjoint BY DEF NoneLive, Rooted, IntervalsDisjoint
  <1>10. InStep BY <1>7 DEF InStep
  <1> QED BY <1>8, <1>9, <1>10 DEF Inv

(* In the middle of a change, op is one of the table's.                    *)
LEMMA OpType ==
  ASSUME AlwaysInv, pos < Len(hist)
  PROVE  op \in Changes /\ op.key \in Keys /\ op.data \in Data
         /\ op.op \in {"INSERT", "REPLACE", "DELETE"}
  <1>1. op \in Changes BY DEF AlwaysInv, TypeOK, op
  <1> QED BY <1>1 DEF Changes

(* An entity has at most one live version: two would overlap.              *)
LEMMA OneLive ==
  ASSUME AlwaysInv, IntervalsDisjoint, ~ReplayedAfterAging,
         NEW e \in versions, NEW f \in versions, e.key = f.key,
         e.expired = Never, f.expired = Never
  PROVE  e = f
  <1> SUFFICES ASSUME e # f PROVE FALSE OBVIOUS
  <1>1. Disjoint(e, f) BY DEF IntervalsDisjoint
  <1>2. e.created \in Nat /\ f.created \in Nat /\ clock \in Nat
    BY DEF AlwaysInv, TypeOK, Versions, Times
  <1>3. e.created <= clock /\ f.created <= clock /\ clock < Never
    BY DEF AlwaysInv, Stamps, Dated
  <1> QED BY <1>1, <1>2, <1>3 DEF Disjoint

(* Types.                                                                  *)
LEMMA TypeStep ==
  ASSUME AlwaysInv, [Next]_vars
  PROVE  TypeOK'
  <1> USE DEF AlwaysInv, TypeOK, Times
  <1>1. CASE Commit
    <2>1. PICK k \in Keys, d \in Data : RowChange(k, d) BY <1>1 DEF Commit
    <2>2. rows' \in [Keys -> Data \cup {NoRow}] BY <2>1 DEF RowChange
    <2>3. \E c \in Changes : hist' = Append(hist, c)
      BY <2>1 DEF RowChange, Change, Changes
    <2>4. hist' \in Seq(Changes) /\ Len(hist') = Len(hist) + 1 BY <2>3
    <2> QED BY <1>1, <2>2, <2>4 DEF Commit, dbVars
  <1>2. CASE Tick \/ Redeliver
    BY <1>2 DEF Tick, Redeliver, sourceVars, dbVars
  <1>3. CASE AgeOut
    BY <1>3 DEF AgeOut, sourceVars, feedVars
  <1>4. CASE Begin
    BY <1>4 DEF Begin, sourceVars, feedVars, dbVars
  <1>5. CASE FindCurrent
    <2>1. Live(op.key) \subseteq versions BY DEF Live
    <2>2. \A e \in versions : e.n \in Nat BY DEF Versions
    <2>3. n' \in Nat BY <1>5, <2>1, <2>2 DEF FindCurrent, Newest, Done, Return
    <2>4. pos' \in 0..Len(hist) BY <1>5 DEF FindCurrent, Done, Return, Progress, Busy
    <2>5. now' \in 0..clock BY <1>5 DEF FindCurrent, Done, Return
    <2> QED BY <1>5, <2>3, <2>4, <2>5 DEF FindCurrent, Done, Return, sourceVars, dbVars
  <1>6. CASE ExpireEntity
    <2>1. now \in 0..Never BY DEF Stamps
    <2>2. \A e \in Versions : [e EXCEPT !.expired = now] \in Versions BY <2>1 DEF Versions
    <2>3. versions' \subseteq Versions BY <1>6, <2>2 DEF ExpireEntity
    <2> QED BY <1>6, <2>3 DEF ExpireEntity, sourceVars, feedVars
  <1>7. CASE ExpireEdges
    <2>1. now \in 0..Never BY DEF Stamps
    <2>2. \A e \in VersionEdges : [e EXCEPT !.expired = now] \in VersionEdges
      BY <2>1 DEF VersionEdges
    <2>3. edges' \subseteq VersionEdges BY <1>7, <2>2 DEF ExpireEdges
    <2>4. pos' \in 0..Len(hist) BY <1>7 DEF ExpireEdges, Done, Return, Progress, Busy
    <2>5. n' \in Nat /\ now' \in 0..clock /\ pc' \in {"idle", "put_version"}
      BY <1>7 DEF ExpireEdges, Done, Return
    <2> QED BY <1>7, <2>3, <2>4, <2>5 DEF ExpireEdges, sourceVars
  <1>8. CASE PutProxyIn \/ PutProxyOut
    <2>1. op.key \in Keys BY <1>8, OpType DEF PutProxyIn, PutProxyOut, Progress, Busy
    <2> QED BY <1>8, <2>1 DEF PutProxyIn, PutProxyOut, PutProxy, sourceVars, feedVars
  <1>9. CASE PutVersion
    <2>1. op.key \in Keys /\ op.data \in Data BY <1>9, OpType DEF PutVersion, Progress, Busy
    <2>2. versions' \subseteq Versions BY <1>9, <2>1 DEF PutVersion, Versions, Stamps
    <2> QED BY <1>9, <2>2 DEF PutVersion, sourceVars, feedVars
  <1>10. CASE PutEdges
    <2>1. op.key \in Keys BY <1>10, OpType DEF PutEdges, Progress, Busy
    <2>2. edges' \subseteq VersionEdges BY <1>10, <2>1 DEF PutEdges, VersionEdges, Stamps
    <2>3. pos' \in 0..Len(hist) BY <1>10 DEF PutEdges, Done, Return, Progress, Busy
    <2> QED BY <1>10, <2>2, <2>3 DEF PutEdges, Done, Return, sourceVars
  <1>11. CASE Abort
    <2>1. pos' \in 0..Len(hist) BY <1>11 DEF Abort, Progress, Busy
    <2> QED BY <1>11, <2>1 DEF Abort, Return, sourceVars, dbVars
  <1>12. CASE UNCHANGED vars
    BY <1>12 DEF vars
  <1> QED BY <1>1, <1>2, <1>3, <1>4, <1>5, <1>6, <1>7, <1>8, <1>9, <1>10, <1>11, <1>12
       DEF Next, Apply

(* How a step changes the versions: it keeps them, ages some of the closed *)
(* ones out, closes the version the change has found, or writes its next.  *)
LEMMA VersionsStep ==
  ASSUME [Next]_vars
  PROVE  \/ versions' = versions
         \/ AgeOut \/ ExpireEntity \/ PutVersion
  BY DEF Next, Apply, vars, Commit, Tick, Redeliver, Begin, FindCurrent, ExpireEdges,
         PutProxyIn, PutProxyOut, PutProxy, PutEdges, Abort, dbVars

(* The time of a change is not before anything written earlier, and the    *)
(* clock never goes back.                                                  *)
LEMMA StampsStep ==
  ASSUME AlwaysInv, [Next]_vars
  PROVE  Stamps'
  <1> USE TimesAssumption DEF AlwaysInv
  <1>0. clock \in Nat /\ now \in Nat /\ now <= clock /\ clock < Never
    BY DEF TypeOK, Times, Stamps
  <1>1. \A e \in versions : Dated(e) /\ e.created \in Nat /\ e.expired \in Nat
    BY DEF Stamps, TypeOK, Versions, Times
  <1>2. CASE versions' \subseteq versions /\ clock' = clock /\ (now' = now \/ ~Busy')
             /\ (Busy' => Busy)
    BY <1>0, <1>1, <1>2 DEF Stamps, Dated
  <1>3. CASE Tick
    BY <1>0, <1>1, <1>3 DEF Tick, dbVars, Stamps, Dated, Busy
  <1>4. CASE Begin
    BY <1>0, <1>1, <1>4 DEF Begin, dbVars, Stamps, Dated, Busy
  <1>5. CASE ExpireEntity
    <2>1. Busy /\ Busy' /\ clock' = clock /\ now' = now BY <1>5 DEF ExpireEntity, Busy
    <2> SUFFICES ASSUME NEW e \in versions' PROVE Dated(e)'
      BY <1>0, <2>1 DEF Stamps
    <2>2. PICK f \in versions :
            e = IF f.key = op.key /\ f.n = n THEN [f EXCEPT !.expired = now] ELSE f
      BY <1>5 DEF ExpireEntity
    <2>3. f \in Versions BY DEF TypeOK
    <2>4. CASE e = f BY <1>1, <2>1, <2>4 DEF Dated
    <2>5. CASE e = [f EXCEPT !.expired = now]
      <3>1. e.created = f.created /\ e.expired = now BY <2>3, <2>5 DEF Versions
      <3> QED BY <1>0, <1>1, <2>1, <3>1 DEF Dated
    <2> QED BY <2>2, <2>4, <2>5
  <1>6. CASE PutVersion
    BY <1>0, <1>1, <1>6 DEF PutVersion, Stamps, Dated, Busy
  <1> QED BY <1>2, <1>3, <1>4, <1>5, <1>6 DEF Next, Apply, vars, Commit, Redeliver, AgeOut,
            FindCurrent, ExpireEdges, PutProxyIn, PutProxyOut, PutProxy, PutEdges, Abort,
            Done, Return, Busy, sourceVars, dbVars, feedVars

(* A version keeps its entity and its number for as long as it exists.     *)
LEMMA ExpireKeeps ==
  ASSUME AlwaysInv, ExpireEntity, NEW e \in versions'
  PROVE  \E f \in versions :
           /\ e = IF f.key = op.key /\ f.n = n THEN [f EXCEPT !.expired = now] ELSE f
           /\ f \in Versions
           /\ e.key = f.key /\ e.n = f.n /\ e.created = f.created /\ e.data = f.data
           /\ (f.key = op.key /\ f.n = n) => e.expired = now
           /\ ~(f.key = op.key /\ f.n = n) => e = f
  <1>1. PICK f \in versions :
          e = IF f.key = op.key /\ f.n = n THEN [f EXCEPT !.expired = now] ELSE f
    BY DEF ExpireEntity
  <1>2. f \in Versions BY DEF AlwaysInv, TypeOK
  <1> QED BY <1>1, <1>2 DEF Versions

LEMMA UniqueStep ==
  ASSUME AlwaysInv, [Next]_vars
  PROVE  UniqueNumbers'
  <1> USE DEF AlwaysInv
  <1>1. CASE versions' \subseteq versions BY <1>1 DEF UniqueNumbers
  <1>2. CASE ExpireEntity
    <2> SUFFICES ASSUME NEW e \in versions', NEW f \in versions', e.key = f.key, e.n = f.n
                 PROVE  e = f
      BY DEF UniqueNumbers
    <2>1. PICK x \in versions :
            e = (IF x.key = op.key /\ x.n = n THEN [x EXCEPT !.expired = now] ELSE x)
            /\ e.key = x.key /\ e.n = x.n
      BY <1>2, ExpireKeeps
    <2>2. PICK y \in versions :
            f = (IF y.key = op.key /\ y.n = n THEN [y EXCEPT !.expired = now] ELSE y)
            /\ f.key = y.key /\ f.n = y.n
      BY <1>2, ExpireKeeps
    <2>3. x = y BY <2>1, <2>2 DEF UniqueNumbers
    <2> QED BY <2>1, <2>2, <2>3
  <1>3. CASE PutVersion
    BY <1>3 DEF PutVersion, Has, UniqueNumbers
  <1> QED BY <1>1, <1>2, <1>3, VersionsStep DEF AgeOut

LEMMA ProgressStep ==
  ASSUME AlwaysInv, [Next]_vars
  PROVE  Progress'
  <1> USE DEF AlwaysInv, Progress, Busy
  <1>0. n \in Nat BY DEF TypeOK
  <1>1. CASE pc' = "idle" /\ n' = 0 BY <1>1
  <1>2. CASE Tick \/ UNCHANGED vars
    BY <1>2 DEF Tick, vars, sourceVars, dbVars, op
  <1>3. CASE AgeOut
    <2>1. UNCHANGED <<hist, pos, n, pc>> /\ op' = op
      BY <1>3 DEF AgeOut, sourceVars, feedVars, op
    <2>2. \A e \in versions : e.expired = Never => e \in versions'
      BY <1>3 DEF AgeOut, Expirable
    <2> QED BY <2>1, <2>2
  <1>4. CASE Begin
    <2>1. hist' = hist /\ pos' = pos /\ n' = n /\ op' = op
      BY <1>4 DEF Begin, sourceVars, feedVars, op
    <2>2. n = 0 BY <1>4 DEF Begin
    <2> QED BY <1>4, <2>1, <2>2 DEF Begin
  <1>5. CASE FindCurrent /\ pc' # "idle"
    <2>1. hist' = hist /\ pos' = pos /\ op' = op /\ versions' = versions
      BY <1>5 DEF FindCurrent, Done, Return, sourceVars, dbVars, op
    <2>2. CASE pc' = "expire"
      <3>1. PICK e \in Newest(op.key) : n' = e.n BY <1>5, <2>2 DEF FindCurrent, Done, Return
      <3>2. e \in versions /\ e.key = op.key /\ e.expired >= Never
        BY <3>1 DEF Newest, Live
      <3>3. e.expired = Never BY <3>2, TimesAssumption DEF TypeOK, Versions, Times
      <3> QED BY <1>5, <2>1, <2>2, <3>1, <3>2, <3>3 DEF FindCurrent
    <2> QED BY <1>5, <2>1, <2>2 DEF FindCurrent, Done, Return
  <1>6. CASE ExpireEntity
    BY <1>6 DEF ExpireEntity, sourceVars, feedVars, op
  <1>7. CASE ExpireEdges /\ pc' # "idle"
    BY <1>7 DEF ExpireEdges, Done, Return, sourceVars, op
  <1>8. CASE PutProxyIn \/ PutProxyOut \/ PutVersion
    BY <1>8 DEF PutProxyIn, PutProxyOut, PutProxy, PutVersion, sourceVars, feedVars, op
  <1>9. CASE (FindCurrent \/ ExpireEdges) /\ pc' = "idle"
    BY <1>1, <1>9 DEF FindCurrent, ExpireEdges, Done, Return
  <1>10. CASE Commit \/ Redeliver \/ PutEdges \/ Abort
    BY <1>1, <1>10 DEF Commit, Redeliver, PutEdges, Abort, Done, Return
  <1> QED BY <1>2, <1>3, <1>4, <1>5, <1>6, <1>7, <1>8, <1>9, <1>10 DEF Next, Apply

LEMMA ProxiesStep ==
  ASSUME AlwaysInv, [Next]_vars
  PROVE  ProxiesThere' /\ VersionsHaveProxies'
  <1> USE DEF AlwaysInv, ProxiesThere, VersionsHaveProxies
  <1>1. CASE PutProxyIn \/ PutProxyOut
    BY <1>1 DEF PutProxyIn, PutProxyOut, PutProxy, sourceVars, feedVars, op
  <1>2. CASE PutVersion
    BY <1>2 DEF PutVersion, sourceVars, feedVars, op
  <1>3. CASE ExpireEntity
    <2>1. proxies' = proxies /\ op' = op /\ pc' = "expire_edges" /\ pc = "expire"
      BY <1>3 DEF ExpireEntity, sourceVars, feedVars, op
    <2>2. \A e \in versions' : \E f \in versions : e.key = f.key BY <1>3, ExpireKeeps
    <2> QED BY <2>1, <2>2
  <1>4. CASE FindCurrent
    <2>1. UNCHANGED <<hist, versions, proxies>> BY <1>4 DEF FindCurrent, sourceVars, dbVars
    <2>2. CASE pc' = "expire"
      <3>1. pos' = pos /\ \E e \in versions : e.key = op.key
        BY <1>4, <2>2 DEF FindCurrent, Newest, Live, Done, Return
      <3>2. op' = op BY <2>1, <3>1 DEF op
      <3> QED BY <2>1, <2>2, <3>1, <3>2
    <2>3. CASE pc' # "expire"
      BY <1>4, <2>1, <2>3 DEF FindCurrent, Done, Return
    <2> QED BY <2>2, <2>3
  <1>5. CASE ExpireEdges
    BY <1>5 DEF ExpireEdges, Done, Return, sourceVars, op
  <1>6. CASE Begin \/ Tick \/ AgeOut \/ UNCHANGED vars
    BY <1>6 DEF Begin, Tick, AgeOut, vars, sourceVars, feedVars, dbVars, op
  <1>7. CASE Commit \/ Redeliver \/ PutEdges \/ Abort
    BY <1>7 DEF Commit, Redeliver, PutEdges, Abort, Done, Return, dbVars
  <1> QED BY <1>1, <1>2, <1>3, <1>4, <1>5, <1>6, <1>7 DEF Next, Apply

LEMMA AlwaysStep == AlwaysInv /\ [Next]_vars => AlwaysInv'
  BY TypeStep, StampsStep, UniqueStep, ProgressStep, ProxiesStep DEF AlwaysInv

(***************************************************************************)
(* The part of the invariant about replays and aging.                      *)
(***************************************************************************)

(* While a change is in progress the feed and the table stand still.       *)
LEMMA Steady ==
  ASSUME [Next]_vars, Busy'
  PROVE  UNCHANGED <<rows, hist, pos>> /\ op' = op
  <1>1. UNCHANGED <<rows, hist, pos>>
    BY DEF Next, Apply, vars, Commit, Tick, Redeliver, AgeOut, Begin, FindCurrent, ExpireEntity,
           ExpireEdges, PutProxyIn, PutProxyOut, PutProxy, PutVersion, PutEdges, Abort,
           Done, Return, Busy, sourceVars, feedVars
  <1> QED BY <1>1 DEF op

(* Replays and aging are never forgotten.                                  *)
LEMMA Remembered ==
  ASSUME AlwaysInv, [Next]_vars
  PROVE  /\ aged => aged'
         /\ redeliveries' + aborts' = 0 =>
              redeliveries + aborts = 0 /\ ~Redeliver /\ ~Abort
         /\ ~ReplayedAfterAging' => ~ReplayedAfterAging
  <1>1. redeliveries \in Nat /\ aborts \in Nat BY DEF AlwaysInv, TypeOK
  <1>2. (aged' = aged) \/ AgeOut
    BY DEF Next, Apply, vars, Commit, Tick, Redeliver, Begin, FindCurrent, ExpireEntity,
           ExpireEdges, PutProxyIn, PutProxyOut, PutProxy, PutVersion, PutEdges, Abort
  <1>3. aged => aged' BY <1>2 DEF AgeOut
  <1>4. CASE Redeliver
    BY <1>1, <1>3, <1>4 DEF Redeliver, ReplayedAfterAging, Abort
  <1>5. CASE Abort
    BY <1>1, <1>3, <1>5 DEF Redeliver, ReplayedAfterAging, Abort
  <1>6. CASE ~Redeliver /\ ~Abort
    <2>1. redeliveries' = redeliveries /\ aborts' = aborts
      BY <1>6 DEF Next, Apply, vars, Commit, Tick, AgeOut, Begin, FindCurrent, ExpireEntity,
           ExpireEdges, PutProxyIn, PutProxyOut, PutProxy, PutVersion, PutEdges, feedVars
    <2> QED BY <1>3, <1>6, <2>1 DEF ReplayedAfterAging
  <1> QED BY <1>4, <1>5, <1>6

(* Only PutVersion brings a live version, and only to its own entity.      *)
LEMMA LiveStep ==
  ASSUME AlwaysInv, [Next]_vars, NEW e \in versions', e.expired >= Never
  PROVE  \/ \E f \in versions : f.key = e.key /\ f.expired >= Never
         \/ PutVersion /\ e.key = op.key
  <1>1. CASE versions' \subseteq versions BY <1>1
  <1>2. CASE ExpireEntity
    <2>1. PICK f \in versions :
            /\ e.key = f.key
            /\ (f.key = op.key /\ f.n = n) => e.expired = now
            /\ ~(f.key = op.key /\ f.n = n) => e = f
      BY <1>2, ExpireKeeps
    <2>2. now \in Nat /\ now < Never BY DEF AlwaysInv, TypeOK, Times, Stamps
    <2>3. e = f BY <2>1, <2>2
    <2> QED BY <2>3
  <1>3. CASE PutVersion
    BY <1>3 DEF PutVersion
  <1> QED BY <1>1, <1>2, <1>3, VersionsStep DEF AgeOut

(* The version a change has found is the only live one of its entity.      *)
LEMMA Found ==
  ASSUME Inv, ~ReplayedAfterAging, pc = "expire", NEW e \in versions, e.key = op.key
  PROVE  (e.n = n) <=> (e.expired = Never)
  <1>1. PICK x \in versions : x.key = op.key /\ x.n = n /\ x.expired = Never
    BY DEF Inv, AlwaysInv, Progress
  <1>2. e.n = n => e = x BY <1>1 DEF Inv, AlwaysInv, UniqueNumbers
  <1>3. e.expired = Never => e = x BY <1>1, OneLive DEF Inv
  <1> QED BY <1>1, <1>2, <1>3

LEMMA NoneLiveStep ==
  ASSUME Inv, [Next]_vars, ~ReplayedAfterAging'
  PROVE  NoneLive'
  <1>0. ~ReplayedAfterAging /\ NoneLive /\ AlwaysInv BY Remembered DEF Inv
  <1>1. CASE ~Busy' BY <1>1 DEF NoneLive, Busy
  <1>2. CASE Busy'
    <2>1. op' = op BY <1>2, Steady
    <2>2. CASE ExpireEntity
      <3>1. pc' = "expire_edges" /\ pc = "expire" BY <2>2 DEF ExpireEntity
      <3>2. now \in Nat /\ now < Never BY <1>0 DEF AlwaysInv, TypeOK, Times, Stamps
      <3>3. ASSUME NEW e \in versions', e.key = op.key, e.expired >= Never PROVE FALSE
        <4>1. PICK f \in versions :
                /\ e.key = f.key /\ f \in Versions
                /\ (f.key = op.key /\ f.n = n) => e.expired = now
                /\ ~(f.key = op.key /\ f.n = n) => e = f
          BY <1>0, <2>2, ExpireKeeps
        <4>2. e = f /\ f.n # n BY <3>2, <3>3, <4>1
        <4>3. f.expired = Never BY <3>3, <4>1, <4>2 DEF Versions, Times
        <4> QED BY <1>0, <3>1, <3>3, <4>1, <4>2, <4>3, Found
      <3> QED BY <2>1, <3>1, <3>3 DEF NoneLive, Live
    <2>3. CASE PutVersion BY <2>3 DEF PutVersion, NoneLive
    <2>4. CASE ~ExpireEntity /\ ~PutVersion
      <3>1. versions' \subseteq versions BY <2>4, VersionsStep DEF AgeOut
      <3>2. Live(op.key) = {} => Live(op.key)' = {} BY <2>1, <3>1 DEF Live
      <3>3. (pc' = pc) \/ Begin \/ FindCurrent \/ ExpireEdges \/ PutProxyIn \/ PutProxyOut
        BY <1>2, <2>4 DEF Next, Apply, vars, Commit, Tick, Redeliver, AgeOut, PutEdges, Abort,
             Done, Return, Busy
      <3>4. CASE pc' = pc BY <1>0, <2>1, <3>2, <3>4 DEF NoneLive
      <3>5. CASE Begin BY <2>1, <3>5 DEF Begin, NoneLive
      <3>6. CASE FindCurrent
        BY <1>2, <2>1, <3>2, <3>6 DEF FindCurrent, Done, Return, NoneLive, Busy
      <3>7. CASE ExpireEdges
        BY <1>0, <1>2, <2>1, <3>2, <3>7 DEF ExpireEdges, Done, Return, NoneLive, Busy
      <3>8. CASE PutProxyIn \/ PutProxyOut
        BY <1>0, <2>1, <3>2, <3>8 DEF PutProxyIn, PutProxyOut, PutProxy, NoneLive
      <3> QED BY <3>3, <3>4, <3>5, <3>6, <3>7, <3>8
    <2> QED BY <2>2, <2>3, <2>4
  <1> QED BY <1>1, <1>2

LEMMA RootedStep ==
  ASSUME Inv, [Next]_vars, ~ReplayedAfterAging'
  PROVE  Rooted'
  <1> SUFFICES ASSUME ~aged' PROVE Rooted' BY DEF Rooted
  <1>0. AlwaysInv /\ Progress /\ Rooted /\ ~aged BY Remembered DEF Inv, AlwaysInv
  <1>1. ~AgeOut BY DEF AgeOut
  <1>2. CASE ExpireEntity
    <2>1. op' = op /\ pc = "expire" /\ pc' = "expire_edges"
      BY <1>2, Steady DEF ExpireEntity, Busy
    <2>2. ASSUME NEW k, Has(versions, k, 0) PROVE Has(versions', k, 0)
      <3>1. PICK f \in versions : f.key = k /\ f.n = 0 BY <2>2 DEF Has
      <3>2. f \in Versions BY <1>0 DEF AlwaysInv, TypeOK
      <3>3. CASE f.key = op.key /\ f.n = n
        <4>1. [f EXCEPT !.expired = now] \in versions' BY <1>2, <3>3 DEF ExpireEntity
        <4> QED BY <3>1, <3>2, <4>1 DEF Has, Versions
      <3>4. CASE ~(f.key = op.key /\ f.n = n)
        <4>1. f \in versions' BY <1>2, <3>4 DEF ExpireEntity
        <4> QED BY <3>1, <4>1 DEF Has
      <3> QED BY <3>3, <3>4
    <2>3. \A e \in versions' : Has(versions', e.key, 0)
      <3> TAKE e \in versions'
      <3>1. \E f \in versions : e.key = f.key BY <1>0, <1>2, ExpireKeeps
      <3> QED BY <1>0, <2>2, <3>1 DEF Rooted
    <2>4. Has(versions', op.key, 0) BY <1>0, <2>1, <2>2 DEF Rooted
    <2> QED BY <2>1, <2>3, <2>4 DEF Rooted
  <1>3. CASE PutVersion
    <2>1. pc' = "put_edges" /\ pc = "put_version" BY <1>3 DEF PutVersion
    <2>2. \A e \in versions' : Has(versions', e.key, 0)
      <3> TAKE e \in versions'
      <3>1. versions \subseteq versions' BY <1>3 DEF PutVersion
      <3>2. CASE e \in versions BY <1>0, <3>1, <3>2 DEF Rooted, Has
      <3>3. CASE e \notin versions
        <4>1. e.key = op.key /\ e.n = n BY <1>3, <3>3 DEF PutVersion
        <4>2. n # 0 => Has(versions, op.key, 0) BY <1>0, <2>1 DEF Rooted
        <4> QED BY <3>1, <4>1, <4>2 DEF Has
      <3> QED BY <3>2, <3>3
    <2> QED BY <2>1, <2>2 DEF Rooted
  <1>4. CASE ~ExpireEntity /\ ~PutVersion
    <2>1. versions' = versions BY <1>1, <1>4, VersionsStep
    <2>2. CASE ~Busy' BY <1>0, <2>1, <2>2 DEF Rooted, Busy
    <2>3. CASE Busy'
      <3>1. op' = op BY <2>3, Steady
      <3>2. CASE FindCurrent
        <4>1. pc' = "expire" => \E e \in versions : e.key = op.key
          BY <3>2 DEF FindCurrent, Newest, Live, Done, Return
        <4>2. pc' \in {"expire", "put_proxy_in", "idle"} BY <3>2 DEF FindCurrent, Done, Return
        <4> QED BY <1>0, <2>1, <3>1, <4>1, <4>2 DEF Rooted, Has
      <3>3. CASE ExpireEdges
        BY <1>0, <2>1, <2>3, <3>1, <3>3 DEF ExpireEdges, Done, Return, Rooted, Busy
      <3>4. CASE PutProxyIn \/ PutProxyOut
        BY <1>0, <2>1, <3>1, <3>4 DEF PutProxyIn, PutProxyOut, PutProxy, Rooted, Progress
      <3>5. CASE Begin BY <1>0, <2>1, <3>5 DEF Begin, Rooted
      <3>6. CASE pc' = pc /\ n' = n BY <1>0, <2>1, <3>1, <3>6 DEF Rooted
      <3> QED BY <1>1, <1>4, <2>3, <3>2, <3>3, <3>4, <3>5, <3>6
              DEF Next, Apply, vars, Commit, Tick, Redeliver, PutEdges, Abort, Done, Return, Busy
    <2> QED BY <2>2, <2>3
  <1> QED BY <1>2, <1>3, <1>4

LEMMA InStepStep ==
  ASSUME Inv, [Next]_vars, ~ReplayedAfterAging'
  PROVE  InStep'
  <1> SUFFICES ASSUME redeliveries' + aborts' = 0 PROVE InStep' BY DEF InStep
  <1>0. /\ AlwaysInv /\ NoneLive /\ InStep
        /\ redeliveries + aborts = 0 /\ ~Redeliver /\ ~Abort
    BY Remembered DEF Inv
  <1>00. pos \in 0..Len(hist) /\ hist \in Seq(Changes) /\ Len(hist) \in Nat
    BY <1>0 DEF AlwaysInv, TypeOK
  (* The table makes a change.                                             *)
  <1>1. CASE Commit
    <2>1. PICK k \in Keys, d \in Data : RowChange(k, d) BY <1>1 DEF Commit
    <2>2. pos = Len(hist) /\ pos' = pos /\ pc' = "idle" /\ versions' = versions
      BY <1>1 DEF Commit, dbVars
    <2>3. /\ Len(hist') = Len(hist) + 1 /\ hist'[pos' + 1].key = k
          /\ hist'[pos' + 1].op = "INSERT" => rows[k] = NoRow
          /\ hist'[pos' + 1].op # "DELETE" => rows'[k] = d
      <3>1. rows \in [Keys -> Data \cup {NoRow}] BY <1>0 DEF AlwaysInv, TypeOK
      <3>2. PICK kind \in {"INSERT", "REPLACE", "DELETE"} :
              /\ hist' = Append(hist, Change(kind, k, d))
              /\ kind = "INSERT" => rows[k] = NoRow
              /\ kind # "DELETE" => rows' = [rows EXCEPT ![k] = d]
        BY <2>1 DEF RowChange
      <3>3. hist'[pos' + 1] = Change(kind, k, d) /\ Len(hist') = Len(hist) + 1
        BY <1>00, <2>2, <3>2
      <3>4. /\ hist'[pos' + 1].key = k /\ hist'[pos' + 1].op = kind
        BY <3>3 DEF Change
      <3>5. kind # "DELETE" => rows'[k] = d BY <3>1, <3>2
      <3> QED BY <3>2, <3>3, <3>4, <3>5
    <2>4. \A j \in Keys : j # k => rows'[j] = rows[j]
      BY <1>0, <2>1 DEF RowChange, AlwaysInv, TypeOK
    <2>5. \A j \in Keys : Live(j)' = Live(j) BY <2>2 DEF Live
    <2>6. \A j \in Keys : Live(j) # {} => rows[j] # NoRow BY <1>0, <1>00, <2>2 DEF InStep
    <2>7. op'.key = k /\ (op'.op = "INSERT" => rows[k] = NoRow)
          /\ (op'.op # "DELETE" => rows'[k] = d)
      BY <2>3 DEF op
    <2>8. op'.op = "INSERT" => Live(op.key)' = {}
      BY <2>2, <2>6, <2>7 DEF Live
    <2> QED BY <1>00, <2>2, <2>3, <2>4, <2>5, <2>6, <2>7, <2>8, NoRowAssumption DEF InStep
  (* The change in progress is done.                                       *)
  <1>2. CASE pos' = pos + 1 /\ Busy /\ (FindCurrent \/ ExpireEdges \/ PutEdges)
    <2>1. UNCHANGED <<rows, hist, versions>>
      BY <1>2 DEF FindCurrent, ExpireEdges, PutEdges, sourceVars, dbVars
    <2>2. pos' = Len(hist') BY <1>0, <1>00, <1>2, <2>1 DEF AlwaysInv, Progress, InStep
    <2>3. op.op = "DELETE" => Live(op.key) = {}
      BY <1>0, <1>00, <1>2 DEF FindCurrent, ExpireEdges, PutEdges, NoneLive, AlwaysInv, Progress,
         Done, Return
    <2>4. \A k \in Keys : Live(k)' = Live(k) BY <2>1 DEF Live
    <2>5. \A k \in Keys : Live(k) # {} => rows[k] # NoRow
      BY <1>0, <1>00, <1>2, <2>3 DEF InStep, AlwaysInv, Progress
    <2> QED BY <1>00, <2>1, <2>2, <2>4, <2>5 DEF InStep
  (* Anything else.                                                        *)
  <1>3. CASE UNCHANGED <<rows, hist, pos>>
    <2>1. op' = op BY <1>3 DEF op
    <2>2. PutVersion => pos < Len(hist) /\ pc' = "put_edges"
      BY <1>0 DEF PutVersion, AlwaysInv, Progress, Busy
    <2>3. ASSUME NEW k \in Keys, Live(k)' # {}, ~(pos < Len(hist) /\ op.key = k)
          PROVE  rows[k] # NoRow
      <3>1. PICK e \in versions' : e.key = k /\ e.expired >= Never BY <2>3 DEF Live
      <3>2. Live(k) # {} BY <1>0, <2>2, <2>3, <3>1, LiveStep DEF Live
      <3> QED BY <1>0, <2>3, <3>2 DEF InStep
    <2>4. ASSUME pos < Len(hist), op.op = "INSERT", pc' # "put_edges"
          PROVE  Live(op.key)' = {}
      <3> SUFFICES ASSUME Live(op.key)' # {} PROVE FALSE OBVIOUS
      <3>1. PICK e \in versions' : e.key = op.key /\ e.expired >= Never BY <2>1 DEF Live
      <3>2. Live(op.key) # {} BY <1>0, <2>2, <2>4, <3>1, LiveStep DEF Live
      <3>3. pc = "put_edges" BY <1>0, <2>4, <3>2 DEF InStep
      <3>4. PutEdges
        BY <1>0, <2>4, <3>3 DEF Next, Apply, vars, Commit, Tick, AgeOut, Begin, FindCurrent,
           ExpireEntity, ExpireEdges, PutProxyIn, PutProxyOut, PutProxy, PutVersion
      <3> QED BY <1>3, <1>00, <3>4 DEF PutEdges, Done
    <2>5. /\ Len(hist') <= pos' + 1
          /\ pos' < Len(hist') /\ op'.op # "DELETE" => rows'[op'.key] # NoRow
      BY <1>0, <1>3, <2>1 DEF InStep
    <2> QED BY <1>3, <2>1, <2>3, <2>4, <2>5 DEF InStep
  <1>4. Commit \/ UNCHANGED <<rows, hist, pos>>
        \/ (pos' = pos + 1 /\ Busy /\ (FindCurrent \/ ExpireEdges \/ PutEdges))
    BY <1>0 DEF Next, Apply, vars, Tick, AgeOut, Begin, FindCurrent, ExpireEntity, ExpireEdges,
       PutProxyIn, PutProxyOut, PutProxy, PutVersion, PutEdges, Done, Return, Busy,
       sourceVars, feedVars
  <1> QED BY <1>1, <1>2, <1>3, <1>4

LEMMA DisjointStep ==
  ASSUME Inv, [Next]_vars
  PROVE  IntervalsDisjoint'
  <1> SUFFICES ASSUME ~ReplayedAfterAging',
                      NEW e \in versions', NEW f \in versions', e.key = f.key, e # f
               PROVE  Disjoint(e, f)
    BY DEF IntervalsDisjoint, Disjoint
  <1>0. AlwaysInv /\ ~ReplayedAfterAging BY Remembered DEF Inv
  <1>1. \A x, y \in versions : x.key = y.key /\ x # y => Disjoint(x, y)
    BY <1>0 DEF Inv, IntervalsDisjoint
  <1>2. /\ now \in Nat /\ clock \in Nat /\ now <= clock /\ clock < Never
        /\ \A x \in versions : x.created \in Nat /\ x.expired \in Nat /\ x.created <= clock
    BY <1>0 DEF AlwaysInv, TypeOK, Times, Versions, Stamps, Dated
  <1>3. CASE versions' \subseteq versions BY <1>1, <1>3
  (* Closing the live version ends it before, or after, all the others.    *)
  <1>4. CASE ExpireEntity
    <2>0. pc = "expire" BY <1>4 DEF ExpireEntity
    <2>1. PICK x \in versions :
            /\ e = (IF x.key = op.key /\ x.n = n THEN [x EXCEPT !.expired = now] ELSE x)
            /\ e.key = x.key /\ e.created = x.created
            /\ (x.key = op.key /\ x.n = n) => e.expired = now
            /\ ~(x.key = op.key /\ x.n = n) => e = x
      BY <1>0, <1>4, ExpireKeeps
    <2>2. PICK y \in versions :
            /\ f = (IF y.key = op.key /\ y.n = n THEN [y EXCEPT !.expired = now] ELSE y)
            /\ f.key = y.key /\ f.created = y.created
            /\ (y.key = op.key /\ y.n = n) => f.expired = now
            /\ ~(y.key = op.key /\ y.n = n) => f = y
      BY <1>0, <1>4, ExpireKeeps
    <2>3. x # y /\ x.key = y.key BY <2>1, <2>2
    <2>4. Disjoint(x, y) BY <1>1, <2>3
    <2>5. CASE x.key = op.key /\ x.n = n
      <3>1. x.expired = Never BY <1>0, <2>0, <2>5, Found
      <3>2. f = y
        BY <1>0, <2>2, <2>3, <2>5 DEF AlwaysInv, UniqueNumbers
      <3> QED BY <1>2, <2>1, <2>4, <3>1, <3>2 DEF Disjoint
    <2>6. CASE y.key = op.key /\ y.n = n
      <3>1. y.expired = Never BY <1>0, <2>0, <2>6, Found
      <3>2. e = x
        BY <1>0, <2>1, <2>3, <2>6 DEF AlwaysInv, UniqueNumbers
      <3> QED BY <1>2, <2>2, <2>4, <3>1, <3>2 DEF Disjoint
    <2>7. CASE ~(x.key = op.key /\ x.n = n) /\ ~(y.key = op.key /\ y.n = n)
      BY <2>1, <2>2, <2>4, <2>7
    <2> QED BY <2>5, <2>6, <2>7
  (* A new version begins when no other is live.                           *)
  <1>5. CASE PutVersion /\ ~Has(versions, op.key, n)
    <2>0. pc = "put_version" /\ Busy /\ pos < Len(hist)
      BY <1>0, <1>5 DEF PutVersion, Busy, AlwaysInv, Progress
    <2>1. Live(op.key) = {} \/ \A x \in versions : x.key # op.key
      <3>1. CASE op.op # "INSERT" BY <1>0, <2>0, <3>1 DEF Inv, NoneLive
      <3>2. CASE op.op = "INSERT" /\ ~aged
        <4>1. n = 0 BY <1>0, <3>2 DEF AlwaysInv, Progress
        <4>2. \A x \in versions : Has(versions, x.key, 0) BY <1>0, <3>2 DEF Inv, Rooted
        <4> QED BY <1>5, <4>1, <4>2
      <3>3. CASE op.op = "INSERT" /\ aged
        <4>1. redeliveries \in Nat /\ aborts \in Nat BY <1>0 DEF AlwaysInv, TypeOK
        <4>2. redeliveries + aborts = 0 BY <1>0, <3>3, <4>1 DEF ReplayedAfterAging
        <4> QED BY <1>0, <2>0, <3>3, <4>2 DEF Inv, InStep
      <3> QED BY <3>1, <3>2, <3>3
    <2>2. \A x \in versions : x.key = op.key => x.expired <= now
      <3> SUFFICES ASSUME NEW x \in versions, x.key = op.key PROVE x.expired <= now OBVIOUS
      <3>1. x.expired < Never BY <1>2, <2>1 DEF Live
      <3> QED BY <1>0, <2>0, <3>1 DEF AlwaysInv, Stamps, Dated
    <2>3. versions' = versions \cup {[key |-> op.key, n |-> n, created |-> now,
                                      expired |-> Never, data |-> op.data]}
      BY <1>5 DEF PutVersion
    <2> QED BY <1>1, <2>2, <2>3 DEF Disjoint
  <1>6. PutVersion => versions' = versions \/ ~Has(versions, op.key, n) BY DEF PutVersion
  <1> QED BY <1>3, <1>4, <1>5, <1>6, VersionsStep DEF AgeOut

LEMMA InvStep == Inv /\ [Next]_vars => Inv'
  BY AlwaysStep, NoneLiveStep, RootedStep, InStepStep, DisjointStep DEF Inv

(***************************************************************************)
(* What is current when the feed has caught up                             *)
(***************************************************************************)

(* What a change leaves of its entity; what the changes up to a place have *)
(* left of it; and what there is.                                          *)
After(c) == IF c.op = "DELETE" THEN {} ELSE {c.data}
Begun(l, k, o) == \E i \in 1 .. o : l[i].key = k
Stood(l, k, o, x) ==
  \/ x = {} /\ ~Begun(l, k, o)
  \/ \E i \in 1 .. o : /\ l[i].key = k /\ x = After(l[i])
                       /\ \A j \in (i + 1) .. o : l[j].key # k
InTable(k) == IF rows[k] = NoRow THEN {} ELSE {rows[k]}
Contents(k) == {e.data : e \in Live(k)}

(* The changes of an entity begin with an insert, and so they do again     *)
(* after a delete; the last of them left what the table has.               *)
Opened == \A j \in 1 .. Len(hist) :
  \E i \in 1 .. j : hist[i].key = hist[j].key /\ hist[i].op = "INSERT"
Reopened == \A i, j \in 1 .. Len(hist) :
  i < j /\ hist[i].key = hist[j].key /\ hist[i].op = "DELETE" =>
    \E m \in (i + 1) .. j : hist[m].key = hist[j].key /\ hist[m].op = "INSERT"
Recorded == \A k \in Keys : Stood(hist, k, Len(hist), InTable(k))

(* The current version of an entity is what it was at some place that is   *)
(* not before the feed's, and is the feed's if that has never gone back.   *)
(* (An insert replayed before that place finds version 0 and does nothing; *)
(* an update brings the place back to where the feed is.)                  *)
Shows(k, from) ==
  \E o \in from .. Len(hist) :
    /\ Stood(hist, k, o, Contents(k))
    /\ redeliveries = 0 => o = from
    /\ (\E e \in versions : e.key = k) => Begun(hist, k, o)
    /\ ~aged /\ Begun(hist, k, o) => Has(versions, k, 0)
Midway(k) == pc \in {"expire_edges", "put_version"} /\ (pc = "put_version" => n # 0) /\ k = op.key
Reached(k) == IF pc = "put_edges" /\ k = op.key THEN pos + 1 ELSE pos
Showing == \A k \in Keys : ~Midway(k) => Shows(k, Reached(k))
LiveIsLast == \A e, f \in versions : e.key = f.key /\ f.expired = Never => e.n <= f.n
NextIsNew ==
  /\ pc = "expire_edges" => \A e \in versions : e.key = op.key => e.n <= n
  /\ pc = "put_version" /\ n # 0 => \A e \in versions : e.key = op.key => e.n < n

Undisturbed == aborts = 0 /\ ~Reinserted /\ ~ReplayedAfterAging
CurrentInv ==
  /\ Opened /\ Reopened /\ Recorded
  /\ Undisturbed => Showing /\ LiveIsLast /\ NextIsNew

LEMMA CurrentInit == Init => CurrentInv
  <1> SUFFICES ASSUME Init PROVE CurrentInv OBVIOUS
  <1> USE DEF Init
  <1>1. Len(hist) = 0 /\ versions = {} /\ pos = 0 /\ pc = "idle" OBVIOUS
  <1>2. Opened /\ Reopened BY <1>1 DEF Opened, Reopened
  <1>3. ASSUME NEW k \in Keys PROVE InTable(k) = {} /\ ~Begun(hist, k, 0) /\ Contents(k) = {}
    BY <1>1 DEF InTable, Begun, Contents, Live
  <1>4. Recorded BY <1>1, <1>3 DEF Recorded, Stood
  <1>5. \A k \in Keys : Shows(k, Reached(k)) BY <1>1, <1>3 DEF Shows, Reached, Stood
  <1> QED BY <1>1, <1>2, <1>4, <1>5 DEF CurrentInv, Showing, LiveIsLast, NextIsNew

(* A place has left one thing of an entity.                                *)
LEMMA StoodOnce ==
  ASSUME NEW l, NEW k, NEW o \in Nat, NEW x, NEW y, Stood(l, k, o, x), Stood(l, k, o, y)
  PROVE  x = y
  <1>1. CASE ~Begun(l, k, o) BY <1>1 DEF Stood, Begun
  <1>2. CASE Begun(l, k, o)
    <2>1. PICK i \in 1 .. o : /\ l[i].key = k /\ x = After(l[i])
                              /\ \A j \in (i + 1) .. o : l[j].key # k
      BY <1>2 DEF Stood
    <2>2. PICK h \in 1 .. o : /\ l[h].key = k /\ y = After(l[h])
                              /\ \A j \in (h + 1) .. o : l[j].key # k
      BY <1>2 DEF Stood
    <2>3. i = h BY <2>1, <2>2
    <2> QED BY <2>1, <2>2, <2>3
  <1> QED BY <1>1, <1>2

LEMMA StoodNext ==
  ASSUME NEW l, NEW k, NEW o \in Nat
  PROVE  /\ l[o + 1].key = k => Stood(l, k, o + 1, After(l[o + 1])) /\ Begun(l, k, o + 1)
         /\ l[o + 1].key # k => \A x : Stood(l, k, o, x) => Stood(l, k, o + 1, x)
         /\ l[o + 1].key # k => (Begun(l, k, o + 1) <=> Begun(l, k, o))
  <1>1. CASE l[o + 1].key = k
    <2>1. o + 1 \in 1 .. (o + 1) /\ \A j \in (o + 1 + 1) .. (o + 1) : FALSE OBVIOUS
    <2> QED BY <1>1, <2>1 DEF Stood, Begun
  <1>2. CASE l[o + 1].key # k
    <2>1. \A j \in 1 .. (o + 1) : j \in 1 .. o \/ j = o + 1 OBVIOUS
    <2>2. \A j \in 1 .. o : j \in 1 .. (o + 1) OBVIOUS
    <2>3. Begun(l, k, o + 1) <=> Begun(l, k, o) BY <1>2, <2>1, <2>2 DEF Begun
    <2>4. ASSUME NEW x, Stood(l, k, o, x) PROVE Stood(l, k, o + 1, x)
      <3>1. CASE x = {} /\ ~Begun(l, k, o) BY <2>3, <3>1 DEF Stood
      <3>2. CASE ~(x = {} /\ ~Begun(l, k, o))
        <4>1. PICK i \in 1 .. o : /\ l[i].key = k /\ x = After(l[i])
                                  /\ \A j \in (i + 1) .. o : l[j].key # k
          BY <2>4, <3>2 DEF Stood
        <4>2. \A j \in (i + 1) .. (o + 1) : l[j].key # k
          <5> TAKE j \in (i + 1) .. (o + 1)
          <5>1. j \in (i + 1) .. o \/ j = o + 1 OBVIOUS
          <5> QED BY <1>2, <4>1, <5>1
        <4> QED BY <2>2, <4>1, <4>2 DEF Stood
      <3> QED BY <3>1, <3>2
    <2> QED BY <1>2, <2>3, <2>4
  <1> QED BY <1>1, <1>2

(* With no key used twice, an insert is the first change of its entity,    *)
(* others find it there, and nothing comes after a delete.                 *)
LEMMA OfOneLife ==
  ASSUME Opened, Reopened, ~Reinserted, hist \in Seq(Changes),
         NEW j \in 1 .. Len(hist), NEW k, hist[j].key = k
  PROVE  /\ hist[j].op = "INSERT" => ~Begun(hist, k, j - 1)
         /\ hist[j].op # "INSERT" => Begun(hist, k, j - 1) /\ ~Stood(hist, k, j - 1, {})
  <1>0. Len(hist) \in Nat /\ DOMAIN hist = 1 .. Len(hist) OBVIOUS
  <1>1. PICK i \in 1 .. j : hist[i].key = k /\ hist[i].op = "INSERT" BY DEF Opened
  <1>2. i \in 1 .. Len(hist) BY <1>0
  <1>3. ASSUME hist[j].op = "INSERT", Begun(hist, k, j - 1) PROVE FALSE
    <2>1. PICK h \in 1 .. (j - 1) : hist[h].key = k BY <1>3 DEF Begun
    <2>2. h \in 1 .. Len(hist) BY <1>0, <2>1
    <2>3. PICK g \in 1 .. h : hist[g].key = k /\ hist[g].op = "INSERT" BY <2>1, <2>2 DEF Opened
    <2>4. g \in 1 .. Len(hist) /\ g # j BY <1>0, <2>1, <2>3
    <2> QED BY <1>0, <1>3, <2>3, <2>4 DEF Reinserted
  <1>4. ASSUME hist[j].op # "INSERT" PROVE Begun(hist, k, j - 1) /\ ~Stood(hist, k, j - 1, {})
    <2>1. i # j BY <1>1, <1>4
    <2>2. i \in 1 .. (j - 1) BY <2>1
    <2>3. Begun(hist, k, j - 1) BY <1>1, <2>2 DEF Begun
    <2>4. ASSUME Stood(hist, k, j - 1, {}) PROVE FALSE
      <3>1. PICK h \in 1 .. (j - 1) : hist[h].key = k /\ {} = After(hist[h])
        BY <2>3, <2>4 DEF Stood
      <3>2. hist[h].op = "DELETE" /\ h \in 1 .. Len(hist) /\ h < j
        <4>1. hist[h].op = "DELETE" BY <3>1 DEF After
        <4>2. h \in 1 .. Len(hist) /\ h < j BY <1>0, <3>1
        <4> QED BY <4>1, <4>2
      <3>3. PICK m \in (h + 1) .. j : hist[m].key = k /\ hist[m].op = "INSERT"
        BY <3>1, <3>2 DEF Reopened
      <3>4. PICK g \in 1 .. h : hist[g].key = k /\ hist[g].op = "INSERT" BY <3>1, <3>2 DEF Opened
      <3>5. m \in 1 .. Len(hist) /\ g \in 1 .. Len(hist) /\ m # g BY <1>0, <3>2, <3>3, <3>4
      <3> QED BY <1>0, <3>3, <3>4, <3>5 DEF Reinserted
    <2> QED BY <2>3, <2>4
  <1> QED BY <1>3, <1>4

(* The table's history only grows.                                         *)
LEMMA HistoryGrows ==
  ASSUME AlwaysInv, [Next]_vars
  PROVE  /\ Len(hist) \in Nat /\ Len(hist') \in Nat /\ Len(hist) <= Len(hist')
         /\ DOMAIN hist = 1 .. Len(hist) /\ DOMAIN hist' = 1 .. Len(hist')
         /\ \A i \in 1 .. Len(hist) : hist'[i] = hist[i]
  <1>0. hist \in Seq(Changes) BY DEF AlwaysInv, TypeOK
  <1>1. CASE hist' = hist BY <1>0, <1>1
  <1>2. CASE Commit
    <2>1. PICK k \in Keys, d \in Data : RowChange(k, d) BY <1>2 DEF Commit
    <2>2. PICK c \in Changes : hist' = Append(hist, c) BY <2>1 DEF RowChange, Change, Changes
    <2> QED BY <1>0, <2>2
  <1> QED BY <1>1, <1>2 DEF Next, Apply, vars, Tick, Redeliver, AgeOut, Begin, FindCurrent, ExpireEntity,
             ExpireEdges, PutProxyIn, PutProxyOut, PutProxy, PutVersion, PutEdges, Abort, sourceVars

(* What happened up to a place is not changed by what happens after it.    *)
LEMMA StoodGrows ==
  ASSUME NEW l, NEW h, NEW o \in Nat, \A i \in 1 .. o : h[i] = l[i], NEW k
  PROVE  (Begun(h, k, o) <=> Begun(l, k, o)) /\ \A x : Stood(l, k, o, x) => Stood(h, k, o, x)
  <1>1. Begun(h, k, o) <=> Begun(l, k, o) BY DEF Begun
  <1>2. ASSUME NEW x, Stood(l, k, o, x) PROVE Stood(h, k, o, x)
    <2>1. CASE x = {} /\ ~Begun(l, k, o) BY <1>1, <2>1 DEF Stood
    <2>2. CASE ~(x = {} /\ ~Begun(l, k, o))
      <3>1. PICK i \in 1 .. o : /\ l[i].key = k /\ x = After(l[i])
                                /\ \A j \in (i + 1) .. o : l[j].key # k
        BY <1>2, <2>2 DEF Stood
      <3>2. \A j \in (i + 1) .. o : j \in 1 .. o OBVIOUS
      <3> QED BY <3>1, <3>2 DEF Stood
    <2> QED BY <2>1, <2>2
  <1> QED BY <1>1, <1>2

(* A change of the table is recorded as what it is.                        *)
LEMMA LegalStep ==
  ASSUME AlwaysInv, Opened, Reopened, Recorded, [Next]_vars
  PROVE  Opened' /\ Reopened' /\ Recorded'
  <1>1. CASE UNCHANGED <<rows, hist>>
    <2>1. Opened' /\ Reopened' BY <1>1 DEF Opened, Reopened
    <2>2. ASSUME NEW k \in Keys PROVE Stood(hist, k, Len(hist), InTable(k))'
      <3>1. Stood(hist, k, Len(hist), InTable(k)) BY DEF Recorded
      <3> QED BY <1>1, <3>1 DEF Stood, Begun, InTable
    <2> QED BY <2>1, <2>2 DEF Recorded
  <1>2. CASE Commit
    <2>0. hist \in Seq(Changes) /\ rows \in [Keys -> Data \cup {NoRow}] BY DEF AlwaysInv, TypeOK
    <2>1. PICK k \in Keys, d \in Data : RowChange(k, d) BY <1>2 DEF Commit
    <2>2. PICK c \in Changes :
            /\ hist' = Append(hist, c)
            /\ c.key = k /\ c.op \in {"INSERT", "REPLACE", "DELETE"} /\ c.data = d
            /\ (c.op = "INSERT") <=> (rows[k] = NoRow)
            /\ rows' = [rows EXCEPT ![k] = IF c.op = "DELETE" THEN NoRow ELSE d]
      <3>1. d # NoRow BY NoRowAssumption
      <3>2. PICK kind \in {"INSERT", "REPLACE", "DELETE"} :
              /\ hist' = Append(hist, Change(kind, k, d))
              /\ (kind = "INSERT") <=> (rows[k] = NoRow)
              /\ rows' = [rows EXCEPT ![k] = IF kind = "DELETE" THEN NoRow ELSE d]
        BY <2>1, <3>1 DEF RowChange
      <3>3. Change(kind, k, d).key = k /\ Change(kind, k, d).op = kind /\ Change(kind, k, d).data = d
            /\ Change(kind, k, d) \in Changes
        BY DEF Change, Changes
      <3> QED BY <3>2, <3>3
    <2>20. PICK L \in Nat : L = Len(hist) BY <2>0
    <2>3. /\ Len(hist') = L + 1 /\ hist'[L + 1] = c
          /\ \A i \in 1 .. L : hist'[i] = hist[i]
      <3> QED BY <2>0, <2>2, <2>20
    <2>4. PICK h : h = hist' OBVIOUS
    <2>5. /\ Len(h) = L + 1 /\ h[L + 1] = c /\ \A i \in 1 .. L : h[i] = hist[i]
      BY <2>3, <2>4
    <2>6. \A i \in 1 .. (L + 1) : i \in 1 .. L \/ i = L + 1 OBVIOUS
    <2>7. Stood(hist, k, L, InTable(k)) BY <2>2, <2>20 DEF Recorded
    <2>8. (c.op # "INSERT") => \E i \in 1 .. L : /\ hist[i].key = k /\ hist[i].op # "DELETE"
                                                 /\ \A j \in (i + 1) .. L : hist[j].key # k
      <3> SUFFICES ASSUME c.op # "INSERT"
                   PROVE  \E i \in 1 .. L : /\ hist[i].key = k /\ hist[i].op # "DELETE"
                                            /\ \A j \in (i + 1) .. L : hist[j].key # k
        OBVIOUS
      <3>1. InTable(k) # {} BY <2>2 DEF InTable
      <3>2. PICK i \in 1 .. L : /\ hist[i].key = k /\ InTable(k) = After(hist[i])
                                /\ \A j \in (i + 1) .. L : hist[j].key # k
        BY <2>7, <3>1 DEF Stood
      <3>3. hist[i].op # "DELETE" BY <3>1, <3>2 DEF After
      <3> QED BY <3>2, <3>3
    <2>9. Opened'
      <3>1. ASSUME NEW j \in 1 .. (L + 1)
            PROVE  \E i \in 1 .. j : h[i].key = h[j].key /\ h[i].op = "INSERT"
        <4>1. CASE j \in 1 .. L
          <5>1. PICK i \in 1 .. j : hist[i].key = hist[j].key /\ hist[i].op = "INSERT"
            BY <2>20, <4>1 DEF Opened
          <5>2. i \in 1 .. L BY <4>1
          <5> QED BY <2>5, <4>1, <5>1, <5>2
        <4>2. CASE j = L + 1 /\ c.op = "INSERT" BY <2>5, <4>2
        <4>3. CASE j = L + 1 /\ c.op # "INSERT"
          <5>1. PICK g \in 1 .. L : hist[g].key = k BY <2>8, <4>3
          <5>2. PICK i \in 1 .. g : hist[i].key = hist[g].key /\ hist[i].op = "INSERT"
            BY <2>20, <5>1 DEF Opened
          <5>3. i \in 1 .. L /\ i \in 1 .. (L + 1) BY <5>1, <5>2
          <5> QED BY <2>2, <2>5, <4>3, <5>1, <5>2, <5>3
        <4> QED BY <2>6, <4>1, <4>2, <4>3
      <3> QED BY <2>3, <2>4, <2>5, <3>1 DEF Opened
    <2>10. Reopened'
      <3>1. ASSUME NEW i \in 1 .. (L + 1), NEW j \in 1 .. (L + 1),
                   i < j, h[i].key = h[j].key, h[i].op = "DELETE"
            PROVE  \E m \in (i + 1) .. j : h[m].key = h[j].key /\ h[m].op = "INSERT"
        <4>0. i \in 1 .. L BY <2>6, <3>1
        <4>1. CASE j \in 1 .. L
          <5>1. hist[i].key = hist[j].key /\ hist[i].op = "DELETE" BY <2>5, <3>1, <4>0, <4>1
          <5>2. PICK m \in (i + 1) .. j : hist[m].key = hist[j].key /\ hist[m].op = "INSERT"
            BY <2>20, <3>1, <4>0, <4>1, <5>1 DEF Reopened
          <5>3. m \in 1 .. L BY <4>0, <4>1
          <5> QED BY <2>5, <4>1, <5>2, <5>3
        <4>2. CASE j = L + 1 /\ c.op = "INSERT"
          <5>1. j \in (i + 1) .. j BY <4>0, <4>2
          <5> QED BY <2>5, <4>2, <5>1
        <4>3. CASE j = L + 1 /\ c.op # "INSERT"
          <5>1. PICK g \in 1 .. L : /\ hist[g].key = k /\ hist[g].op # "DELETE"
                                    /\ \A x \in (g + 1) .. L : hist[x].key # k
            BY <2>8, <4>3
          <5>2. hist[i].key = k /\ hist[i].op = "DELETE" BY <2>2, <2>5, <3>1, <4>0, <4>3
          <5>3. i < g BY <4>0, <5>1, <5>2
          <5>4. PICK m \in (i + 1) .. g : hist[m].key = hist[g].key /\ hist[m].op = "INSERT"
            BY <2>20, <4>0, <5>1, <5>2, <5>3 DEF Reopened
          <5>5. m \in 1 .. L /\ m \in (i + 1) .. j BY <4>0, <4>3
          <5> QED BY <2>2, <2>5, <4>3, <5>1, <5>4, <5>5
        <4> QED BY <2>6, <4>1, <4>2, <4>3
      <3>2. Len(h) = L + 1 BY <2>5
      <3> QED BY <2>4, <3>1, <3>2 DEF Reopened
    <2>11. ASSUME NEW q \in Keys PROVE Stood(h, q, L + 1, InTable(q)')
      <3>1. Stood(hist, q, L, InTable(q)) BY <2>2, <2>20 DEF Recorded
      <3>2. Stood(h, q, L, InTable(q))
        <4>1. PICK x : x = InTable(q) OBVIOUS
        <4>2. \A y : Stood(hist, q, L, y) => Stood(h, q, L, y) BY <2>5, StoodGrows
        <4> QED BY <3>1, <4>1, <4>2
      <3>3. CASE q = k
        <4>1. After(c) = InTable(q)'
          <5>1. rows'[k] = IF c.op = "DELETE" THEN NoRow ELSE d BY <2>0, <2>2
          <5> QED BY <2>2, <3>3, <5>1, NoRowAssumption DEF After, InTable
        <4>2. Stood(h, k, L + 1, After(h[L + 1])) BY <2>2, <2>5, StoodNext
        <4> QED BY <2>5, <3>3, <4>1, <4>2
      <3>4. CASE q # k
        <4>1. rows'[q] = rows[q] BY <2>0, <2>2, <3>4
        <4>2. InTable(q)' = InTable(q) BY <4>1 DEF InTable
        <4>3. Stood(h, q, L + 1, InTable(q))
          <5>1. PICK x : x = InTable(q) OBVIOUS
          <5>2. h[L + 1].key # q BY <2>2, <2>5, <3>4
          <5>3. \A y : Stood(h, q, L, y) => Stood(h, q, L + 1, y) BY <5>2, StoodNext
          <5> QED BY <3>2, <5>1, <5>3
        <4> QED BY <4>2, <4>3
      <3> QED BY <3>3, <3>4
    <2>12. Recorded' BY <2>4, <2>5, <2>11 DEF Recorded
    <2> QED BY <2>9, <2>10, <2>12
  <1> QED BY <1>1, <1>2 DEF Next, Apply, vars, Tick, Redeliver, AgeOut, Begin, FindCurrent, ExpireEntity,
             ExpireEdges, PutProxyIn, PutProxyOut, PutProxy, PutVersion, PutEdges, Abort, sourceVars

(* What disturbs is not forgotten.                                         *)
LEMMA StillUndisturbed ==
  ASSUME AlwaysInv, [Next]_vars, Undisturbed'
  PROVE  Undisturbed /\ ~Abort
  <1>1. aborts \in Nat BY DEF AlwaysInv, TypeOK
  <1>2. aborts' = aborts \/ Abort
    BY DEF Next, Apply, vars, Commit, Tick, Redeliver, AgeOut, Begin, FindCurrent, ExpireEntity,
           ExpireEdges, PutProxyIn, PutProxyOut, PutProxy, PutVersion, PutEdges, feedVars
  <1>3. ~Abort /\ aborts = 0 BY <1>1, <1>2 DEF Abort, Undisturbed
  <1>4. ~ReplayedAfterAging BY Remembered DEF Undisturbed
  <1>5. ~Reinserted
    <2> SUFFICES ASSUME NEW i \in DOMAIN hist, NEW j \in DOMAIN hist, i # j,
                        hist[i].op = "INSERT" /\ hist[j].op = "INSERT" /\ hist[i].key = hist[j].key
                 PROVE  FALSE
      BY DEF Reinserted
    <2>1. i \in DOMAIN hist' /\ j \in DOMAIN hist' /\ hist'[i] = hist[i] /\ hist'[j] = hist[j]
      BY HistoryGrows
    <2>2. ~Reinserted' BY DEF Undisturbed
    <2> QED BY <2>1, <2>2 DEF Reinserted
  <1> QED BY <1>3, <1>4, <1>5 DEF Undisturbed

(* An entity that a step does not touch shows what it did, there or at any *)
(* place before, if the feed goes back.                                    *)
LEMMA ShowsKept ==
  ASSUME AlwaysInv, [Next]_vars, Undisturbed', NEW k, NEW from \in Nat, Shows(k, from),
         Live(k)' = Live(k),
         (\E e \in versions' : e.key = k) => \E e \in versions : e.key = k,
         AgeOut \/ (Has(versions, k, 0) => Has(versions', k, 0)),
         NEW to \in Nat, to <= from, to = from \/ redeliveries' # 0
  PROVE  Shows(k, to)'
  <1>1. PICK o \in from .. Len(hist) :
          /\ Stood(hist, k, o, Contents(k))
          /\ redeliveries = 0 => o = from
          /\ (\E e \in versions : e.key = k) => Begun(hist, k, o)
          /\ ~aged /\ Begun(hist, k, o) => Has(versions, k, 0)
    BY DEF Shows
  <1>2. o \in Nat /\ o \in to .. Len(hist') /\ \A i \in 1 .. o : hist'[i] = hist[i]
    BY <1>1, HistoryGrows
  <1>3. PICK h : h = hist' OBVIOUS
  <1>4. (Begun(h, k, o) <=> Begun(hist, k, o)) /\ \A x : Stood(hist, k, o, x) => Stood(h, k, o, x)
    BY <1>2, <1>3, StoodGrows
  <1>5. PICK x : x = Contents(k) OBVIOUS
  <1>6. x = Contents(k)' BY <1>5 DEF Contents
  <1>7. Stood(h, k, o, x) BY <1>1, <1>4, <1>5
  <1>8. aborts = 0 /\ redeliveries \in Nat /\ aborts' = 0 /\ redeliveries' \in Nat
    BY StillUndisturbed, TypeStep DEF Undisturbed, AlwaysInv, TypeOK
  <1>9. redeliveries' = 0 => redeliveries = 0 BY <1>8, Remembered
  <1>10. ~aged' => ~aged /\ ~AgeOut BY Remembered DEF AgeOut
  <1>11. redeliveries' = 0 => o = to BY <1>1, <1>9
  <1>12. (\E e \in versions' : e.key = k) => Begun(h, k, o) BY <1>1, <1>4
  <1>13. ~aged' /\ Begun(h, k, o) => Has(versions', k, 0) BY <1>1, <1>4, <1>10
  <1> QED BY <1>2, <1>3, <1>6, <1>7, <1>11, <1>12, <1>13 DEF Shows

(* A change of another entity is passed over.                              *)
LEMMA ShowsPast ==
  ASSUME AlwaysInv, NEW k, Shows(k, pos), pos < Len(hist), op.key # k
  PROVE  Shows(k, pos + 1)
  <1>0. pos \in Nat /\ Len(hist) \in Nat BY DEF AlwaysInv, TypeOK
  <1>1. PICK o \in pos .. Len(hist) :
          /\ Stood(hist, k, o, Contents(k))
          /\ redeliveries = 0 => o = pos
          /\ (\E e \in versions : e.key = k) => Begun(hist, k, o)
          /\ ~aged /\ Begun(hist, k, o) => Has(versions, k, 0)
    BY DEF Shows
  <1>2. CASE o = pos
    <2>1. hist[pos + 1].key # k BY DEF op
    <2>2. /\ \A x : Stood(hist, k, pos, x) => Stood(hist, k, pos + 1, x)
          /\ Begun(hist, k, pos + 1) <=> Begun(hist, k, pos)
      BY <1>0, <2>1, StoodNext
    <2>3. PICK x : x = Contents(k) OBVIOUS
    <2>4. Stood(hist, k, pos + 1, x) BY <1>1, <1>2, <2>2, <2>3
    <2>5. pos + 1 \in (pos + 1) .. Len(hist) BY <1>0
    <2> QED BY <1>1, <1>2, <2>2, <2>3, <2>4, <2>5 DEF Shows
  <1>3. CASE o # pos
    <2>1. o \in (pos + 1) .. Len(hist) /\ redeliveries # 0 BY <1>0, <1>1, <1>3
    <2> QED BY <1>1, <2>1 DEF Shows
  <1> QED BY <1>2, <1>3

(* With its delete applied, or nothing left to delete, an entity is gone.  *)
LEMMA ShowsDeleted ==
  ASSUME AlwaysInv, Opened, Reopened, Undisturbed, pos < Len(hist), op.op = "DELETE", Live(op.key) = {},
         Has(versions, op.key, 0) \/ aged \/ Shows(op.key, pos)
  PROVE  Shows(op.key, pos + 1)
  <1>0. pos \in Nat /\ Len(hist) \in Nat /\ hist \in Seq(Changes) /\ pos + 1 \in 1 .. Len(hist)
    BY DEF AlwaysInv, TypeOK
  <1>1. PICK k : k = op.key OBVIOUS
  <1>2. hist[pos + 1].key = k /\ hist[pos + 1].op = "DELETE" BY <1>1 DEF op
  <1>3. Stood(hist, k, pos + 1, After(hist[pos + 1])) /\ Begun(hist, k, pos + 1)
    BY <1>0, <1>2, StoodNext
  <1>4. After(hist[pos + 1]) = {} /\ Contents(k) = {} BY <1>1, <1>2 DEF After, Contents
  <1>5. Stood(hist, k, pos + 1, Contents(k)) BY <1>3, <1>4
  <1>6. ~aged => Has(versions, k, 0)
    <2>1. CASE Has(versions, k, 0) \/ aged BY <2>1
    <2>2. CASE Shows(k, pos)
      <3>1. PICK o \in pos .. Len(hist) : ~aged /\ Begun(hist, k, o) => Has(versions, k, 0)
        BY <2>2 DEF Shows
      <3>2. Begun(hist, k, pos)
        <4>1. Begun(hist, k, (pos + 1) - 1) BY <1>0, <1>2, OfOneLife DEF Undisturbed
        <4> QED BY <1>0, <4>1
      <3>3. Begun(hist, k, o)
        <4>1. \A i \in 1 .. pos : i \in 1 .. o BY <1>0
        <4> QED BY <3>2, <4>1 DEF Begun
      <3> QED BY <3>1, <3>3
    <2> QED BY <1>1, <2>1, <2>2
  <1>7. pos + 1 \in (pos + 1) .. Len(hist) BY <1>0
  <1>8. Shows(k, pos + 1) BY <1>3, <1>5, <1>6, <1>7 DEF Shows
  <1> QED BY <1>1, <1>8

(* A version written is the change's; one found is of a change that was    *)
(* applied before the feed went back.                                      *)
LEMMA ShowsWritten ==
  ASSUME Inv, CurrentInv, Undisturbed, PutVersion
  PROVE  Shows(op.key, pos + 1)'
  <1>0. /\ pos \in Nat /\ Len(hist) \in Nat /\ pos < Len(hist) /\ hist \in Seq(Changes)
        /\ pos + 1 \in 1 .. Len(hist) /\ n \in Nat /\ redeliveries \in Nat
        /\ op.op # "DELETE" /\ (op.op = "INSERT" => n = 0)
    BY DEF Inv, AlwaysInv, TypeOK, Progress, Busy, PutVersion
  <1>1. PICK k : k = op.key OBVIOUS
  <1>2. hist[pos + 1].key = k /\ hist[pos + 1].op = op.op BY <1>1 DEF op
  <1>3. /\ hist' = hist /\ pos' = pos /\ redeliveries' = redeliveries /\ aged' = aged /\ op' = op
    BY DEF PutVersion, sourceVars, feedVars, op
  <1>4. /\ op.op = "INSERT" => ~Begun(hist, k, pos)
        /\ op.op # "INSERT" => ~Stood(hist, k, pos, {})
    <2>1. (pos + 1) - 1 = pos BY <1>0
    <2>2. /\ hist[pos + 1].op = "INSERT" => ~Begun(hist, k, (pos + 1) - 1)
          /\ hist[pos + 1].op # "INSERT" =>
               Begun(hist, k, (pos + 1) - 1) /\ ~Stood(hist, k, (pos + 1) - 1, {})
      BY <1>0, <1>2, OfOneLife DEF CurrentInv, Undisturbed
    <2> QED BY <1>2, <2>1, <2>2
  <1>5. op.op # "INSERT" => Live(k) = {} BY <1>1 DEF Inv, NoneLive, Undisturbed, PutVersion
  <1>6. n = 0 => \E o \in pos .. Len(hist) :
                   /\ Stood(hist, k, o, Contents(k))
                   /\ redeliveries = 0 => o = pos
                   /\ (\E e \in versions : e.key = k) => Begun(hist, k, o)
                   /\ ~aged /\ Begun(hist, k, o) => Has(versions, k, 0)
    <2> SUFFICES ASSUME n = 0 PROVE Shows(k, pos) BY DEF Shows
    <2>1. k \in Keys
      <3>1. hist[pos + 1] \in Changes BY <1>0
      <3> QED BY <1>2, <3>1 DEF Changes
    <2>2. ~Midway(k) /\ Reached(k) = pos BY DEF Midway, Reached, PutVersion
    <2> QED BY <2>1, <2>2 DEF CurrentInv, Showing
  <1>7. CASE Has(versions, k, n)
    <2>1. versions' = versions BY <1>1, <1>7 DEF PutVersion
    <2>2. n = 0
      <3> SUFFICES ASSUME n # 0 PROVE FALSE OBVIOUS
      <3>1. PICK e \in versions : e.key = k /\ e.n = n BY <1>7 DEF Has
      <3>2. e.n < n BY <1>1, <3>1 DEF CurrentInv, NextIsNew, PutVersion
      <3> QED BY <1>0, <3>1, <3>2
    <2>3. PICK o \in pos .. Len(hist) :
            /\ Stood(hist, k, o, Contents(k))
            /\ redeliveries = 0 => o = pos
            /\ (\E e \in versions : e.key = k) => Begun(hist, k, o)
            /\ ~aged /\ Begun(hist, k, o) => Has(versions, k, 0)
      BY <1>6, <2>2
    <2>4. o # pos
      <3>1. CASE op.op = "INSERT"
        <4>1. \E e \in versions : e.key = k BY <1>7 DEF Has
        <4> QED BY <1>4, <2>3, <3>1, <4>1
      <3>2. CASE op.op # "INSERT"
        <4>1. Contents(k) = {} BY <1>5, <3>2 DEF Contents
        <4>2. Stood(hist, k, o, {}) BY <2>3, <4>1
        <4> QED BY <1>4, <3>2, <4>2
      <3> QED BY <3>1, <3>2
    <2>5. o \in (pos + 1) .. Len(hist) /\ redeliveries # 0 BY <1>0, <2>3, <2>4
    <2>6. Contents(k)' = Contents(k) BY <2>1 DEF Contents, Live
    <2>7. Shows(k, pos + 1)' BY <1>3, <2>1, <2>3, <2>5, <2>6 DEF Shows
    <2> QED BY <1>1, <1>3, <2>7
  <1>8. CASE ~Has(versions, k, n)
    <2>1. PICK x : x = [key |-> k, n |-> n, created |-> now, expired |-> Never, data |-> op.data]
      OBVIOUS
    <2>2. versions' = versions \cup {x} BY <1>1, <1>8, <2>1 DEF PutVersion
    <2>3. Live(k) = {}
      <3>1. CASE op.op = "INSERT"
        <4>1. n = 0 BY <1>0, <3>1
        <4>2. PICK o \in pos .. Len(hist) :
                /\ redeliveries = 0 => o = pos
                /\ (\E e \in versions : e.key = k) => Begun(hist, k, o)
                /\ ~aged /\ Begun(hist, k, o) => Has(versions, k, 0)
          BY <1>6, <4>1
        <4>3. ASSUME \E e \in versions : e.key = k PROVE FALSE
          <5>1. Begun(hist, k, o) BY <4>2, <4>3
          <5>2. aged BY <1>8, <4>1, <4>2, <5>1
          <5>3. redeliveries = 0 BY <1>0, <5>2 DEF Undisturbed, ReplayedAfterAging
          <5> QED BY <1>4, <3>1, <4>2, <5>1, <5>3
        <4> QED BY <4>3 DEF Live
      <3> QED BY <1>5, <3>1
    <2>4. Contents(k)' = {op.data}
      <3>1. Live(k)' = {x} BY <2>1, <2>2, <2>3 DEF Live
      <3> QED BY <2>1, <3>1 DEF Contents
    <2>5. Stood(hist, k, pos + 1, After(hist[pos + 1])) /\ Begun(hist, k, pos + 1)
      BY <1>0, <1>2, StoodNext
    <2>6. After(hist[pos + 1]) = {op.data} BY <1>0 DEF After, op
    <2>7. Stood(hist, k, pos + 1, Contents(k)') BY <2>4, <2>5, <2>6
    <2>8. ~aged => Has(versions', k, 0)
      <3>1. CASE n = 0 BY <2>1, <2>2, <3>1 DEF Has
      <3>2. CASE n # 0
        <4>1. ~aged => Has(versions, k, 0) BY <1>1, <3>2 DEF Inv, Undisturbed, Rooted, PutVersion
        <4> QED BY <2>2, <4>1 DEF Has
      <3> QED BY <3>1, <3>2
    <2>9. pos + 1 \in (pos + 1) .. Len(hist) BY <1>0
    <2>10. Shows(k, pos + 1)' BY <1>3, <2>5, <2>7, <2>8, <2>9 DEF Shows
    <2> QED BY <1>1, <1>3, <2>10
  <1> QED BY <1>7, <1>8

(* A step that neither closes nor writes a version leaves what is shown.   *)
LEMMA ShowsQuietly ==
  ASSUME AlwaysInv, [Next]_vars, Undisturbed', ~ExpireEntity, ~PutVersion,
         NEW k, NEW from \in Nat, Shows(k, from),
         NEW to \in Nat, to <= from, to = from \/ redeliveries' # 0
  PROVE  Shows(k, to)'
  <1>1. CASE versions' = versions
    <2>1. Live(k)' = Live(k) /\ (Has(versions, k, 0) => Has(versions', k, 0))
      BY <1>1 DEF Live
    <2>2. (\E e \in versions' : e.key = k) => \E e \in versions : e.key = k BY <1>1
    <2> QED BY <2>1, <2>2, ShowsKept
  <1>2. CASE AgeOut
    <2>1. versions' \subseteq versions BY <1>2 DEF AgeOut
    <2>2. \A e \in versions : e.expired \in 0 .. Never BY DEF AlwaysInv, TypeOK, Versions, Times
    <2>3. \A e \in versions : e.expired >= Never => e \in versions'
      BY <1>2, <2>2 DEF AgeOut, Expirable
    <2>4. Live(k)' = Live(k) BY <2>1, <2>3 DEF Live
    <2> QED BY <1>2, <2>1, <2>4, ShowsKept
  <1> QED BY <1>1, <1>2, VersionsStep

(* And one that closes or writes a version leaves the other entities.      *)
LEMMA ShowsElsewhere ==
  ASSUME AlwaysInv, [Next]_vars, Undisturbed', ExpireEntity \/ PutVersion,
         NEW k, k # op.key, NEW from \in Nat, Shows(k, from)
  PROVE  Shows(k, from)'
  <1>0. ASSUME NEW e, e.key = k PROVE e \in versions' <=> e \in versions
    <2>1. CASE PutVersion
      <3>1. PICK x : x = [key |-> op.key, n |-> n, created |-> now, expired |-> Never, data |-> op.data]
        OBVIOUS
      <3>2. versions' = versions \/ versions' = versions \cup {x} BY <2>1, <3>1 DEF PutVersion
      <3> QED BY <1>0, <3>1, <3>2
    <2>2. CASE ExpireEntity
      <3>1. ASSUME e \in versions' PROVE e \in versions
        <4>1. PICK f \in versions : e.key = f.key /\ (~(f.key = op.key /\ f.n = n) => e = f)
          BY <2>2, <3>1, ExpireKeeps
        <4> QED BY <1>0, <4>1
      <3>2. ASSUME e \in versions PROVE e \in versions' BY <1>0, <2>2, <3>2 DEF ExpireEntity
      <3> QED BY <3>1, <3>2
    <2> QED BY <2>1, <2>2
  <1>1. Live(k)' = Live(k) BY <1>0 DEF Live
  <1>2. Has(versions, k, 0) => Has(versions', k, 0) BY <1>0 DEF Has
  <1>3. (\E e \in versions' : e.key = k) => \E e \in versions : e.key = k BY <1>0
  <1> QED BY <1>1, <1>2, <1>3, ShowsKept

LEMMA ShowingStep ==
  ASSUME Inv, CurrentInv, [Next]_vars, Undisturbed'
  PROVE  Showing'
  <1>0. AlwaysInv /\ Undisturbed /\ ~Abort /\ Showing BY StillUndisturbed DEF Inv, CurrentInv
  <1>1. pos \in Nat /\ n \in Nat /\ (Busy => pos < Len(hist))
    BY <1>0 DEF AlwaysInv, TypeOK, Progress
  <1> SUFFICES ASSUME NEW k \in Keys, ~Midway(k)' PROVE Shows(k, Reached(k))' BY DEF Showing
  <1>2. PICK to : to = Reached(k)' OBVIOUS
  <1> SUFFICES Shows(k, to)' BY <1>2
  <1>3. ~Midway(k) => Shows(k, Reached(k)) BY <1>0 DEF Showing
  <1>4. CASE pc' = pc /\ pos' = pos /\ n' = n /\ (Busy => op' = op) /\ ~ExpireEntity /\ ~PutVersion
    <2>1. ~Midway(k) /\ to = Reached(k) BY <1>2, <1>4 DEF Midway, Reached, Busy
    <2>2. to \in Nat BY <1>1, <2>1 DEF Reached
    <2> QED BY <1>0, <1>3, <1>4, <2>1, <2>2, ShowsQuietly
  <1>5. CASE Redeliver
    <2>1. pc = "idle" /\ pc' = "idle" /\ pos' \in 0 .. pos /\ redeliveries' = redeliveries + 1
      BY <1>5 DEF Redeliver
    <2>2. ~Midway(k) /\ Reached(k) = pos /\ to = pos' BY <1>2, <2>1 DEF Midway, Reached
    <2>3. to \in Nat /\ to <= pos /\ redeliveries' # 0
      <3>1. redeliveries \in Nat BY <1>0 DEF AlwaysInv, TypeOK
      <3> QED BY <1>1, <2>1, <2>2, <3>1
    <2>4. ~ExpireEntity /\ ~PutVersion BY <2>1 DEF ExpireEntity, PutVersion
    <2> QED BY <1>0, <1>1, <1>3, <2>2, <2>3, <2>4, ShowsQuietly
  <1>6. CASE Begin \/ PutProxyIn \/ PutProxyOut
    <2>1. /\ pc \in {"idle", "put_proxy_in", "put_proxy_out"} /\ pos' = pos /\ n' = n
          /\ pc' \in {"find", "put_proxy_in", "put_proxy_out", "put_version"}
      BY <1>6 DEF Begin, PutProxyIn, PutProxyOut, PutProxy, feedVars
    <2>2. ~Midway(k) /\ Reached(k) = pos /\ to = pos BY <1>2, <2>1 DEF Midway, Reached
    <2>3. ~ExpireEntity /\ ~PutVersion BY <2>1 DEF ExpireEntity, PutVersion
    <2> QED BY <1>0, <1>1, <1>3, <2>2, <2>3, ShowsQuietly
  <1>7. CASE FindCurrent
    <2>1. pc = "find" /\ ~ExpireEntity /\ ~PutVersion /\ Busy
      BY <1>7 DEF FindCurrent, ExpireEntity, PutVersion, Busy
    <2>2. ~Midway(k) /\ Reached(k) = pos BY <2>1 DEF Midway, Reached
    <2>3. Shows(k, pos) BY <1>3, <2>2
    <2>4. CASE pos' = pos /\ pc' \in {"expire", "put_proxy_in"}
      <3>1. to = pos BY <1>2, <2>4 DEF Reached
      <3> QED BY <1>0, <1>1, <2>1, <2>3, <3>1, ShowsQuietly
    <2>5. CASE Live(op.key) = {} /\ op.op = "DELETE" /\ Done
      <3>1. to = pos + 1 BY <1>2, <2>5 DEF Reached, Done, Return
      <3>2. Shows(k, pos + 1)
        <4>1. CASE k = op.key
          BY <1>0, <1>1, <2>1, <2>3, <2>5, <4>1, ShowsDeleted DEF CurrentInv
        <4>2. CASE k # op.key BY <1>0, <1>1, <2>1, <2>3, <4>2, ShowsPast
        <4> QED BY <4>1, <4>2
      <3> QED BY <1>0, <1>1, <2>1, <3>1, <3>2, ShowsQuietly
    <2> QED BY <1>7, <2>4, <2>5 DEF FindCurrent
  <1>8. CASE ExpireEdges
    <2>1. pc = "expire_edges" /\ ~ExpireEntity /\ ~PutVersion /\ Busy
      BY <1>8 DEF ExpireEdges, ExpireEntity, PutVersion, Busy
    <2>2. k # op.key => ~Midway(k) /\ Reached(k) = pos /\ Shows(k, pos)
      BY <1>3, <2>1 DEF Midway, Reached
    <2>3. CASE op.op = "DELETE"
      <3>1. to = pos + 1 BY <1>2, <1>8, <2>3 DEF ExpireEdges, Reached, Done, Return
      <3>2. Shows(k, pos + 1)
        <4>1. CASE k = op.key
          <5>1. Live(op.key) = {} /\ (Has(versions, op.key, 0) \/ aged)
            BY <1>0, <2>1 DEF Inv, Undisturbed, NoneLive, Rooted
          <5> QED BY <1>0, <1>1, <2>1, <2>3, <4>1, <5>1, ShowsDeleted DEF CurrentInv
        <4>2. CASE k # op.key BY <1>0, <1>1, <2>1, <2>2, <4>2, ShowsPast
        <4> QED BY <4>1, <4>2
      <3> QED BY <1>0, <1>1, <2>1, <3>1, <3>2, ShowsQuietly
    <2>4. CASE op.op # "DELETE"
      <3>1. pc' = "put_version" /\ n' = n + 1 /\ pos' = pos BY <1>8, <2>4 DEF ExpireEdges
      <3>2. op' = op BY <3>1, Steady DEF Busy
      <3>3. n' # 0 BY <1>1, <3>1
      <3>4. k # op.key BY <3>1, <3>2, <3>3 DEF Midway
      <3>5. to = pos BY <1>2, <3>1 DEF Reached
      <3> QED BY <1>0, <1>1, <2>1, <2>2, <3>4, <3>5, ShowsQuietly
    <2> QED BY <2>3, <2>4
  <1>9. CASE PutEdges
    <2>1. pc = "put_edges" /\ ~ExpireEntity /\ ~PutVersion /\ Busy
      BY <1>9 DEF PutEdges, ExpireEntity, PutVersion, Busy
    <2>2. to = pos + 1 BY <1>2, <1>9 DEF PutEdges, Reached, Done, Return
    <2>3. Shows(k, pos + 1)
      <3>1. ~Midway(k) BY <2>1 DEF Midway
      <3>2. CASE k = op.key BY <1>3, <2>1, <3>1, <3>2 DEF Reached
      <3>3. CASE k # op.key
        <4>1. Shows(k, pos) BY <1>3, <3>1, <3>3 DEF Reached
        <4> QED BY <1>0, <1>1, <2>1, <3>3, <4>1, ShowsPast
      <3> QED BY <3>2, <3>3
    <2> QED BY <1>0, <1>1, <2>1, <2>2, <2>3, ShowsQuietly
  <1>10. CASE ExpireEntity
    <2>1. pc = "expire" /\ pc' = "expire_edges" /\ pos' = pos BY <1>10 DEF ExpireEntity, feedVars
    <2>2. op' = op BY <2>1, Steady DEF Busy
    <2>3. k # op.key BY <2>1, <2>2 DEF Midway
    <2>4. ~Midway(k) /\ Reached(k) = pos /\ to = pos BY <1>2, <2>1 DEF Midway, Reached
    <2> QED BY <1>0, <1>1, <1>3, <1>10, <2>3, <2>4, ShowsElsewhere
  <1>11. CASE PutVersion
    <2>1. pc = "put_version" /\ pc' = "put_edges" /\ pos' = pos BY <1>11 DEF PutVersion, feedVars
    <2>2. op' = op BY <2>1, Steady DEF Busy
    <2>3. CASE k = op.key
      <3>1. to = pos + 1 BY <1>2, <2>1, <2>2, <2>3 DEF Reached
      <3>2. Shows(op.key, pos + 1)' BY <1>0, <1>11, ShowsWritten
      <3>3. to = pos' + 1 /\ k = op'.key BY <2>1, <2>2, <2>3, <3>1
      <3> QED BY <3>2, <3>3
    <2>4. CASE k # op.key
      <3>1. ~Midway(k) /\ Reached(k) = pos /\ to = pos BY <1>2, <2>1, <2>2, <2>4 DEF Midway, Reached
      <3> QED BY <1>0, <1>1, <1>3, <1>11, <2>4, <3>1, ShowsElsewhere
    <2> QED BY <2>3, <2>4
  <1>12. CASE Commit \/ Tick \/ AgeOut \/ UNCHANGED vars
    <2>1. pc' = pc /\ pos' = pos /\ n' = n
      BY <1>12 DEF Commit, Tick, AgeOut, vars, feedVars
    <2>2. Busy => op' = op BY <2>1, Steady DEF Busy
    <2>3. ~ExpireEntity /\ ~PutVersion BY <2>1 DEF ExpireEntity, PutVersion
    <2> QED BY <1>4, <2>1, <2>2, <2>3
  <1> QED BY <1>0, <1>5, <1>6, <1>7, <1>8, <1>9, <1>10, <1>11, <1>12 DEF Next, Apply

(* A version 0 is the first of its entity.                                 *)
LEMMA WrittenFirst ==
  ASSUME Inv, CurrentInv, Undisturbed, PutVersion, n = 0, ~Has(versions, op.key, 0)
  PROVE  \A e \in versions : e.key # op.key
  <1>0. /\ pos \in Nat /\ Len(hist) \in Nat /\ hist \in Seq(Changes) /\ pos + 1 \in 1 .. Len(hist)
        /\ redeliveries \in Nat
    BY DEF Inv, AlwaysInv, TypeOK, Progress, Busy, PutVersion
  <1>1. PICK k : k = op.key OBVIOUS
  <1>2. hist[pos + 1].key = k /\ hist[pos + 1].op = op.op BY <1>1 DEF op
  <1>3. /\ op.op = "INSERT" => ~Begun(hist, k, pos)
        /\ op.op # "INSERT" => ~Stood(hist, k, pos, {})
    <2>1. (pos + 1) - 1 = pos BY <1>0
    <2>2. /\ hist[pos + 1].op = "INSERT" => ~Begun(hist, k, (pos + 1) - 1)
          /\ hist[pos + 1].op # "INSERT" =>
               Begun(hist, k, (pos + 1) - 1) /\ ~Stood(hist, k, (pos + 1) - 1, {})
      BY <1>0, <1>2, OfOneLife DEF CurrentInv, Undisturbed
    <2> QED BY <1>2, <2>1, <2>2
  <1> SUFFICES ASSUME \E e \in versions : e.key = k PROVE FALSE BY <1>1
  <1>4. aged BY <1>1 DEF Inv, Undisturbed, Rooted
  <1>5. redeliveries = 0 BY <1>0, <1>4 DEF Undisturbed, ReplayedAfterAging
  <1>6. Shows(k, pos)
    <2>1. k \in Keys
      <3>1. hist[pos + 1] \in Changes BY <1>0
      <3> QED BY <1>2, <3>1 DEF Changes
    <2>2. ~Midway(k) /\ Reached(k) = pos BY DEF Midway, Reached, PutVersion
    <2> QED BY <2>1, <2>2 DEF CurrentInv, Showing
  <1>7. Stood(hist, k, pos, Contents(k)) /\ Begun(hist, k, pos)
    <2>1. PICK o \in pos .. Len(hist) :
            /\ Stood(hist, k, o, Contents(k))
            /\ redeliveries = 0 => o = pos
            /\ (\E e \in versions : e.key = k) => Begun(hist, k, o)
      BY <1>6 DEF Shows
    <2>2. PICK x : x = Contents(k) OBVIOUS
    <2>3. o = pos BY <1>5, <2>1
    <2> QED BY <2>1, <2>2, <2>3
  <1>8. op.op # "INSERT" BY <1>3, <1>7
  <1>9. Live(k) = {} BY <1>1, <1>8 DEF Inv, NoneLive, Undisturbed, PutVersion
  <1>10. Contents(k) = {} BY <1>9 DEF Contents
  <1> QED BY <1>3, <1>7, <1>8, <1>10

LEMMA LiveIsLastStep ==
  ASSUME Inv, CurrentInv, [Next]_vars, Undisturbed'
  PROVE  LiveIsLast'
  <1>0. AlwaysInv /\ Undisturbed /\ LiveIsLast BY StillUndisturbed DEF Inv, CurrentInv
  <1>00. \A e \in versions : e.n \in Nat /\ e.expired \in 0 .. Never
    BY <1>0 DEF AlwaysInv, TypeOK, Versions, Times
  <1>1. CASE versions' \subseteq versions BY <1>0, <1>1 DEF LiveIsLast
  <1>2. CASE ExpireEntity
    <2> SUFFICES ASSUME NEW e \in versions', NEW f \in versions', e.key = f.key, f.expired = Never
                 PROVE  e.n <= f.n
      BY DEF LiveIsLast
    <2>0. now < Never /\ now \in Nat BY <1>0 DEF AlwaysInv, TypeOK, Times, Stamps
    <2>1. PICK x \in versions : e.key = x.key /\ e.n = x.n BY <1>0, <1>2, ExpireKeeps
    <2>2. PICK y \in versions :
            /\ f.key = y.key /\ f.n = y.n
            /\ (y.key = op.key /\ y.n = n) => f.expired = now
            /\ ~(y.key = op.key /\ y.n = n) => f = y
      BY <1>0, <1>2, ExpireKeeps
    <2>3. f = y BY <2>0, <2>2
    <2> QED BY <1>0, <2>1, <2>2, <2>3 DEF LiveIsLast
  <1>3. CASE PutVersion /\ ~Has(versions, op.key, n)
    <2>1. PICK x : x = [key |-> op.key, n |-> n, created |-> now, expired |-> Never, data |-> op.data]
      OBVIOUS
    <2>2. versions' = versions \cup {x} /\ x.n = n /\ x.key = op.key BY <1>3, <2>1 DEF PutVersion
    <2>3. n \in Nat BY <1>0 DEF AlwaysInv, TypeOK
    <2>4. \A e \in versions : e.key = op.key => e.n < n /\ e.expired # Never
      <3>1. CASE n = 0 BY <1>0, <1>3, <3>1, WrittenFirst
      <3>2. CASE n # 0
        <4>1. op.op # "INSERT" BY <1>0, <1>3, <3>2 DEF AlwaysInv, Progress
        <4>2. Live(op.key) = {} BY <1>0, <1>3, <4>1 DEF Inv, NoneLive, Undisturbed, PutVersion
        <4>3. \A e \in versions : e.key = op.key => e.expired # Never BY <4>2 DEF Live
        <4>4. \A e \in versions : e.key = op.key => e.n < n
          BY <1>0, <1>3, <3>2 DEF CurrentInv, NextIsNew, PutVersion
        <4> QED BY <4>3, <4>4
      <3> QED BY <3>1, <3>2
    <2> SUFFICES ASSUME NEW e \in versions', NEW f \in versions', e.key = f.key, f.expired = Never
                 PROVE  e.n <= f.n
      BY DEF LiveIsLast
    <2>5. CASE f = x
      <3>1. CASE e = x BY <2>2, <2>3, <2>5, <3>1
      <3>2. CASE e \in versions
        <4>1. e.n < n BY <2>2, <2>4, <2>5, <3>2
        <4> QED BY <1>00, <2>2, <2>3, <2>5, <3>2, <4>1
      <3> QED BY <2>2, <3>1, <3>2
    <2>6. CASE f \in versions
      <3>1. f.key # op.key BY <2>4, <2>6
      <3>2. e \in versions BY <2>2, <3>1
      <3> QED BY <1>0, <2>6, <3>2 DEF LiveIsLast
    <2> QED BY <2>2, <2>5, <2>6
  <1>4. CASE PutVersion /\ Has(versions, op.key, n)
    BY <1>1, <1>4 DEF PutVersion
  <1> QED BY <1>1, <1>2, <1>3, <1>4, VersionsStep DEF AgeOut

LEMMA NextIsNewStep ==
  ASSUME Inv, CurrentInv, [Next]_vars, Undisturbed'
  PROVE  NextIsNew'
  <1>0. AlwaysInv /\ Undisturbed /\ ~Abort /\ LiveIsLast /\ NextIsNew
    BY StillUndisturbed DEF Inv, CurrentInv
  <1>00. n \in Nat /\ \A e \in versions : e.n \in Nat BY <1>0 DEF AlwaysInv, TypeOK, Versions
  <1>1. CASE pc' \notin {"expire_edges", "put_version"} BY <1>1 DEF NextIsNew
  <1>2. CASE pc' \in {"expire_edges", "put_version"}
    <2>1. op' = op BY <1>2, Steady DEF Busy
    <2>2. CASE ExpireEntity
      <3>1. pc = "expire" /\ pc' = "expire_edges" /\ n' = n BY <2>2 DEF ExpireEntity
      <3>2. PICK x \in versions : x.key = op.key /\ x.n = n /\ x.expired = Never
        BY <1>0, <3>1 DEF AlwaysInv, Progress
      <3>3. ASSUME NEW e \in versions', e.key = op.key PROVE e.n <= n
        <4>1. PICK f \in versions : e.key = f.key /\ e.n = f.n BY <1>0, <2>2, ExpireKeeps
        <4> QED BY <1>0, <3>2, <3>3, <4>1 DEF LiveIsLast
      <3> QED BY <2>1, <3>1, <3>3 DEF NextIsNew
    <2>3. CASE ExpireEdges
      <3>1. pc = "expire_edges" /\ pc' = "put_version" /\ n' = n + 1 /\ versions' = versions
        BY <1>2, <2>3 DEF ExpireEdges, Done, Return
      <3>2. \A e \in versions : e.key = op.key => e.n <= n BY <1>0, <3>1 DEF NextIsNew
      <3>3. \A e \in versions : e.key = op.key => e.n < n + 1 BY <1>00, <3>2
      <3> QED BY <2>1, <3>1, <3>3 DEF NextIsNew
    <2>4. CASE PutProxyOut
      <3>1. n' = n /\ n = 0 /\ pc' = "put_version"
        BY <1>0, <2>4 DEF PutProxyOut, PutProxy, AlwaysInv, Progress
      <3> QED BY <3>1 DEF NextIsNew
    <2>5. CASE pc' = pc /\ n' = n /\ versions' \subseteq versions
      BY <1>0, <2>1, <2>5 DEF NextIsNew
    <2>6. CASE Commit \/ Tick \/ AgeOut \/ Redeliver \/ UNCHANGED vars
      BY <2>5, <2>6 DEF Commit, Tick, AgeOut, Redeliver, vars, dbVars
    <2>7. ~Begin /\ ~FindCurrent /\ ~PutProxyIn /\ ~PutVersion /\ ~PutEdges
      BY <1>2 DEF Begin, FindCurrent, PutProxyIn, PutProxy, PutVersion, PutEdges, Done, Return
    <2> QED BY <1>0, <2>2, <2>3, <2>4, <2>6, <2>7 DEF Next, Apply
  <1> QED BY <1>1, <1>2

LEMMA CurrentStep == Inv /\ CurrentInv /\ [Next]_vars => CurrentInv'
  <1> SUFFICES ASSUME Inv, CurrentInv, [Next]_vars PROVE CurrentInv' OBVIOUS
  <1>1. Opened' /\ Reopened' /\ Recorded' BY LegalStep DEF Inv, CurrentInv
  <1>2. ASSUME Undisturbed' PROVE Showing' /\ LiveIsLast' /\ NextIsNew'
    BY <1>2, ShowingStep, LiveIsLastStep, NextIsNewStep
  <1> QED BY <1>1, <1>2 DEF CurrentInv

(* There is nothing left to apply: the place shown is the end.             *)
LEMMA CurrentAtEnd == Inv /\ CurrentInv => CaughtUpMeansCurrent
  <1> SUFFICES ASSUME Inv, CurrentInv, pc = "idle", pos = Len(hist), Undisturbed, NEW k \in Keys
               PROVE  Contents(k) = InTable(k)
    BY DEF CaughtUpMeansCurrent, Undisturbed, Contents, InTable
  <1>0. Len(hist) \in Nat BY DEF Inv, AlwaysInv, TypeOK
  <1>1. Shows(k, pos)
    <2>1. ~Midway(k) /\ Reached(k) = pos BY DEF Midway, Reached
    <2> QED BY <2>1 DEF CurrentInv, Showing
  <1>2. PICK o \in pos .. Len(hist) : Stood(hist, k, o, Contents(k)) BY <1>1 DEF Shows
  <1>3. o = Len(hist) BY <1>0
  <1>4. Stood(hist, k, Len(hist), InTable(k)) BY DEF CurrentInv, Recorded
  <1>5. PICK x, y : x = Contents(k) /\ y = InTable(k) OBVIOUS
  <1>6. Stood(hist, k, Len(hist), x) /\ Stood(hist, k, Len(hist), y) BY <1>2, <1>3, <1>4, <1>5
  <1>7. x = y BY <1>0, <1>6, StoodOnce
  <1> QED BY <1>5, <1>7

(***************************************************************************)
(* Theorems                                                                *)
(***************************************************************************)

(* Inv holds in every state of every behaviour.                            *)
THEOREM Invariance == Spec => []Inv
  BY InvInit, InvStep, PTL DEF Spec

(* Every state is of its type: no stamp is in the future, no change is     *)
(* read past the end of the feed.                                          *)
THEOREM TypeCorrect == Spec => []TypeOK
  <1>1. Inv => TypeOK BY DEF Inv, AlwaysInv
  <1> QED BY <1>1, Invariance, PTL

(* Whatever is redelivered or cut short, and wherever, the versions of an  *)
(* entity never overlap, until TTL has aged out what a replay relies on.   *)
THEOREM Disjointness == Spec => []IntervalsDisjoint
  <1>1. Inv => IntervalsDisjoint BY DEF Inv
  <1> QED BY <1>1, Invariance, PTL

(* Every version has both proxies, in every state.                         *)
THEOREM ProxiesKept == Spec => []VersionsHaveProxies
  <1>1. Inv => VersionsHaveProxies BY DEF Inv, AlwaysInv
  <1> QED BY <1>1, Invariance, PTL

(* When every change has been applied, the current version of each entity  *)
(* is its row: an insert that is replayed after later changes writes       *)
(* nothing, and an update that is replayed runs again up to where the feed *)
(* had been.  (With no change cut short, no key used twice and nothing     *)
(* replayed after TTL has removed versions.)                               *)
THEOREM CaughtUpIsCurrent == Spec => []CaughtUpMeansCurrent
  <1>1. Spec => []CurrentInv
    <2>1. Inv /\ Inv' /\ CurrentInv /\ [Next]_vars => CurrentInv' BY CurrentStep
    <2> QED BY <2>1, CurrentInit, Invariance, PTL DEF Spec
  <1> QED BY <1>1, Invariance, CurrentAtEnd, PTL

(* No step rewrites a closed version.  Replays after aging are included:   *)
(* apply_update only ever closes the live version it has found, and no     *)
(* other document has its number.                                          *)
THEOREM HistoryKept == Spec => HistoryUnchanged
  <1>1. Inv /\ [Next]_vars =>
          [\A e \in versions : e.expired < Never =>
             \A f \in versions' : f.key = e.key /\ f.n = e.n => f = e]_vars
    <2> SUFFICES ASSUME Inv, [Next]_vars,
                        NEW e \in versions, e.expired < Never,
                        NEW f \in versions', f.key = e.key, f.n = e.n
                 PROVE  f = e
      OBVIOUS
    <2>0. AlwaysInv BY DEF Inv
    <2>1. CASE versions' \subseteq versions
      BY <2>0, <2>1 DEF AlwaysInv, UniqueNumbers
    <2>2. CASE ExpireEntity
      <3>1. PICK x \in versions :
              x.key = op.key /\ x.n = n /\ x.expired = Never
        BY <2>0, <2>2 DEF ExpireEntity, AlwaysInv, Progress
      <3>2. PICK y \in versions :
              /\ f.key = y.key /\ f.n = y.n
              /\ ~(y.key = op.key /\ y.n = n) => f = y
        BY <2>0, <2>2, ExpireKeeps
      <3>3. y = e BY <2>0, <3>2 DEF AlwaysInv, UniqueNumbers
      <3>4. e # x BY <3>1
      <3>5. ~(e.key = op.key /\ e.n = n) BY <2>0, <3>1, <3>4 DEF AlwaysInv, UniqueNumbers
      <3> QED BY <3>2, <3>3, <3>5
    <2>3. CASE PutVersion
      BY <2>0, <2>3 DEF PutVersion, Has, AlwaysInv, UniqueNumbers
    <2> QED BY <2>1, <2>2, <2>3, VersionsStep DEF AgeOut
  <1> QED BY <1>1, Invariance, PTL DEF Spec, HistoryUnchanged
=============================================================================
