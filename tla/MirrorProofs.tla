----------------------------- MODULE MirrorProofs -----------------------------
(***************************************************************************)
(* What the proofs about the two consumers (KafkaProofs, PgProofs) share:  *)
(* how a log tells the history of the table (SourceTable), what the row    *)
(* that stands at a place of it makes of each document, and what the       *)
(* resolver makes of a document with one delta of the handler              *)
(* (CDCHandler, ConflictResolver).                                         *)
(***************************************************************************)
EXTENDS CDCHandler, SourceTable, FiniteSetTheorems, WellFoundedInduction, TLAPS

(* A set of numbers has a least one.                                       *)
LEMMA LeastOf ==
  ASSUME NEW S \in SUBSET Nat, S # {} PROVE \E n \in S : \A m \in S : n <= m
  <1> DEFINE R == OpToRel(<, Nat)
  <1>1. IsWellFoundedOn(R, Nat) BY NatLessThanWellFounded
  <1>2. \A x, y \in Nat : <<x, y>> \in R <=> x < y BY DEF OpToRel
  <1> HIDE DEF R
  <1>3. PICK n \in S : \A m \in S : ~(<<m, n>> \in R) BY <1>1, WFMin
  <1>4. \A m \in S : m \in Nat /\ n \in Nat /\ ~(m < n) BY <1>2, <1>3
  <1> QED BY <1>4

LEMMA MinOfSome ==
  ASSUME NEW S \in SUBSET Nat, S # {} PROVE Min(S) \in S
  <1>1. PICK n \in S : \A m \in S : n <= m BY LeastOf
  <1> QED BY <1>1 DEF Min

(***************************************************************************)
(* A table's history, as a log tells it                                    *)
(***************************************************************************)

(* The row an event is about, and what it touches in the target.           *)
RowOf(e) == IF e.op = "DELETE" THEN e.old ELSE e.new
IdsOfRow(row) == {Node(row.key)} \cup IF row.fk = NoRef THEN {} ELSE {Edge(row.key, row.fk)}
IdsOf(k) == {Node(k)} \cup {Edge(k, r) : r \in Refs}

(* The document of a row, or of its edge.                                  *)
View(row, id) ==
  IF row = NoRow \/ id \notin IdsOfRow(row) THEN NoDoc
  ELSE IF id = Node(row.key) THEN Doc(row) ELSE Doc(NoRow)

(* What may follow a row, as the table has it.                             *)
Legal(row, e) ==
  \/ e.op = "INSERT" /\ row = NoRow /\ e.new # NoRow
  \/ e.op = "UPDATE" /\ row # NoRow /\ e.new # NoRow /\ e.new.fk = row.fk
  \/ e.op = "DELETE" /\ row # NoRow /\ e.old = row /\ e.new = NoRow

RowsOf(k) == {NoRow} \cup {r \in Rows : r.key = k}

(* A log is a sequence of events, and of others, which are none.  At place  *)
(* o the row that has stood last for k is what its last event left.        *)
About(l, o, k, none) == l[o] # none /\ RowOf(l[o]).key = k
Stood(l, k, none, o, row) ==
  \/ \E i \in 1 .. o : About(l, i, k, none) /\ row = l[i].new /\ \A j \in (i + 1) .. o : ~About(l, j, k, none)
  \/ row = InitRows[k] /\ \A j \in 1 .. o : ~About(l, j, k, none)
Tells(l, k, none) ==
  \A o \in 0 .. Len(l) :
    \E row \in RowsOf(k) : Stood(l, k, none, o, row) /\ (o < Len(l) /\ About(l, o + 1, k, none) => Legal(row, l[o + 1]))

(* Node and edge ids are told apart, and so are two of a kind.             *)
LEMMA IdsDiffer ==
  ASSUME NEW k, NEW r, NEW h, NEW q
  PROVE  /\ Node(k) # Edge(h, q)
         /\ Node(k) = Node(h) => k = h
         /\ Edge(k, r) = Edge(h, q) => k = h /\ r = q
  BY DEF Node, Edge

(* At a place of the log at most one row of a key has stood last.          *)
LEMMA OneStood ==
  ASSUME NEW l, NEW k, NEW none, NEW o \in Nat, NEW r, NEW s,
         Stood(l, k, none, o, r), Stood(l, k, none, o, s)
  PROVE  r = s
  <1>1. CASE \E i \in 1 .. o : About(l, i, k, none)
    <2>1. PICK i \in 1 .. o : About(l, i, k, none) /\ r = l[i].new /\ \A j \in (i + 1) .. o : ~About(l, j, k, none)
      BY <1>1 DEF Stood
    <2>2. PICK j \in 1 .. o : About(l, j, k, none) /\ s = l[j].new /\ \A h \in (j + 1) .. o : ~About(l, h, k, none)
      BY <1>1 DEF Stood
    <2>3. ~(i < j) /\ ~(j < i) BY <2>1, <2>2
    <2>4. i = j BY <2>3
    <2> QED BY <2>1, <2>2, <2>4
  <1>2. CASE ~\E i \in 1 .. o : About(l, i, k, none) BY <1>2 DEF Stood
  <1> QED BY <1>1, <1>2

(* From one place to the next the row stays, or an event replaces it.      *)
LEMMA NextStood ==
  ASSUME NEW l, NEW k, NEW none, NEW o \in Nat, NEW r, Stood(l, k, none, o, r)
  PROVE  IF About(l, o + 1, k, none) THEN Stood(l, k, none, o + 1, l[o + 1].new)
                                     ELSE Stood(l, k, none, o + 1, r)
  <1>1. CASE About(l, o + 1, k, none)
    <2>1. o + 1 \in 1 .. (o + 1) /\ \A j \in (o + 1 + 1) .. (o + 1) : ~About(l, j, k, none) OBVIOUS
    <2> QED BY <1>1, <2>1 DEF Stood
  <1>2. CASE ~About(l, o + 1, k, none)
    <2>1. \A j \in 1 .. (o + 1) : j \in 1 .. o \/ j = o + 1 OBVIOUS
    <2>2. CASE r = InitRows[k] /\ \A j \in 1 .. o : ~About(l, j, k, none)
      BY <1>2, <2>1, <2>2 DEF Stood
    <2>3. CASE \E i \in 1 .. o : About(l, i, k, none) /\ r = l[i].new /\ \A j \in (i + 1) .. o : ~About(l, j, k, none)
      <3>1. PICK i \in 1 .. o : About(l, i, k, none) /\ r = l[i].new /\ \A j \in (i + 1) .. o : ~About(l, j, k, none)
        BY <2>3
      <3>2. i \in 1 .. (o + 1) /\ \A j \in (i + 1) .. (o + 1) : ~About(l, j, k, none) BY <1>2, <3>1
      <3> QED BY <1>2, <3>1, <3>2 DEF Stood
    <2> QED BY <1>2, <2>2, <2>3 DEF Stood
  <1> QED BY <1>1, <1>2

(* A log tells legal changes, and rows of the key.                         *)
LEMMA ToldNext ==
  ASSUME NEW l, NEW k, NEW none, Len(l) \in Nat, Tells(l, k, none),
         NEW o \in 1 .. Len(l), NEW r, NEW s,
         Stood(l, k, none, o - 1, r), Stood(l, k, none, o, s)
  PROVE  /\ r \in RowsOf(k) /\ s \in RowsOf(k)
         /\ About(l, o, k, none) => s = l[o].new /\ Legal(r, l[o])
         /\ ~About(l, o, k, none) => s = r
  <1>1. o \in 0 .. Len(l) /\ o - 1 \in 0 .. Len(l) /\ o \in Nat /\ o - 1 \in Nat /\ o - 1 < Len(l) /\ (o - 1) + 1 = o
    OBVIOUS
  <1>2. PICK a \in RowsOf(k) : Stood(l, k, none, o - 1, a) /\ (About(l, o, k, none) => Legal(a, l[o]))
    <2>1. \E a \in RowsOf(k) : Stood(l, k, none, o - 1, a) /\ (o - 1 < Len(l) /\ About(l, (o - 1) + 1, k, none) => Legal(a, l[(o - 1) + 1]))
      BY <1>1 DEF Tells
    <2> QED BY <1>1, <2>1
  <1>3. PICK b \in RowsOf(k) : Stood(l, k, none, o, b) BY <1>1 DEF Tells
  <1>4. a = r /\ b = s BY <1>1, <1>2, <1>3, OneStood
  <1>5. IF About(l, o, k, none) THEN Stood(l, k, none, o, l[o].new) ELSE Stood(l, k, none, o, r)
    <2>1. IF About(l, (o - 1) + 1, k, none) THEN Stood(l, k, none, (o - 1) + 1, l[(o - 1) + 1].new)
                                            ELSE Stood(l, k, none, (o - 1) + 1, r)
      BY <1>1, NextStood
    <2> QED BY <1>1, <2>1
  <1>6. About(l, o, k, none) => s = l[o].new BY <1>1, <1>5, OneStood
  <1>7. ~About(l, o, k, none) => s = r BY <1>1, <1>5, OneStood
  <1> QED BY <1>2, <1>3, <1>4, <1>6, <1>7

(* What an event leaves alone in the target is as before it.               *)
LEMMA ViewKept ==
  ASSUME NEW k, NEW row \in RowsOf(k), NEW e, Legal(row, e), e.new \in RowsOf(k), RowOf(e).key = k,
         NEW id, id \notin IdsOfRow(RowOf(e))
  PROVE  View(row, id) = View(e.new, id)
  <1>1. CASE e.op = "INSERT" BY <1>1 DEF Legal, View, RowOf
  <1>2. CASE e.op = "UPDATE"
    <2>1. row # NoRow /\ e.new # NoRow /\ e.new.fk = row.fk /\ RowOf(e) = e.new BY <1>2 DEF Legal, RowOf
    <2>2. row.key = k /\ e.new.key = k BY <2>1 DEF RowsOf
    <2>3. IdsOfRow(row) = IdsOfRow(e.new) BY <2>1, <2>2 DEF IdsOfRow
    <2> QED BY <2>1, <2>3 DEF View
  <1>3. CASE e.op = "DELETE" BY <1>3 DEF Legal, View, RowOf
  <1> QED BY <1>1, <1>2, <1>3 DEF Legal

(* Over a stretch of the log that leaves a document alone, the document of *)
(* the row that stands stays the same.                                     *)
LEMMA StretchKept ==
  ASSUME NEW l, NEW k, NEW none, Len(l) \in Nat, Tells(l, k, none),
         NEW a \in 0 .. Len(l), NEW b \in 0 .. Len(l), a <= b, NEW id,
         \A o \in (a + 1) .. b : About(l, o, k, none) => id \notin IdsOfRow(RowOf(l[o])),
         NEW r, NEW s, Stood(l, k, none, a, r), Stood(l, k, none, b, s)
  PROVE  View(r, id) = View(s, id)
  <1> DEFINE Bad == {n \in a .. b : \E t : Stood(l, k, none, n, t) /\ View(t, id) # View(r, id)}
  <1> SUFFICES ASSUME View(s, id) # View(r, id) PROVE FALSE OBVIOUS
  <1>1. b \in Bad /\ Bad \in SUBSET Nat OBVIOUS
  <1> HIDE DEF Bad
  <1>2. PICK n \in Bad : \A m \in Bad : n <= m BY <1>1, LeastOf
  <1>3. PICK t : n \in a .. b /\ Stood(l, k, none, n, t) /\ View(t, id) # View(r, id) BY <1>2 DEF Bad
  <1>4. n # a
    <2>1. a \in Nat OBVIOUS
    <2> QED BY <1>3, <2>1, OneStood
  <1>5. /\ n \in 1 .. Len(l) /\ n - 1 \in a .. b /\ n - 1 \in 0 .. Len(l) /\ n \in (a + 1) .. b
        /\ ~(n <= n - 1) /\ (n - 1) + 1 = n
    BY <1>3, <1>4
  <1>6. PICK q \in RowsOf(k) : Stood(l, k, none, n - 1, q) BY <1>5 DEF Tells
  <1>7. View(q, id) = View(r, id) BY <1>2, <1>5, <1>6 DEF Bad
  <1>8. /\ t \in RowsOf(k)
        /\ About(l, n, k, none) => t = l[n].new /\ Legal(q, l[n])
        /\ ~About(l, n, k, none) => t = q
    BY <1>3, <1>5, <1>6, ToldNext
  <1>9. CASE About(l, n, k, none)
    <2>1. RowOf(l[n]).key = k BY <1>9 DEF About
    <2>2. View(q, id) = View(t, id) BY <1>5, <1>6, <1>8, <1>9, <2>1, ViewKept
    <2> QED BY <1>3, <1>7, <2>2
  <1>10. CASE ~About(l, n, k, none) BY <1>3, <1>7, <1>8, <1>10
  <1> QED BY <1>9, <1>10

(***************************************************************************)
(* What a delta that did not fail has made of its document                 *)
(***************************************************************************)

(* The documents of the target; a store that differs at one id only.       *)
Stored == [body : Rows \cup {NoRow}, lsn : Nat \cup {NoLsn}]
Elsewhere(st, new, id) == \A j \in DocIds : j # id => new[j] = st[j]

(* A call on one document changes that document at most.                   *)
LEMMA Executed ==
  ASSUME NEW st, NEW c, NEW id \in DocIds, DOMAIN c.docs = {id}
  PROVE  /\ Elsewhere(st, Execute(st, c).store, id)
         /\ Execute(st, c).store[id] = IF id \in Accepted(st, c) THEN c.docs[id] ELSE st[id]
         /\ Execute(st, c).result = Answer(st, c)
  <1>1. Accepted(st, c) \subseteq {id} BY DEF Accepted
  <1> QED BY <1>1 DEF Execute, Store, Elsewhere

(* An outcome is that of the call, of the call after itself, or none.      *)
LEMMA OutcomesOfOne ==
  ASSUME NEW st, NEW c, c.op \notin ImportModes, NEW o \in WriterOutcomes(st, c)
  PROVE  \/ o = Execute(st, c)
         \/ o = Execute(Execute(st, c).store, c)
         \/ o.result = "error" /\ o.store \in {st, Execute(st, c).store}
  BY DEF WriterOutcomes

(* An insert puts its document, or nothing.                                *)
LEMMA Inserted ==
  ASSUME NEW st, NEW id \in DocIds, NEW d \in Stored, NEW o \in WriterOutcomes(st, Insert(id, d))
  PROVE  /\ Elsewhere(st, o.store, id)
         /\ o.store[id] \in {st[id], d}
         /\ o.result = "ok" => o.store[id] = d
         /\ o.result = "duplicate" => o.store[id] # NoDoc
  <1> DEFINE c == Insert(id, d)
  <1>1. DOMAIN c.docs = {id} /\ c.docs[id] = d /\ c.op = "insert" BY DEF Insert
  <1>2. d # NoDoc BY TargetAssumption DEF Stored
  <1>3. c.op \notin ImportModes BY <1>1 DEF ImportModes
  <1> HIDE DEF c
  <1>4. ASSUME NEW s
        PROVE  /\ id \in Accepted(s, c) <=> d \notin BadDocs /\ s[id] = NoDoc
               /\ Answer(s, c) = IF d \in BadDocs THEN "error"
                                 ELSE IF s[id] # NoDoc THEN "duplicate" ELSE "ok"
    <2>1. id \in Accepted(s, c) <=> d \notin BadDocs /\ s[id] = NoDoc BY <1>1 DEF Accepted, ImportModes
    <2>2. Accepted(s, c) \subseteq {id} BY <1>1 DEF Accepted
    <2> QED BY <1>1, <1>3, <2>1, <2>2 DEF Answer
  <1>5. ASSUME NEW s
        PROVE  /\ Elsewhere(s, Execute(s, c).store, id)
               /\ Execute(s, c).store[id] \in {s[id], d}
               /\ Execute(s, c).result = "ok" => Execute(s, c).store[id] = d
               /\ Execute(s, c).result = "duplicate" => Execute(s, c).store[id] # NoDoc
    <2>1. /\ Elsewhere(s, Execute(s, c).store, id)
          /\ Execute(s, c).store[id] = IF id \in Accepted(s, c) THEN d ELSE s[id]
          /\ Execute(s, c).result = Answer(s, c)
      BY <1>1, Executed
    <2>2. CASE d \in BadDocs BY <1>4, <2>1, <2>2
    <2>3. CASE d \notin BadDocs /\ s[id] = NoDoc BY <1>4, <2>1, <2>3
    <2>4. CASE d \notin BadDocs /\ s[id] # NoDoc BY <1>4, <2>1, <2>4
    <2> QED BY <2>2, <2>3, <2>4
  <1>7. CASE o = Execute(st, c) BY <1>5, <1>7
  <1>8. CASE o = Execute(Execute(st, c).store, c)
    <2> DEFINE s == Execute(st, c).store
    <2>1. /\ Elsewhere(s, o.store, id) /\ o.store[id] \in {s[id], d}
          /\ o.result = "ok" => o.store[id] = d
          /\ o.result = "duplicate" => o.store[id] # NoDoc
      BY <1>5, <1>8
    <2>2. Elsewhere(st, s, id) /\ s[id] \in {st[id], d} BY <1>5
    <2> HIDE DEF s
    <2> QED BY <2>1, <2>2 DEF Elsewhere
  <1>9. CASE o.result = "error" /\ o.store \in {st, Execute(st, c).store}
    BY <1>5, <1>9 DEF Elsewhere
  <1> QED BY <1>3, <1>7, <1>8, <1>9, OutcomesOfOne DEF c

(* A replace changes a document that is there.                             *)
LEMMA Replaced ==
  ASSUME NEW st, NEW id \in DocIds, NEW d \in Stored, NEW o \in WriterOutcomes(st, Replace(id, d))
  PROVE  /\ Elsewhere(st, o.store, id)
         /\ o.store[id] \in {st[id], d}
         /\ o.result = "ok" => o.store[id] = d
         /\ o.result = "not_found" => o.store[id] = NoDoc /\ st[id] = NoDoc
  <1> DEFINE c == Replace(id, d)
  <1>1. DOMAIN c.docs = {id} /\ c.docs[id] = d /\ c.op = "replace" BY DEF Replace
  <1>2. d # NoDoc BY TargetAssumption DEF Stored
  <1>3. c.op \notin ImportModes BY <1>1 DEF ImportModes
  <1> HIDE DEF c
  <1>4. ASSUME NEW s
        PROVE  /\ id \in Accepted(s, c) <=> d \notin BadDocs /\ s[id] # NoDoc
               /\ Answer(s, c) = IF d \in BadDocs THEN "error"
                                 ELSE IF s[id] = NoDoc THEN "not_found" ELSE "ok"
    <2>1. id \in Accepted(s, c) <=> d \notin BadDocs /\ s[id] # NoDoc BY <1>1 DEF Accepted, ImportModes
    <2>2. Accepted(s, c) \subseteq {id} BY <1>1 DEF Accepted
    <2> QED BY <1>1, <1>3, <2>1, <2>2 DEF Answer
  <1>5. ASSUME NEW s
        PROVE  /\ Elsewhere(s, Execute(s, c).store, id)
               /\ Execute(s, c).store[id] \in {s[id], d}
               /\ Execute(s, c).result = "ok" => Execute(s, c).store[id] = d
               /\ Execute(s, c).result = "not_found" => Execute(s, c).store[id] = NoDoc /\ s[id] = NoDoc
    BY <1>1, <1>4, Executed
  <1>7. CASE o = Execute(st, c) BY <1>5, <1>7
  <1>8. CASE o = Execute(Execute(st, c).store, c)
    <2> DEFINE s == Execute(st, c).store
    <2>1. /\ Elsewhere(s, o.store, id) /\ o.store[id] \in {s[id], d}
          /\ o.result = "ok" => o.store[id] = d
          /\ o.result = "not_found" => o.store[id] = NoDoc /\ s[id] = NoDoc
      BY <1>5, <1>8
    <2>2. Elsewhere(st, s, id) /\ s[id] \in {st[id], d} BY <1>5
    <2> HIDE DEF s
    <2> QED BY <1>2, <2>1, <2>2 DEF Elsewhere
  <1>9. CASE o.result = "error" /\ o.store \in {st, Execute(st, c).store}
    BY <1>5, <1>9 DEF Elsewhere
  <1> QED BY <1>3, <1>7, <1>8, <1>9, OutcomesOfOne DEF c

(* A delete that succeeds leaves no document.                              *)
LEMMA Deleted ==
  ASSUME NEW st, NEW id \in DocIds, NEW o \in WriterOutcomes(st, Delete(id))
  PROVE  /\ Elsewhere(st, o.store, id)
         /\ o.result = "ok" => o.store[id] = NoDoc
  <1> DEFINE c == Delete(id)
  <1>1. DOMAIN c.docs = {id} /\ c.docs[id] = NoDoc /\ c.op = "delete" BY DEF Delete
  <1>3. c.op \notin ImportModes BY <1>1 DEF ImportModes
  <1> HIDE DEF c
  <1>4. ASSUME NEW s
        PROVE  /\ id \in Accepted(s, c) <=> NoDoc \notin BadDocs
               /\ Answer(s, c) = IF NoDoc \in BadDocs THEN "error" ELSE "ok"
    <2>1. id \in Accepted(s, c) <=> NoDoc \notin BadDocs BY <1>1 DEF Accepted, ImportModes
    <2> QED BY <1>1, <1>3, <2>1 DEF Answer
  <1>5. ASSUME NEW s
        PROVE  /\ Elsewhere(s, Execute(s, c).store, id)
               /\ Execute(s, c).result = "ok" => Execute(s, c).store[id] = NoDoc
    BY <1>1, <1>4, Executed
  <1>7. CASE o = Execute(st, c) BY <1>5, <1>7
  <1>8. CASE o = Execute(Execute(st, c).store, c)
    <2>1. Elsewhere(Execute(st, c).store, o.store, id) BY <1>5, <1>8
    <2>2. Elsewhere(st, Execute(st, c).store, id) BY <1>5
    <2> QED BY <1>5, <1>8, <2>1, <2>2 DEF Elsewhere
  <1>9. CASE o.result = "error" /\ o.store \in {st, Execute(st, c).store}
    BY <1>5, <1>9 DEF Elsewhere
  <1> QED BY <1>3, <1>7, <1>8, <1>9, OutcomesOfOne DEF c

(* The policies that go on after a conflict.                               *)
GoesOn == {"source_wins", "last_write_wins", "log_and_skip"}

(* A stamp changes no body.                                                *)
LEMMA Stamping ==
  ASSUME NEW d \in Stored, NEW lsn \in Nat \cup {NoLsn}
  PROVE  StampLsn(d, lsn) \in Stored /\ StampLsn(d, lsn).body = d.body
  BY DEF StampLsn, Stored

(* An INSERT delta under every policy that goes on after a conflict: it    *)
(* did what it says, or a document was there already.                      *)
LEMMA InsertResolved ==
  ASSUME NEW how \in GoesOn, NEW st, NEW id \in DocIds, NEW d \in Stored, NEW lsn \in Nat \cup {NoLsn},
         NEW o \in ResolveInsert(how, st, id, d, lsn)
  PROVE  /\ Elsewhere(st, o.store, id)
         /\ o.verdict # "failed" =>
              \/ o.store[id] = d
              \/ o.store[id] = st[id] /\ st[id] # NoDoc
  <1>1. PICK a \in WriterOutcomes(st, Insert(id, d)) :
          o \in CASE a.result = "ok" -> {Outcome(a.store, "applied")}
                  [] a.result = "duplicate" -> OnDuplicate(how, a.store, id, d, lsn)
                  [] OTHER -> {Outcome(a.store, "failed")}
    BY DEF ResolveInsert
  <1>2. /\ Elsewhere(st, a.store, id) /\ a.store[id] \in {st[id], d}
        /\ a.result = "ok" => a.store[id] = d
        /\ a.result = "duplicate" => a.store[id] # NoDoc
    BY Inserted
  <1>3. CASE a.result = "ok" BY <1>1, <1>2, <1>3 DEF Outcome
  <1>4. CASE a.result \notin {"ok", "duplicate"} BY <1>1, <1>2, <1>4 DEF Outcome
  <1>5. CASE a.result = "duplicate"
    <2>1. o \in OnDuplicate(how, a.store, id, d, lsn) BY <1>1, <1>5
    <2>2. o = Outcome(a.store, "skipped") \/ o \in Attempted(a.store, Replace(id, d))
      BY <2>1 DEF OnDuplicate, GoesOn
    <2>3. CASE o = Outcome(a.store, "skipped") BY <1>2, <1>5, <2>3 DEF Outcome
    <2>4. CASE o \in Attempted(a.store, Replace(id, d))
      <3>1. PICK b \in WriterOutcomes(a.store, Replace(id, d)) :
              o = Outcome(b.store, IF b.result = "ok" THEN "applied" ELSE "failed")
        BY <2>4 DEF Attempted
      <3>2. Elsewhere(a.store, b.store, id) /\ (b.result = "ok" => b.store[id] = d) BY Replaced
      <3> QED BY <1>2, <3>1, <3>2 DEF Outcome, Elsewhere
    <2> QED BY <2>2, <2>3, <2>4
  <1> QED BY <1>3, <1>4, <1>5

(* A REPLACE delta: the body is the new one, or there was no document.     *)
LEMMA ReplaceResolved ==
  ASSUME NEW how \in GoesOn, NEW st, NEW id \in DocIds, NEW d \in Stored, NEW lsn \in Nat \cup {NoLsn},
         NEW o \in ResolveReplace(how, st, id, d, lsn)
  PROVE  /\ Elsewhere(st, o.store, id)
         /\ o.verdict # "failed" =>
              \/ o.store[id] # NoDoc /\ o.store[id].body = d.body
              \/ o.store[id] = NoDoc /\ st[id] = NoDoc
  <1>0. PICK s \in Stored : s = IF how = "last_write_wins" THEN StampLsn(d, lsn) ELSE d BY Stamping
  <1>6. s # NoDoc /\ s.body = d.body BY <1>0, Stamping, TargetAssumption DEF Stored
  <1>1. PICK a \in WriterOutcomes(st, Replace(id, s)) :
          o \in CASE a.result = "ok" -> {Outcome(a.store, "applied")}
                  [] a.result = "not_found" -> OnMissing(how, a.store, id, s)
                  [] OTHER -> {Outcome(a.store, "failed")}
    BY <1>0 DEF ResolveReplace
  <1>2. /\ Elsewhere(st, a.store, id)
        /\ a.result = "ok" => a.store[id] = s
        /\ a.result = "not_found" => a.store[id] = NoDoc /\ st[id] = NoDoc
    <2>1. /\ Elsewhere(st, a.store, id)
          /\ a.store[id] \in {st[id], s}
          /\ a.result = "ok" => a.store[id] = s
          /\ a.result = "not_found" => a.store[id] = NoDoc /\ st[id] = NoDoc
      BY Replaced
    <2> QED BY <2>1
  <1>3. CASE a.result = "ok" BY <1>6, <1>1, <1>2, <1>3 DEF Outcome
  <1>4. CASE a.result \notin {"ok", "not_found"} BY <1>1, <1>2, <1>4 DEF Outcome
  <1>5. CASE a.result = "not_found"
    <2>1. o \in OnMissing(how, a.store, id, s) BY <1>1, <1>5
    <2>2. o = Outcome(a.store, "skipped") \/ o \in Attempted(a.store, Insert(id, s))
      BY <2>1 DEF OnMissing, GoesOn
    <2>3. CASE o = Outcome(a.store, "skipped") BY <1>2, <1>5, <2>3 DEF Outcome
    <2>4. CASE o \in Attempted(a.store, Insert(id, s))
      <3>1. PICK b \in WriterOutcomes(a.store, Insert(id, s)) :
              o = Outcome(b.store, IF b.result = "ok" THEN "applied" ELSE "failed")
        BY <2>4 DEF Attempted
      <3>2. Elsewhere(a.store, b.store, id) /\ (b.result = "ok" => b.store[id] = s) BY Inserted
      <3> QED BY <1>6, <1>2, <3>1, <3>2 DEF Outcome, Elsewhere
    <2> QED BY <2>2, <2>3, <2>4
  <1> QED BY <1>3, <1>4, <1>5

(* A DELETE delta: nothing is left.                                        *)
LEMMA DeleteResolved ==
  ASSUME NEW st, NEW id \in DocIds, NEW o \in ResolveDelete(st, id)
  PROVE  Elsewhere(st, o.store, id) /\ (o.verdict # "failed" => o.store[id] = NoDoc)
  <1>1. PICK a \in WriterOutcomes(st, Delete(id)) :
          o = Outcome(a.store, IF a.result = "ok" THEN "applied" ELSE "failed")
    BY DEF ResolveDelete, Attempted
  <1> QED BY <1>1, Deleted DEF Outcome

(***************************************************************************)
(* The log grows                                                           *)
(***************************************************************************)

(* Where nothing follows about a key its row goes on standing.             *)
LEMMA StoodLonger ==
  ASSUME NEW l, NEW k, NEW none, NEW a \in Nat, NEW b \in Nat, a <= b, NEW r, Stood(l, k, none, a, r),
         \A o \in (a + 1) .. b : ~About(l, o, k, none)
  PROVE  Stood(l, k, none, b, r)
  <1>1. \A j \in 1 .. b : j \in 1 .. a \/ j \in (a + 1) .. b OBVIOUS
  <1>2. CASE r = InitRows[k] /\ \A j \in 1 .. a : ~About(l, j, k, none) BY <1>1, <1>2 DEF Stood
  <1>3. CASE \E i \in 1 .. a : About(l, i, k, none) /\ r = l[i].new /\ \A j \in (i + 1) .. a : ~About(l, j, k, none)
    <2>1. PICK i \in 1 .. a : About(l, i, k, none) /\ r = l[i].new /\ \A j \in (i + 1) .. a : ~About(l, j, k, none)
      BY <1>3
    <2>2. i \in 1 .. b /\ \A j \in (i + 1) .. b : ~About(l, j, k, none) BY <2>1
    <2> QED BY <2>1, <2>2 DEF Stood
  <1> QED BY <1>2, <1>3 DEF Stood

(* The log m continues l.                                                  *)
Prefix(l, m) == Len(l) \in Nat /\ Len(m) \in Nat /\ Len(l) <= Len(m) /\ \A o \in 1 .. Len(l) : m[o] = l[o]

(* What is appended does not change what stood.                            *)
LEMMA StoodBefore ==
  ASSUME NEW l, NEW m, Prefix(l, m), NEW k, NEW none, NEW o \in 0 .. Len(l), NEW r, Stood(l, k, none, o, r)
  PROVE  Stood(m, k, none, o, r)
  <1>1. \A i \in 1 .. Len(l) : m[i] = l[i] /\ (About(m, i, k, none) <=> About(l, i, k, none))
    BY DEF Prefix, About
  <1>2. \A i \in 1 .. o : i \in 1 .. Len(l) BY DEF Prefix
  <1>3. CASE r = InitRows[k] /\ \A j \in 1 .. o : ~About(l, j, k, none) BY <1>1, <1>2, <1>3 DEF Stood
  <1>4. CASE \E i \in 1 .. o : About(l, i, k, none) /\ r = l[i].new /\ \A j \in (i + 1) .. o : ~About(l, j, k, none)
    <2>1. PICK i \in 1 .. o : About(l, i, k, none) /\ r = l[i].new /\ \A j \in (i + 1) .. o : ~About(l, j, k, none)
      BY <1>4
    <2>2. \A j \in (i + 1) .. o : j \in 1 .. Len(l) BY <2>1, <1>2
    <2> QED BY <1>1, <1>2, <2>1, <2>2 DEF Stood
  <1> QED BY <1>3, <1>4 DEF Stood

(* At the end of the log nothing about the key is added, or one legal      *)
(* change.                                                                 *)
LEMMA TellsMore ==
  ASSUME NEW l, NEW m, Prefix(l, m), NEW k, NEW none, Tells(l, k, none),
         NEW r \in RowsOf(k), Stood(l, k, none, Len(l), r), NEW s \in RowsOf(k), NEW a \in {Len(l), Len(l) + 1},
         a <= Len(m), \A o \in (a + 1) .. Len(m) : ~About(m, o, k, none),
         a = Len(l) => s = r,
         a # Len(l) => About(m, a, k, none) /\ Legal(r, m[a]) /\ s = m[a].new
  PROVE  Tells(m, k, none) /\ Stood(m, k, none, Len(m), s)
  <1>0. Len(l) \in Nat /\ Len(m) \in Nat /\ a \in Nat /\ Len(l) \in 0 .. Len(l) BY DEF Prefix
  <1>1. Stood(m, k, none, Len(l), r) BY <1>0, StoodBefore
  <1>2. Stood(m, k, none, a, s)
    <2>1. CASE a = Len(l) BY <1>1, <2>1
    <2>2. CASE a = Len(l) + 1 BY <1>0, <1>1, <2>2, NextStood
    <2> QED BY <2>1, <2>2
  <1>3. \A o \in a .. Len(m) : Stood(m, k, none, o, s)
    <2> SUFFICES ASSUME NEW o \in a .. Len(m) PROVE Stood(m, k, none, o, s) OBVIOUS
    <2>1. o \in Nat /\ a <= o /\ \A j \in (a + 1) .. o : ~About(m, j, k, none) BY <1>0
    <2> QED BY <1>0, <1>2, <2>1, StoodLonger
  <1>4. ASSUME NEW o \in 0 .. Len(m)
        PROVE  \E row \in RowsOf(k) : /\ Stood(m, k, none, o, row)
                                      /\ o < Len(m) /\ About(m, o + 1, k, none) => Legal(row, m[o + 1])
    <2>1. CASE o < Len(l)
      <3>1. o \in 0 .. Len(l) /\ o + 1 \in 1 .. Len(l) BY <1>0, <2>1
      <3>2. PICK row \in RowsOf(k) : Stood(l, k, none, o, row) /\ (o < Len(l) /\ About(l, o + 1, k, none) => Legal(row, l[o + 1]))
        BY <3>1 DEF Tells
      <3>3. m[o + 1] = l[o + 1] BY <3>1 DEF Prefix
      <3>4. Stood(m, k, none, o, row) BY <3>1, <3>2, StoodBefore
      <3> QED BY <2>1, <3>2, <3>3, <3>4 DEF About
    <2>2. CASE o = Len(l)
      <3>1. CASE a = Len(l)
        <4>1. o < Len(m) => o + 1 \in (a + 1) .. Len(m) BY <1>0, <2>2, <3>1
        <4> QED BY <1>1, <2>2, <4>1
      <3>2. CASE a = Len(l) + 1 BY <1>1, <2>2, <3>2
      <3> QED BY <3>1, <3>2
    <2>3. CASE o > Len(l)
      <3>1. o \in a .. Len(m) /\ (o < Len(m) => o + 1 \in (a + 1) .. Len(m)) BY <1>0, <2>3
      <3> QED BY <1>3, <3>1
    <2> QED BY <1>0, <2>1, <2>2, <2>3
  <1>5. Tells(m, k, none) BY <1>4 DEF Tells
  <1>6. Len(m) \in a .. Len(m) BY <1>0
  <1> QED BY <1>3, <1>5, <1>6

(***************************************************************************)
(* The table changes                                                       *)
(***************************************************************************)

(* A table has each row at its key.  The source logs whole old rows, and   *)
(* its updates leave the keys, primary and foreign, alone.                 *)
Tables == {t \in [Keys -> Rows \cup {NoRow}] : \A k \in Keys : t[k] # NoRow => t[k].key = k}
OnlyKinds == ReplicaIdentity = "full" /\ ChangeKinds \subseteq {"insert", "update", "delete"}

(* The changes of a table when no key changes: three kinds.                *)
LEMMA ChangeOf ==
  ASSUME NEW tbl \in Tables, NEW c \in RowChanges(tbl), OnlyKinds
  PROVE  \/ \E r \in InsertRows : tbl[r.key] = NoRow /\ c = Change("insert", "INSERT", r, NoRow, r.key)
         \/ \E k \in Keys : /\ tbl[k] # NoRow
                            /\ \/ \E v \in Vals : c = Change("update", "UPDATE", [tbl[k] EXCEPT !.val = v], NoRow, k)
                               \/ c = Change("delete", "DELETE", NoRow, tbl[k], k)
  <1>1. c.kind \in {"insert", "update", "delete"} BY DEF RowChanges, OnlyKinds
  <1>2. CASE \E r \in {r \in InsertRows : tbl[r.key] = NoRow} : c = Change("insert", "INSERT", r, NoRow, r.key)
    BY <1>2
  <1>3. CASE \E k \in Present(tbl) :
               c \in {Change("update", "UPDATE", [tbl[k] EXCEPT !.val = v], NoRow, k) :
                        v \in Vals \ {tbl[k].val}}
                     \cup {Change("update_fk", "UPDATE", [tbl[k] EXCEPT !.fk = f], NoRow, k) :
                             f \in (Refs \cup {NoRef}) \ {tbl[k].fk}}
                     \cup {Change("update_pk", "UPDATE", [tbl[k] EXCEPT !.key = n], NoRow, k) :
                             n \in Keys \ Present(tbl)}
                     \cup {Change("delete", "DELETE", NoRow, LoggedOld(tbl[k]), k)}
    <2>1. PICK k \in Present(tbl) :
               c \in {Change("update", "UPDATE", [tbl[k] EXCEPT !.val = v], NoRow, k) :
                        v \in Vals \ {tbl[k].val}}
                     \cup {Change("update_fk", "UPDATE", [tbl[k] EXCEPT !.fk = f], NoRow, k) :
                             f \in (Refs \cup {NoRef}) \ {tbl[k].fk}}
                     \cup {Change("update_pk", "UPDATE", [tbl[k] EXCEPT !.key = n], NoRow, k) :
                             n \in Keys \ Present(tbl)}
                     \cup {Change("delete", "DELETE", NoRow, LoggedOld(tbl[k]), k)}
      BY <1>3
    <2>2. k \in Keys /\ tbl[k] # NoRow BY DEF Present
    <2>3. c \notin {Change("update_fk", "UPDATE", [tbl[k] EXCEPT !.fk = f], NoRow, k) :
                             f \in (Refs \cup {NoRef}) \ {tbl[k].fk}}
      BY <1>1 DEF Change
    <2>4. c \notin {Change("update_pk", "UPDATE", [tbl[k] EXCEPT !.key = n], NoRow, k) :
                             n \in Keys \ Present(tbl)}
      BY <1>1 DEF Change
    <2>5. LoggedOld(tbl[k]) = tbl[k] BY DEF LoggedOld, OnlyKinds
    <2> QED BY <2>1, <2>2, <2>3, <2>4, <2>5
  <1> QED BY <1>2, <1>3 DEF RowChanges

(* The event of a change is legal after the row that was there.            *)
LEMMA ChangeIsLegal ==
  ASSUME NEW tbl \in Tables, NEW c \in RowChanges(tbl), OnlyKinds,
         NEW e, e.op = c.op, e.new = c.new, e.old = c.old
  PROVE  /\ c.key \in Keys /\ c.op \in {"INSERT", "UPDATE", "DELETE"}
         /\ c.new \in Rows \cup {NoRow} /\ c.old \in Rows \cup {NoRow}
         /\ RowOf(e) \in RowsOf(c.key) \ {NoRow} /\ e.new \in RowsOf(c.key)
         /\ Legal(tbl[c.key], e)
         /\ AfterChange(tbl, c) \in Tables
         /\ AfterChange(tbl, c)[c.key] = e.new
         /\ \A k \in Keys : k # c.key => AfterChange(tbl, c)[k] = tbl[k]
  <1>1. CASE \E r \in InsertRows : tbl[r.key] = NoRow /\ c = Change("insert", "INSERT", r, NoRow, r.key)
    <2>1. PICK r \in Rows : tbl[r.key] = NoRow /\ c = Change("insert", "INSERT", r, NoRow, r.key)
      BY <1>1, TableAssumption
    <2>2. c.op = "INSERT" /\ c.new = r /\ c.old = NoRow /\ c.key = r.key /\ r.key \in Keys /\ r # NoRow
      BY <2>1, TableAssumption DEF Change, Rows
    <2>3. \A k \in Keys : AfterChange(tbl, c)[k] = IF k = c.key THEN r ELSE tbl[k] BY <2>2 DEF AfterChange
    <2>4. AfterChange(tbl, c) \in Tables
      <3>1. AfterChange(tbl, c) \in [Keys -> Rows \cup {NoRow}] BY <2>3 DEF AfterChange, Tables
      <3> QED BY <2>2, <2>3, <3>1 DEF Tables
    <2> QED BY <2>1, <2>2, <2>3, <2>4 DEF RowOf, RowsOf, Legal
  <1>2. CASE \E k \in Keys : /\ tbl[k] # NoRow
                             /\ \E v \in Vals : c = Change("update", "UPDATE", [tbl[k] EXCEPT !.val = v], NoRow, k)
    <2>1. PICK k \in Keys, v \in Vals : /\ tbl[k] # NoRow
                                        /\ c = Change("update", "UPDATE", [tbl[k] EXCEPT !.val = v], NoRow, k)
      BY <1>2
    <2>2. tbl[k] \in Rows /\ tbl[k].key = k BY <2>1 DEF Tables
    <2> DEFINE r == [tbl[k] EXCEPT !.val = v]
    <2>3. r \in Rows /\ r.key = k /\ r.fk = tbl[k].fk BY <2>2 DEF Rows
    <2>4. c.op = "UPDATE" /\ c.new = r /\ c.old = NoRow /\ c.key = k BY <2>1 DEF Change
    <2> HIDE DEF r
    <2>5. r # NoRow BY <2>3, TableAssumption
    <2>6. \A h \in Keys : AfterChange(tbl, c)[h] = IF h = k THEN r ELSE tbl[h] BY <2>3, <2>4, <2>5 DEF AfterChange
    <2>7. AfterChange(tbl, c) \in Tables
      <3>1. AfterChange(tbl, c) \in [Keys -> Rows \cup {NoRow}] BY <2>3, <2>6 DEF AfterChange, Tables
      <3> QED BY <2>3, <2>6, <3>1 DEF Tables
    <2> QED BY <2>1, <2>3, <2>4, <2>5, <2>6, <2>7 DEF RowOf, RowsOf, Legal
  <1>3. CASE \E k \in Keys : tbl[k] # NoRow /\ c = Change("delete", "DELETE", NoRow, tbl[k], k)
    <2>1. PICK k \in Keys : tbl[k] # NoRow /\ c = Change("delete", "DELETE", NoRow, tbl[k], k) BY <1>3
    <2>2. tbl[k] \in Rows /\ tbl[k].key = k BY <2>1 DEF Tables
    <2>3. c.op = "DELETE" /\ c.new = NoRow /\ c.old = tbl[k] /\ c.key = k BY <2>1 DEF Change
    <2>4. \A h \in Keys : AfterChange(tbl, c)[h] = IF h = k THEN NoRow ELSE tbl[h] BY <2>3 DEF AfterChange
    <2>5. AfterChange(tbl, c) \in Tables
      <3>1. AfterChange(tbl, c) \in [Keys -> Rows \cup {NoRow}] BY <2>4 DEF AfterChange, Tables
      <3> QED BY <2>4, <3>1 DEF Tables
    <2> QED BY <2>1, <2>2, <2>3, <2>4, <2>5 DEF RowOf, RowsOf, Legal
  <1> QED BY <1>1, <1>2, <1>3, ChangeOf

(* A table has rows of its keys.                                           *)
LEMMA RowOfTable ==
  ASSUME NEW tbl \in Tables, NEW k \in Keys PROVE tbl[k] \in RowsOf(k)
  BY DEF Tables, RowsOf

(* A load shows what the views of its rows show.                           *)
LEMMA ImageIsView ==
  ASSUME NEW tbl \in Tables
  PROVE  /\ \A k \in Keys : \A id \in IdsOf(k) : Image(tbl)[id] = View(tbl[k], id)
         /\ \A id \in DocIds \ (Nodes \cup Edges) : Image(tbl)[id] = NoDoc
  <1>1. ASSUME NEW k \in Keys, NEW id \in IdsOf(k) PROVE Image(tbl)[id] = View(tbl[k], id)
    <2>1. id \in DocIds BY TargetAssumption DEF IdsOf, Nodes, Edges
    <2>2. tbl[k] # NoRow => tbl[k] \in Rows /\ tbl[k].key = k BY DEF Tables
    <2>3. \A h \in Keys : tbl[h] # NoRow => tbl[h].key = h BY DEF Tables
    <2>4. \A h : \A e : tbl[h] # NoRow => (Contains(EdgesOf(tbl[h]), e) <=> tbl[h].fk # NoRef /\ e = Edge(tbl[h].key, tbl[h].fk))
      <3> SUFFICES ASSUME NEW h, NEW e, tbl[h] # NoRow
                   PROVE  Contains(EdgesOf(tbl[h]), e) <=> tbl[h].fk # NoRef /\ e = Edge(tbl[h].key, tbl[h].fk)
        OBVIOUS
      <3>1. CASE tbl[h].fk = NoRef BY <3>1 DEF EdgesOf, Contains
      <3>2. CASE tbl[h].fk # NoRef BY <3>2 DEF EdgesOf, Contains
      <3> QED BY <3>1, <3>2
    <2>5. CASE id = Node(k)
      <3>1. id[2] = k /\ (\A h : id = Node(h) => h = k) /\ \A h, r : id # Edge(h, r)
        BY <2>5, IdsDiffer DEF Node
      <3>2. (\E h \in Keys : tbl[h] # NoRow /\ id = Node(h)) <=> tbl[k] # NoRow BY <2>5, <3>1
      <3>3. ~(\E h \in Keys : tbl[h] # NoRow /\ Contains(EdgesOf(tbl[h]), id)) BY <2>4, <3>1
      <3>4. Image(tbl)[id] = IF tbl[k] # NoRow THEN Doc(tbl[k]) ELSE NoDoc BY <2>1, <3>1, <3>2, <3>3 DEF Image
      <3> QED BY <2>2, <2>5, <3>4 DEF View, IdsOfRow
    <2>6. CASE \E r \in Refs : id = Edge(k, r)
      <3>1. PICK r \in Refs : id = Edge(k, r) BY <2>6
      <3>2. (\A h : id # Node(h)) /\ \A h, q : id = Edge(h, q) => h = k /\ q = r BY <3>1, IdsDiffer
      <3>3. (\E h \in Keys : tbl[h] # NoRow /\ Contains(EdgesOf(tbl[h]), id)) <=>
              tbl[k] # NoRow /\ tbl[k].fk = r
        <4>1. ASSUME NEW h \in Keys, tbl[h] # NoRow, Contains(EdgesOf(tbl[h]), id)
              PROVE  tbl[k] # NoRow /\ tbl[k].fk = r
          BY <2>3, <2>4, <3>2, <4>1
        <4>2. ASSUME tbl[k] # NoRow, tbl[k].fk = r PROVE Contains(EdgesOf(tbl[k]), id)
          <5>1. r # NoRef BY TableAssumption
          <5> QED BY <2>2, <2>4, <3>1, <4>2, <5>1
        <4> QED BY <4>1, <4>2
      <3>4. Image(tbl)[id] = IF tbl[k] # NoRow /\ tbl[k].fk = r THEN Doc(NoRow) ELSE NoDoc
        BY <2>1, <3>2, <3>3 DEF Image
      <3>5. tbl[k] # NoRow => (id \in IdsOfRow(tbl[k]) <=> tbl[k].fk = r)
        <4>1. r # NoRef BY TableAssumption
        <4> QED BY <2>2, <3>1, <3>2, <4>1 DEF IdsOfRow
      <3> QED BY <3>2, <3>4, <3>5 DEF View
    <2> QED BY <2>5, <2>6 DEF IdsOf
  <1>2. ASSUME NEW id \in DocIds \ (Nodes \cup Edges) PROVE Image(tbl)[id] = NoDoc
    <2>1. \A h \in Keys : id # Node(h) BY DEF Nodes
    <2>2. ASSUME NEW h \in Keys, tbl[h] # NoRow PROVE ~Contains(EdgesOf(tbl[h]), id)
      <3>1. tbl[h] \in Rows /\ tbl[h].key = h BY <2>2 DEF Tables
      <3>2. tbl[h].fk # NoRef => id # Edge(tbl[h].key, tbl[h].fk) BY <3>1 DEF Rows, Edges
      <3>3. CASE tbl[h].fk = NoRef BY <2>2, <3>3 DEF EdgesOf, Contains
      <3>4. CASE tbl[h].fk # NoRef BY <2>2, <3>2, <3>4 DEF EdgesOf, Contains
      <3> QED BY <3>3, <3>4
    <2> QED BY <2>1, <2>2 DEF Image
  <1> QED BY <1>1, <1>2

(***************************************************************************)
(* The work of a group that is one message                                 *)
(***************************************************************************)

(* A group of one has one order.                                           *)
LEMMA OneInOrder == ASSUME NEW m PROVE InOrder({m}) = [i \in 1 .. 1 |-> m]
  <1>1. Cardinality({m}) = 1 BY FS_Singleton
  <1> DEFINE s == [i \in 1 .. 1 |-> m]
             P(x) == x \in [1 .. 1 -> {m}] /\ \A i, j \in DOMAIN x : i < j => arrival[x[i]] < arrival[x[j]]
  <1>2. P(s)
    <2>1. \A i, j \in 1 .. 1 : ~(i < j) OBVIOUS
    <2> QED BY <2>1
  <1>3. InOrder({m}) = CHOOSE x : P(x)
    <2>1. InOrder({m}) = CHOOSE x \in [1 .. 1 -> {m}] : \A i, j \in DOMAIN x : i < j => arrival[x[i]] < arrival[x[j]]
      BY <1>1 DEF InOrder
    <2> QED BY <2>1
  <1> HIDE DEF P
  <1>4. P(InOrder({m})) BY <1>2, <1>3
  <1>5. InOrder({m}) \in [1 .. 1 -> {m}] BY <1>4 DEF P
  <1> QED BY <1>5

(* One sequence of deltas is all the deltas.                               *)
LEMMA FlattenOne == ASSUME NEW x PROVE FlattenSeq([i \in 1 .. 1 |-> x]) = x
  <1> DEFINE s == [i \in 1 .. 1 |-> x]
  <1>0. Len(s) = 1 /\ s[1] = x OBVIOUS
  <1> HIDE DEF s
  <1> DEFINE F == CHOOSE f : f = [i \in 1 .. Len(s) |-> IF i = 1 THEN s[i] ELSE f[i-1] \o s[i]]
  <1>2. FlattenSeq(s) = F[Len(s)] BY <1>0 DEF FlattenSeq
  <1>3. \E f : f = [i \in 1 .. Len(s) |-> IF i = 1 THEN s[i] ELSE f[i-1] \o s[i]]
    <2> DEFINE g == [i \in 1 .. 1 |-> s[1]]
    <2>1. g = [i \in 1 .. Len(s) |-> IF i = 1 THEN s[i] ELSE g[i-1] \o s[i]] BY <1>0
    <2> QED BY <2>1
  <1>4. F = [i \in 1 .. Len(s) |-> IF i = 1 THEN s[i] ELSE F[i-1] \o s[i]] BY <1>3
  <1> HIDE DEF F
  <1>5. FlattenSeq(s) = x BY <1>0, <1>2, <1>4
  <1> QED BY <1>5 DEF s

(* The delta of message m for one of its ids, and what may be left of the  *)
(* deltas of m.                                                            *)
Item(m, id) ==
  [delta |-> [op |-> IF batch[m].op = "UPDATE" THEN "REPLACE" ELSE batch[m].op, id |-> id,
              body |-> IF id = Node(RowOf(batch[m]).key) THEN RowOf(batch[m]) ELSE NoRow],
   lsn |-> batch[m].lsn, msg |-> m]
Works(m) ==
  LET row == RowOf(batch[m])
  IN  IF row.fk = NoRef THEN {<<>>, <<Item(m, Node(row.key))>>}
      ELSE {<<>>, <<Item(m, Edge(row.key, row.fk))>>,
            <<Item(m, Node(row.key)), Item(m, Edge(row.key, row.fk))>>}
IdsIn(w) == {w[i].delta.id : i \in DOMAIN w}

(* Two sequences of one element make one of two.                           *)
LEMMA OneAndOne == ASSUME NEW a, NEW b PROVE <<a>> \o <<b>> = <<a, b>>
  <1> DEFINE s == <<a>>
             t == <<b>>
  <1>1. /\ s \in Seq({a, b}) /\ t \in Seq({a, b}) /\ Len(s) = 1 /\ Len(t) = 1
        /\ s[1] = a /\ t[1] = b
    OBVIOUS
  <1> HIDE DEF s, t
  <1>2. /\ s \o t \in Seq({a, b}) /\ Len(s \o t) = 2
        /\ (s \o t)[1] = a /\ (s \o t)[2] = b
    <2>1. PICK T : T = {a, b} OBVIOUS
    <2>2. s \in Seq(T) /\ t \in Seq(T) BY <1>1, <2>1
    <2>3. /\ s \o t \in Seq(T) /\ Len(s \o t) = Len(s) + Len(t)
          /\ \A i \in 1 .. Len(s) : (s \o t)[i] = s[i]
          /\ \A i \in 1 .. Len(t) : (s \o t)[Len(s) + i] = t[i]
      BY <2>2
    <2> QED BY <1>1, <2>1, <2>3
  <1>3. <<a, b>> \in Seq({a, b}) /\ Len(<<a, b>>) = 2 /\ <<a, b>>[1] = a /\ <<a, b>>[2] = b OBVIOUS
  <1>4. \A u, v \in Seq({a, b}) : Len(u) = 2 /\ Len(v) = 2 /\ u[1] = v[1] /\ u[2] = v[2] => u = v
    OBVIOUS
  <1>5. s \o t = <<a, b>> BY <1>2, <1>3, <1>4
  <1> QED BY <1>5 DEF s, t

(* The deltas of a message: the document, then the edge, if it has one.    *)
LEMMA DeltasOfOne ==
  ASSUME NEW m, RowOf(batch[m]) # NoRow
  PROVE  DeltasOf(m) \in Works(m) /\ IdsIn(DeltasOf(m)) = IdsOfRow(RowOf(batch[m])) /\ DeltasOf(m) # <<>>
  <1> DEFINE e == batch[m]
             row == RowOf(e)
             op == IF e.op = "UPDATE" THEN "REPLACE" ELSE e.op
             D(id, body) == [op |-> op, id |-> id, body |-> body]
             ds == <<D(Node(row.key), row)>> \o [i \in DOMAIN EdgesOf(row) |-> D(EdgesOf(row)[i], NoRow)]
             w == [i \in DOMAIN ds |-> [delta |-> ds[i], lsn |-> e.lsn, msg |-> m]]
  <1>1. Transform(e) = ds BY DEF Transform, RowOf
  <1>2. DeltasOf(m) = w BY <1>1 DEF DeltasOf
  <1>3. Item(m, Node(row.key)) = [delta |-> D(Node(row.key), row), lsn |-> e.lsn, msg |-> m] BY DEF Item
  <1>4. Item(m, Edge(row.key, row.fk)) = [delta |-> D(Edge(row.key, row.fk), NoRow), lsn |-> e.lsn, msg |-> m]
    BY IdsDiffer DEF Item
  <1>5. CASE row.fk = NoRef
    <2>1. EdgesOf(row) = <<>> BY <1>5 DEF EdgesOf
    <2>2. ds = <<D(Node(row.key), row)>> BY <2>1
    <2> HIDE DEF ds
    <2>3. w = <<Item(m, Node(row.key))>> BY <1>3, <2>2
    <2> HIDE DEF w
    <2>4. IdsIn(w) = {Node(row.key)} BY <1>3, <2>3 DEF IdsIn
    <2>5. DeltasOf(m) = <<Item(m, Node(row.key))>> BY <1>2, <2>3
    <2> QED BY <1>2, <1>5, <2>4, <2>5 DEF Works, IdsOfRow
  <1>6. CASE row.fk # NoRef
    <2>1. EdgesOf(row) = <<Edge(row.key, row.fk)>> BY <1>6 DEF EdgesOf
    <2>2. ds = <<D(Node(row.key), row), D(Edge(row.key, row.fk), NoRow)>>
      <3> DEFINE es == [i \in DOMAIN EdgesOf(row) |-> D(EdgesOf(row)[i], NoRow)]
      <3>1. es = <<D(Edge(row.key, row.fk), NoRow)>> BY <2>1
      <3> HIDE DEF es
      <3>2. ds = <<D(Node(row.key), row)>> \o es
        <4>1. ds = <<D(Node(row.key), row)>> \o [i \in DOMAIN EdgesOf(row) |-> D(EdgesOf(row)[i], NoRow)] OBVIOUS
        <4> QED BY <4>1 DEF es
      <3> HIDE DEF ds, D, row
      <3> QED BY <3>1, <3>2, OneAndOne
    <2> HIDE DEF ds
    <2>3. w = <<Item(m, Node(row.key)), Item(m, Edge(row.key, row.fk))>> BY <1>3, <1>4, <2>2
    <2> HIDE DEF w
    <2>4. IdsIn(w) = {Node(row.key), Edge(row.key, row.fk)}
      <3>1. PICK a : a = Item(m, Node(row.key)) /\ a.delta.id = Node(row.key) BY <1>3
      <3>2. PICK b : b = Item(m, Edge(row.key, row.fk)) /\ b.delta.id = Edge(row.key, row.fk) BY <1>4
      <3>3. w = <<a, b>> BY <2>3, <3>1, <3>2
      <3>4. DOMAIN w = {1, 2} /\ w[1] = a /\ w[2] = b BY <3>3
      <3>5. IdsIn(w) = {a.delta.id, b.delta.id} BY <3>4 DEF IdsIn
      <3> QED BY <3>1, <3>2, <3>5
    <2>5. DeltasOf(m) = <<Item(m, Node(row.key)), Item(m, Edge(row.key, row.fk))>> BY <1>2, <2>3
    <2> QED BY <1>2, <1>6, <2>4, <2>5 DEF Works, IdsOfRow
  <1> QED BY <1>5, <1>6

(* Applying a delta takes its id off the work, and no other.               *)
LEMMA WorkShrinks ==
  ASSUME NEW m, NEW w \in Works(m), w # <<>>
  PROVE  /\ Tail(w) \in Works(m)
         /\ \E id \in IdsOfRow(RowOf(batch[m])) :
              Head(w) = Item(m, id) /\ id \in IdsIn(w) /\ IdsIn(Tail(w)) = IdsIn(w) \ {id}
  <1> DEFINE row == RowOf(batch[m])
             n == Item(m, Node(row.key))
             d == Item(m, Edge(row.key, row.fk))
  <1>1. n.delta.id = Node(row.key) /\ d.delta.id = Edge(row.key, row.fk) /\ Node(row.key) # Edge(row.key, row.fk)
    BY IdsDiffer DEF Item
  <1>2. w = <<n>> \/ w = <<d>> \/ w = <<n, d>> BY DEF Works
  <1>3. (w = <<n>> => row.fk = NoRef) /\ (w # <<n>> => row.fk # NoRef)
    <2>1. <<n>> # <<d>> /\ <<n>> # <<n, d>> BY <1>1
    <2> HIDE DEF n, d
    <2> QED BY <1>2, <2>1 DEF Works, n, d
  <1> HIDE DEF n, d
  <1>4. CASE w = <<n>>
    <2>1. Head(w) = n /\ Tail(w) = <<>> BY <1>4
    <2>2. IdsIn(w) = {Node(row.key)} BY <1>1, <1>4 DEF IdsIn
    <2>3. IdsIn(<<>>) = {} BY DEF IdsIn
    <2> QED BY <1>3, <1>4, <2>1, <2>2, <2>3 DEF Works, IdsOfRow, n
  <1>5. CASE w = <<d>>
    <2>1. Head(w) = d /\ Tail(w) = <<>> BY <1>5
    <2>2. IdsIn(w) = {Edge(row.key, row.fk)} BY <1>1, <1>5 DEF IdsIn
    <2>3. IdsIn(<<>>) = {} BY DEF IdsIn
    <2>4. row.fk # NoRef
      <3>1. <<d>> # <<n>>
        <4>1. d # n BY <1>1
        <4> QED BY <4>1
      <3> QED BY <1>3, <1>5, <3>1
    <2> QED BY <1>5, <2>1, <2>2, <2>3, <2>4 DEF Works, IdsOfRow, d
  <1>6. CASE w = <<n, d>>
    <2>1. Head(w) = n /\ Tail(w) = <<d>> BY <1>6
    <2>2. IdsIn(w) = {Node(row.key), Edge(row.key, row.fk)} BY <1>1, <1>6 DEF IdsIn
    <2>3. IdsIn(<<d>>) = {Edge(row.key, row.fk)} BY <1>1 DEF IdsIn
    <2>4. row.fk # NoRef
      <3>1. <<n, d>> # <<n>> OBVIOUS
      <3> QED BY <1>3, <1>6, <3>1
    <2> QED BY <1>1, <1>6, <2>1, <2>2, <2>3, <2>4 DEF Works, IdsOfRow, n, d
  <1> QED BY <1>2, <1>4, <1>5, <1>6

(* What a delta that did not fail has made of its document: what the event *)
(* makes of the row, or, after a conflict, nothing.                        *)
LEMMA ResolvedItem ==
  ASSUME NEW m, batch[m].lsn \in Nat, RowOf(batch[m]) \in Rows, batch[m].op \in {"INSERT", "UPDATE", "DELETE"},
         batch[m].op = "DELETE" => batch[m].new = NoRow,
         NEW id \in IdsOfRow(RowOf(batch[m])), id \in DocIds, policy \in GoesOn,
         NEW o \in Resolve(Item(m, id))
  PROVE  /\ Elsewhere(store, o.store, id)
         /\ o.verdict # "failed" =>
              \/ SameBody(o.store[id], View(batch[m].new, id))
              \/ batch[m].op = "INSERT" /\ o.store[id] = store[id] /\ store[id] # NoDoc
              \/ batch[m].op = "UPDATE" /\ o.store[id] = store[id] /\ store[id] = NoDoc
  <1> DEFINE w == Item(m, id)
             row == RowOf(batch[m])
             d == Doc(w.delta.body)
  <1>1. /\ w.delta.op = IF batch[m].op = "UPDATE" THEN "REPLACE" ELSE batch[m].op
        /\ w.delta.id = id /\ w.lsn = batch[m].lsn
        /\ w.delta.body = IF id = Node(row.key) THEN row ELSE NoRow
    BY DEF Item
  <1>2. d \in Stored /\ d # NoDoc BY <1>1, TargetAssumption DEF Doc, Stored
  <1>3. row # NoRow BY TableAssumption
  <1>4. batch[m].op # "DELETE" => View(batch[m].new, id) = d
    BY <1>1, <1>3 DEF RowOf, View
  <1> HIDE DEF w, d
  <1>5. CASE batch[m].op = "INSERT"
    <2>1. o \in ResolveInsert(policy, store, id, d, w.lsn) BY <1>1, <1>5 DEF Resolve, w, d
    <2>2. /\ Elsewhere(store, o.store, id)
          /\ o.verdict # "failed" => o.store[id] = d \/ (o.store[id] = store[id] /\ store[id] # NoDoc)
      <3>1. w.lsn \in Nat \cup {NoLsn} BY <1>1
      <3> QED BY <1>2, <2>1, <3>1, InsertResolved
    <2>3. SameBody(d, d) BY DEF SameBody
    <2> QED BY <1>4, <1>5, <2>2, <2>3
  <1>6. CASE batch[m].op = "UPDATE"
    <2>1. o \in ResolveReplace(policy, store, id, d, w.lsn) BY <1>1, <1>6 DEF Resolve, w, d
    <2>2. /\ Elsewhere(store, o.store, id)
          /\ o.verdict # "failed" => \/ o.store[id] # NoDoc /\ o.store[id].body = d.body
                                     \/ o.store[id] = NoDoc /\ store[id] = NoDoc
      <3>1. w.lsn \in Nat \cup {NoLsn} BY <1>1
      <3> QED BY <1>2, <2>1, <3>1, ReplaceResolved
    <2>3. o.store[id] # NoDoc /\ o.store[id].body = d.body => SameBody(o.store[id], d) BY <1>2 DEF SameBody
    <2> QED BY <1>4, <1>6, <2>2, <2>3
  <1>7. CASE batch[m].op = "DELETE"
    <2>1. o \in ResolveDelete(store, id) BY <1>1, <1>7 DEF Resolve, w
    <2>2. View(batch[m].new, id) = NoDoc BY <1>7 DEF View
    <2>3. Elsewhere(store, o.store, id) /\ (o.verdict # "failed" => o.store[id] = NoDoc) BY <2>1, DeleteResolved
    <2> QED BY <2>2, <2>3 DEF SameBody
  <1> QED BY <1>5, <1>6, <1>7

(* An event of a row of k.                                                 *)
Proper(e, k) ==
  /\ RowOf(e) \in RowsOf(k) \ {NoRow}
  /\ e.op \in {"INSERT", "UPDATE", "DELETE"} /\ e.lsn \in Nat
  /\ e.op = "DELETE" => e.new = NoRow
=============================================================================
