---------------------------- MODULE GovernedProofs ----------------------------
(***************************************************************************)
(* What GovernedSave.tla promises for any mappings, any number of requests *)
(* and any number of failures and crashes: nothing is saved that was not   *)
(* checked, every version that is replaced is kept, every entry points at  *)
(* kept versions, and the history accounts for the file.  And what the     *)
(* queue of history entries (Outbox.tla) promises, however often the       *)
(* process dies.                                                           *)
(***************************************************************************)
EXTENDS GovernedSave, Outbox, FiniteSetTheorems, SequenceTheorems, TLAPS

EntryRecords ==
  [part : Parts, outcome : {"permitted", "denied"},
   before : Texts \cup {NoFile}, after : Texts \cup {NoFile}]

Types ==
  /\ TypeOK
  /\ DOMAIN granted = Requests
  /\ items \in [Requests -> Seq(Parts)]
  /\ before \in [Requests -> Texts \cup {NoFile}] /\ after \in [Requests -> Texts \cup {NoFile}]
  /\ entries \in Seq(EntryRecords)

(* Who writes holds the lock, or as a creation the event loop; who holds   *)
(* one of them is at work.                                                 *)
Holding ==
  \A r \in Requests :
    /\ pc[r] \in {"compare", "keep_before", "open"} => lock = r /\ loop # r
    /\ pc[r] = "seed" => loop = r /\ lock # r
    /\ pc[r] \in {"write", "keep_after", "record"} => (lock = r) # (loop = r)
    /\ lock = r \/ loop = r => Busy(r)

(* A save that waits or works: the project was in the catalog when it was  *)
(* made.                                                                   *)
Saving(r) == pc[r] = "waiting" \/ lock = r

(* A known project has its file, unless its creation was cut short, so no  *)
(* creation writes while a save is under way.                              *)
Filed ==
  /\ \A r \in Requests : loop = r /\ pc[r] # "seed" => file # NoFile
  /\ "orphaned" \notin mishaps =>
       /\ known /\ file = NoFile => \E r \in Requests : pc[r] = "seed"
       /\ \A r \in Requests : Saving(r) => file # NoFile
       /\ \A r, q \in Requests : Saving(r) /\ loop = q => pc[q] # "write"

(* The differences from a mapping to the one wanted have been permitted.   *)
Permitted(r, old) ==
  \A p \in SaveChanges(old, wanted[r]) : Terms(old, wanted[r], p) \subseteq granted[r]

(* Between reading the file and emptying it, it does not change: what was  *)
(* asked about is what will be replaced, and it is kept.                   *)
Unchanged(r) ==
  /\ pc[r] \in {"keep_before", "open"} => Permitted(r, Reads(file))
  /\ pc[r] = "keep_before" => file = before[r]
  /\ pc[r] = "open" /\ file \in Mappings => file \in kept
  /\ pc[r] = "write" => file = Blank

Checked ==
  \A r \in Requests :
    /\ "orphaned" \notin mishaps => Unchanged(r)
    /\ pc[r] \in {"create", "seed"} => Permitted(r, Empty)

(* The versions a request will name in its entries have been kept.         *)
Versions ==
  \A r \in Requests :
    /\ pc[r] \in {"open", "create", "seed", "write", "keep_after", "record"} =>
         before[r] \in kept \cup {NoFile}
    /\ pc[r] = "record" /\ items[r] # <<>> => after[r] \in kept

Inv == Types /\ Holding /\ Filed /\ Checked /\ Versions /\ EntriesPointAtKept

(* Nothing was cut while it wrote or recorded, and no project was created  *)
(* a second time.                                                          *)
Clean == mishaps \cap {"cut", "recreated"} = {}

(* A creation has the project to itself.                                   *)
Alone ==
  /\ ~known => file = first /\ \A r \in Requests : pc[r] \in {"new", "ask", "create", "ended"}
  /\ loop # Nobody => \A q \in Requests : ~Saving(q)

(* What a request will have recorded covers what it will have changed.     *)
Covers(r, old) == SaveChanges(old, wanted[r]) \subseteq ToSet(items[r])
Covering ==
  \A r \in Requests :
    /\ pc[r] \in {"keep_before", "open"} => Covers(r, Reads(file))
    /\ pc[r] \in {"create", "seed"} => Covers(r, Empty)
    /\ pc[r] = "write" => file = Blank
    /\ pc[r] = "keep_after" /\ lock = r => file = wanted[r]
    /\ pc[r] = "record" /\ items[r] # <<>> => Reads(after[r]) = Reads(file)

(* The history says of each part what the file will say once the request   *)
(* that is writing is done, but for the parts it has yet to record.        *)
Writing(r) == pc[r] \in {"write", "keep_after", "record"}
Goal(r) == IF pc[r] = "write" THEN wanted[r] ELSE Reads(file)
Accounted ==
  /\ ~known => \A p \in Parts : About(p) = {}
  /\ known /\ (\A r \in Requests : ~Writing(r)) => \A p \in Parts : Recorded(p) = Reads(file)[p]
  /\ \A r \in Requests : Writing(r) =>
       \A p \in Parts : p \in ToSet(items[r]) \/ Recorded(p) = Goal(r)[p]

History == Clean => Alone /\ Covering /\ Accounted

(***************************************************************************)
(* Sets as sequences, and the last entry about a part                      *)
(***************************************************************************)

(* SetToSeq lists a finite set.                                            *)
LEMMA SetToSeqOf ==
  ASSUME NEW S, IsFiniteSet(S)
  PROVE  SetToSeq(S) \in Seq(S) /\ ToSet(SetToSeq(S)) = S
  <1> DEFINE n == Cardinality(S)
  <1>1. n \in Nat /\ ExistsBijection(1..n, S) BY FS_CardinalityType
  <1>2. \E f \in [1..n -> S] : IsInjective(f)
    BY <1>1 DEF ExistsBijection, Bijection, Injection
  <1>3. SetToSeq(S) \in [1..n -> S] /\ IsInjective(SetToSeq(S)) BY <1>2 DEF SetToSeq
  <1> DEFINE s == SetToSeq(S)
  <1> HIDE DEF s
  <1>4. s \in Injection(1..n, S) BY <1>3 DEF Injection, s
  <1>5. IsFiniteSet(1..n) /\ Cardinality(1..n) = n BY <1>1, FS_Interval
  <1>6. s \in Surjection(1..n, S) BY <1>4, <1>5, FS_Injection
  <1>7. s \in [1..n -> S] BY <1>3 DEF s
  <1>8. \A x \in S : \E i \in 1..n : s[i] = x BY <1>6 DEF Surjection
  <1>9. ToSet(s) = S BY <1>7, <1>8 DEF ToSet
  <1>10. s \in Seq(S) BY <1>1, <1>7
  <1> QED BY <1>9, <1>10 DEF s

LEMMA HeadAndTail ==
  ASSUME NEW S, NEW s \in Seq(S), s # <<>>
  PROVE  /\ Head(s) \in S /\ Tail(s) \in Seq(S)
         /\ ToSet(s) = {Head(s)} \cup ToSet(Tail(s))
  <1>1. Head(s) \in S /\ Tail(s) \in Seq(S) OBVIOUS
  <1>2. Len(s) \in Nat /\ Len(s) >= 1 /\ DOMAIN s = 1..Len(s) OBVIOUS
  <1>3. /\ Head(s) = s[1] /\ DOMAIN Tail(s) = 1..(Len(s) - 1)
        /\ \A i \in 1..(Len(s) - 1) : Tail(s)[i] = s[i + 1]
    OBVIOUS
  <1>4. ToSet(s) \subseteq {Head(s)} \cup ToSet(Tail(s))
    <2> SUFFICES ASSUME NEW i \in 1..Len(s), i # 1 PROVE s[i] \in ToSet(Tail(s))
      BY <1>2, <1>3 DEF ToSet
    <2>1. i - 1 \in 1..(Len(s) - 1) /\ s[i] = Tail(s)[i - 1] BY <1>2, <1>3
    <2> QED BY <1>3, <2>1 DEF ToSet
  <1>5. {Head(s)} \cup ToSet(Tail(s)) \subseteq ToSet(s)
    <2>1. \A i \in 1..(Len(s) - 1) : i + 1 \in 1..Len(s) BY <1>2
    <2> QED BY <1>2, <1>3, <2>1 DEF ToSet
  <1> QED BY <1>1, <1>4, <1>5

(* A set of naturals that has a bound has a greatest member.               *)
LEMMA LeastOf ==
  ASSUME NEW S \in SUBSET Nat, S # {}
  PROVE  \E n \in S : \A m \in S : n <= m
  <1> DEFINE R == OpToRel(<, Nat)
  <1>1. IsWellFoundedOn(R, Nat) BY NatLessThanWellFounded
  <1>2. \A x, y \in Nat : <<x, y>> \in R <=> x < y BY DEF OpToRel
  <1> HIDE DEF R
  <1>3. \E x \in S : \A y \in S : ~(<<y, x>> \in R) BY <1>1, WFMin
  <1>4. PICK n \in S : \A y \in S : ~(<<y, n>> \in R) BY <1>3
  <1>5. \A m \in S : ~(m < n) BY <1>2, <1>4
  <1> QED BY <1>5

LEMMA MaxOf ==
  ASSUME NEW S \in SUBSET Nat, S # {}, NEW n \in Nat, \A i \in S : i <= n
  PROVE  Max(S) \in S /\ \A i \in S : i <= Max(S)
  <1> DEFINE U == {k \in Nat : \A i \in S : i <= k}
  <1>1. PICK k \in U : \A m \in U : k <= m BY LeastOf
  <1>2. k \in S
    <2> SUFFICES ASSUME k \notin S PROVE FALSE OBVIOUS
    <2>1. \A i \in S : i < k BY <1>1
    <2>2. k - 1 \in Nat
      <3>1. PICK i \in S : TRUE OBVIOUS
      <3>2. i \in Nat /\ i < k /\ k \in Nat BY <1>1, <2>1
      <3> QED BY <3>2
    <2>3. k - 1 \in U BY <2>1, <2>2
    <2> QED BY <1>1, <2>2, <2>3
  <1>3. \E x \in S : \A y \in S : x >= y BY <1>1, <1>2
  <1> QED BY <1>3 DEF Max

LEMMA AboutIn ==
  ASSUME Types, NEW p
  PROVE  /\ About(p) \subseteq 1..Len(entries) /\ Len(entries) \in Nat
         /\ About(p) # {} => Max(About(p)) \in About(p)
  <1>1. About(p) \subseteq 1..Len(entries) /\ Len(entries) \in Nat BY DEF About, Types
  <1>2. About(p) \in SUBSET Nat /\ \A i \in About(p) : i <= Len(entries) BY <1>1
  <1> QED BY <1>1, <1>2, MaxOf

(* Entries that are only about refusals leave the history as it was.       *)
LEMMA RecordedSame ==
  ASSUME Types, NEW denied \in Seq(EntryRecords), entries' = entries \o denied,
         \A i \in DOMAIN denied : denied[i].outcome = "denied", first' = first, NEW p
  PROVE  About(p)' = About(p) /\ Recorded(p)' = Recorded(p)
  <1> DEFINE n == Len(entries)
  <1>1. /\ n \in Nat /\ DOMAIN entries = 1..n /\ DOMAIN denied = 1..Len(denied)
        /\ Len(denied) \in Nat /\ DOMAIN entries' = 1..(n + Len(denied))
        /\ \A i \in 1..n : entries'[i] = entries[i]
        /\ \A i \in 1..Len(denied) : entries'[n + i] = denied[i]
    BY DEF Types
  <1>2. \A i \in DOMAIN entries' : i \in 1..n \/ i - n \in 1..Len(denied) BY <1>1
  <1>3. \A i \in DOMAIN entries' : i \notin 1..n => entries'[i].outcome = "denied"
    <2> SUFFICES ASSUME NEW i \in DOMAIN entries', i \notin 1..n PROVE entries'[i] = denied[i - n]
      BY <1>1, <1>2
    <2>1. i - n \in 1..Len(denied) /\ n + (i - n) = i BY <1>1, <1>2
    <2> QED BY <1>1, <2>1
  <1>4. 1..n \subseteq DOMAIN entries' BY <1>1
  <1>5. About(p)' = About(p) BY <1>1, <1>3, <1>4 DEF About
  <1>6. \A i \in About(p) : entries'[i] = entries[i] BY <1>1 DEF About
  <1> QED BY <1>5, <1>6, AboutIn DEF Recorded, Reads

(* An entry about a part says what the history now says of it.             *)
LEMMA RecordedNext ==
  ASSUME Types, NEW e \in EntryRecords, e.outcome = "permitted",
         entries' = Append(entries, e), first' = first, NEW p
  PROVE  Recorded(p)' = IF p = e.part THEN Reads(e.after)[p] ELSE Recorded(p)
  <1> DEFINE n == Len(entries)
  <1>1. /\ n \in Nat /\ DOMAIN entries = 1..n /\ DOMAIN entries' = 1..(n + 1)
        /\ \A i \in 1..n : entries'[i] = entries[i]
        /\ entries'[n + 1] = e
    BY DEF Types
  <1>2. 1..(n + 1) = 1..n \cup {n + 1} /\ n + 1 \notin 1..n BY <1>1
  <1>3. About(p)' = IF p = e.part THEN About(p) \cup {n + 1} ELSE About(p)
    BY <1>1, <1>2 DEF About
  <1>4. CASE p = e.part
    <2>1. \A i \in About(p)' : i \in Nat /\ i <= n + 1 BY <1>1, <1>3, AboutIn
    <2>2. Max(About(p)') \in About(p)' /\ n + 1 <= Max(About(p)')
      <3>1. About(p)' \in SUBSET Nat /\ n + 1 \in Nat /\ n + 1 \in About(p)' BY <1>1, <1>3, <1>4, <2>1
      <3> QED BY <2>1, <3>1, MaxOf
    <2>3. Max(About(p)') = n + 1 BY <1>1, <2>1, <2>2
    <2>4. Recorded(p)' = Reads(entries'[Max(About(p)')].after)[p]
      BY <1>3, <1>4 DEF Recorded, Reads
    <2> QED BY <1>1, <1>4, <2>3, <2>4
  <1>5. CASE p # e.part
    <2>1. \A i \in About(p) : entries'[i] = entries[i] BY <1>1 DEF About
    <2> QED BY <1>3, <1>5, <2>1, AboutIn DEF Recorded, Reads
  <1> QED BY <1>4, <1>5

(***************************************************************************)
(* The steps: what they do to lock, loop and pc                            *)
(***************************************************************************)

(* The policy refuses, and the request ends with entries that say so; or   *)
(* it permits every difference, and the request goes on.                   *)
Denies(r) ==
  /\ End(r) /\ UNCHANGED request
  /\ \E denied \in Seq(EntryRecords) :
       /\ entries' = entries \o denied
       /\ \A i \in DOMAIN denied : denied[i].outcome = "denied"
Permits(r, saved, next) ==
  /\ Goto(r, next) /\ before' = [before EXCEPT ![r] = saved]
  /\ \A p \in SaveChanges(Reads(saved), wanted[r]) :
       Terms(Reads(saved), wanted[r], p) \subseteq granted'[r]
  /\ items' \in [Requests -> Seq(Parts)]
  /\ ToSet(items'[r]) = SaveChanges(Reads(saved), wanted[r])
  /\ \A q \in Requests \ {r} : items'[q] = items[q] /\ granted'[q] = granted[q]
  /\ DOMAIN granted' = Requests
  /\ UNCHANGED <<entries, lock, loop, wanted, after>>

LEMMA Governed ==
  ASSUME Types, NEW r \in Requests, NEW saved, NEW permitted, NEW next,
         Govern(r, saved, wanted[r], permitted, next)
  PROVE  Denies(r) \/ Permits(r, saved, next)
  <1> DEFINE old == Reads(saved)
             refusedSet == Refused(old, wanted[r], permitted)
             refused == SetToSeq(refusedSet)
             changes == SaveChanges(old, wanted[r])
  <1>1. /\ IsFiniteSet(changes) /\ changes \subseteq Parts
        /\ IsFiniteSet(refusedSet) /\ refusedSet \subseteq Parts
    BY MappingsAssumption, FS_Subset DEF SaveChanges, Refused
  <1>2. refused \in Seq(Parts) /\ ToSet(refused) = refusedSet
    <2>1. refused \in Seq(refusedSet) /\ ToSet(refused) = refusedSet BY <1>1, SetToSeqOf
    <2> QED BY <1>1, <2>1
  <1>3. SetToSeq(changes) \in Seq(Parts) /\ ToSet(SetToSeq(changes)) = changes
    <2>1. SetToSeq(changes) \in Seq(changes) /\ ToSet(SetToSeq(changes)) = changes
      BY <1>1, SetToSeqOf
    <2> QED BY <1>1, <2>1
  <1>4. IF refused # <<>>
          THEN /\ entries' = entries \o
                    [i \in DOMAIN refused |-> Entry(refused[i], "denied", NoFile, NoFile)]
               /\ End(r) /\ UNCHANGED request
          ELSE /\ granted' = [granted EXCEPT ![r] = permitted]
               /\ items' = [items EXCEPT ![r] = SetToSeq(changes)]
               /\ Goto(r, next) /\ before' = [before EXCEPT ![r] = saved]
               /\ UNCHANGED <<entries, lock, loop, wanted, after>>
    BY DEF Govern
  <1> HIDE DEF refused, changes
  <1>5. CASE refused # <<>>
    <2> DEFINE denied == [i \in DOMAIN refused |-> Entry(refused[i], "denied", NoFile, NoFile)]
    <2>1. DOMAIN denied = 1..Len(refused) /\ Len(refused) \in Nat BY <1>2
    <2>2. \A i \in 1..Len(refused) : denied[i] \in EntryRecords /\ denied[i].outcome = "denied"
      BY <1>2 DEF EntryRecords, Entry
    <2>3. entries' = entries \o denied /\ denied = [i \in DOMAIN denied |-> denied[i]]
      BY <1>4, <1>5
    <2> HIDE DEF denied
    <2>4. denied \in [1..Len(refused) -> EntryRecords] BY <2>1, <2>2, <2>3
    <2>5. denied \in Seq(EntryRecords) BY <2>1, <2>4
    <2> QED BY <1>4, <1>5, <2>1, <2>2, <2>3, <2>5 DEF Denies
  <1>6. CASE refused = <<>>
    <2>1. refusedSet = {} BY <1>2, <1>6 DEF ToSet
    <2>2. \A p \in SaveChanges(old, wanted[r]) : Terms(old, wanted[r], p) \subseteq permitted
      BY <2>1 DEF Refused
    <2> QED BY <1>3, <1>4, <1>6, <2>2 DEF Permits, Types, changes
  <1> QED BY <1>5, <1>6

LEMMA HoldingStep ==
  ASSUME Types, Holding, [Next]_vars
  PROVE  Holding'
  <1> USE MappingsAssumption DEF Holding, Types, TypeOK, Busy
  <1>1. ASSUME NEW r \in Requests, SaveRequest(r) PROVE Holding' BY <1>1 DEF SaveRequest, Goto
  <1>2. ASSUME NEW r \in Requests, CreateRequest(r) PROVE Holding'
    <2>1. Goto(r, "ask") /\ pc[r] = "new" /\ UNCHANGED <<lock, loop>> BY <1>2 DEF CreateRequest
    <2> QED BY <2>1 DEF Goto
  <1>3. ASSUME NEW r \in Requests, Lock(r) PROVE Holding' BY <1>3 DEF Lock, Goto
  <1>4. ASSUME NEW r \in Requests, CompareAndAsk(r) PROVE Holding'
    <2>1. pc[r] = "compare" /\ (Denies(r) \/ Permits(r, file, "keep_before"))
      BY <1>4, Governed DEF CompareAndAsk
    <2> QED BY <2>1 DEF Denies, Permits, End, Goto
  <1>5. ASSUME NEW r \in Requests, KeepBefore(r) \/ Open(r) PROVE Holding'
    BY <1>5 DEF KeepBefore, Open, Goto
  <1>6. ASSUME NEW r \in Requests, CreateAsk(r) PROVE Holding'
    <2>1. pc[r] = "ask" /\ (Denies(r) \/ Permits(r, NoFile, "create"))
      BY <1>6, Governed DEF CreateAsk
    <2> QED BY <2>1 DEF Denies, Permits, End, Goto
  <1>7. ASSUME NEW r \in Requests, Create(r) PROVE Holding' BY <1>7 DEF Create, Goto
  <1>8. ASSUME NEW r \in Requests, Seed(r) PROVE Holding' BY <1>8 DEF Seed, Goto
  <1>9. ASSUME NEW r \in Requests, Write(r) \/ KeepAfter(r) \/ Record(r) PROVE Holding'
    BY <1>9 DEF Write, KeepAfter, Record, Goto
  <1>10. ASSUME NEW r \in Requests, Respond(r) \/ Fail(r) PROVE Holding'
    BY <1>10 DEF Respond, Fail, Goto, End
  <1>11. CASE Crash BY <1>11 DEF Crash
  <1>12. CASE UNCHANGED vars BY <1>12 DEF vars, request
  <1> QED
    BY <1>1, <1>2, <1>3, <1>4, <1>5, <1>6, <1>7, <1>8, <1>9, <1>10, <1>11, <1>12 DEF Next, Step

(* The lock and the loop have one holder each.                             *)
LEMMA OneEach ==
  ASSUME Holding, NEW r \in Requests, NEW q \in Requests, Busy(r), Busy(q), r # q
  PROVE  (lock = r /\ loop = q) \/ (lock = q /\ loop = r)
  BY DEF Holding, Busy

(* Types without what it says of the lock.                                 *)
Sorts ==
  /\ known \in BOOLEAN /\ file \in Texts \cup {NoFile} /\ kept \subseteq Texts
  /\ lock \in Requests \cup {Nobody} /\ loop \in Requests \cup {Nobody}
  /\ pc \in [Requests -> Phases]
  /\ wanted \in [Requests -> Mappings]
  /\ mishaps \subseteq {"cut", "orphaned", "recreated"}
  /\ DOMAIN granted = Requests
  /\ items \in [Requests -> Seq(Parts)]
  /\ before \in [Requests -> Texts \cup {NoFile}] /\ after \in [Requests -> Texts \cup {NoFile}]
  /\ entries \in Seq(EntryRecords)

LEMMA TypesAre == Types <=> Sorts /\ \A r \in Requests : Busy(r) <=> (lock = r) # (loop = r)
  BY DEF Types, TypeOK, Sorts

LEMMA SortsStep ==
  ASSUME Types, Filed, Holding, [Next]_vars
  PROVE  Sorts'
  <1> USE MappingsAssumption DEF Sorts, Phases
  <1>0. Sorts BY TypesAre
  <1>a. Mappings \subseteq Texts /\ Blank \in Texts BY DEF Texts
  <1>b. \A r : MishapsOf(r) \subseteq {"cut", "orphaned"} BY DEF MishapsOf
  <1>1. ASSUME NEW r \in Requests, SaveRequest(r) PROVE Sorts'
    BY <1>0, <1>1 DEF SaveRequest, Goto, histories
  <1>2. ASSUME NEW r \in Requests, CreateRequest(r) PROVE Sorts'
    BY <1>0, <1>2 DEF CreateRequest, Goto, histories, Reads, Texts
  <1>3. ASSUME NEW r \in Requests, Lock(r) PROVE Sorts'
    BY <1>0, <1>3 DEF Lock, Goto, request, histories
  <1>4. ASSUME NEW r \in Requests, NEW saved \in Texts \cup {NoFile},
               NEW next \in {"keep_before", "create"}, Denies(r) \/ Permits(r, saved, next),
               UNCHANGED <<known, file, kept, histories>>
        PROVE  Sorts'
    <2>1. CASE Denies(r)
      <3>1. entries' \in Seq(EntryRecords) BY <1>0, <2>1 DEF Denies
      <3> QED BY <1>0, <1>4, <2>1, <3>1 DEF Denies, End, Goto, request, histories
    <2>2. CASE Permits(r, saved, next)
      BY <1>0, <1>4, <2>2 DEF Permits, Goto, histories
    <2> QED BY <1>4, <2>1, <2>2
  <1>5. ASSUME NEW r \in Requests, CompareAndAsk(r) PROVE Sorts'
    <2>1. Denies(r) \/ Permits(r, file, "keep_before") BY <1>5, Governed DEF CompareAndAsk
    <2> QED BY <1>0, <1>4, <1>5, <2>1 DEF CompareAndAsk
  <1>6. ASSUME NEW r \in Requests, CreateAsk(r) PROVE Sorts'
    <2>1. Denies(r) \/ Permits(r, NoFile, "create") BY <1>6, Governed DEF CreateAsk
    <2> QED BY <1>0, <1>4, <1>6, <2>1 DEF CreateAsk
  <1>7. ASSUME NEW r \in Requests, KeepBefore(r) PROVE Sorts'
    BY <1>0, <1>7 DEF KeepBefore, Goto, histories
  <1>8. ASSUME NEW r \in Requests, Open(r) \/ Write(r) PROVE Sorts'
    <2>1. /\ UNCHANGED <<known, kept, entries, lock, loop, request, histories>>
          /\ file' \in {Blank, wanted[r]}
          /\ \E next \in {"write", "keep_after"} : Goto(r, next)
      BY <1>8 DEF Open, Write
    <2>2. file' \in Texts BY <1>0, <1>a, <2>1
    <2>3. pc' \in [Requests -> Phases] BY <1>0, <2>1 DEF Goto
    <2> QED BY <1>0, <2>1, <2>2, <2>3 DEF request, histories
  <1>9. ASSUME NEW r \in Requests, KeepAfter(r) PROVE Sorts'
    <2>1. pc[r] = "keep_after" BY <1>9 DEF KeepAfter
    <2>2. loop = r => file \in Texts BY <1>0, <2>1 DEF Filed
    <2>3. wanted[r] \in Texts BY <1>0 DEF Texts
    <2>4. /\ UNCHANGED <<known, file, entries, lock, loop, wanted, granted, items, before, mishaps>>
          /\ pc' = [pc EXCEPT ![r] = "record"]
      BY <1>9 DEF KeepAfter, Goto, histories
    <2>5. \/ UNCHANGED <<kept, after>>
          \/ \E text \in Texts : kept' = kept \cup {text} /\ after' = [after EXCEPT ![r] = text]
      BY <1>9, <2>2, <2>3 DEF KeepAfter
    <2>6. kept' \subseteq Texts /\ after' \in [Requests -> Texts \cup {NoFile}]
      <3>1. kept \subseteq Texts /\ after \in [Requests -> Texts \cup {NoFile}] BY <1>0
      <3>2. CASE UNCHANGED <<kept, after>> BY <3>1, <3>2
      <3>3. ASSUME NEW text \in Texts, kept' = kept \cup {text}, after' = [after EXCEPT ![r] = text]
            PROVE  kept' \subseteq Texts /\ after' \in [Requests -> Texts \cup {NoFile}]
        <4>1. text \in Texts \cup {NoFile} OBVIOUS
        <4> QED BY <3>1, <3>3, <4>1
      <3> QED BY <2>5, <3>2, <3>3
    <2>7. pc' \in [Requests -> Phases] BY <1>0, <2>4
    <2> QED BY <1>0, <2>4, <2>6, <2>7
  <1>10. ASSUME NEW r \in Requests, Record(r) PROVE Sorts'
    <2> DEFINE e == Entry(Head(items[r]), "permitted", before[r], after[r])
    <2>1. Head(items[r]) \in Parts /\ Tail(items[r]) \in Seq(Parts)
      BY <1>0, <1>10, HeadAndTail DEF Record
    <2>2. e \in EntryRecords BY <1>0, <2>1 DEF Entry, EntryRecords
    <2>3. entries' = Append(entries, e) BY <1>10 DEF Record
    <2> HIDE DEF e
    <2>4. entries' \in Seq(EntryRecords) BY <1>0, <2>2, <2>3
    <2> QED BY <1>0, <1>10, <2>1, <2>4 DEF Record, histories
  <1>11. ASSUME NEW r \in Requests, Create(r) \/ Seed(r) PROVE Sorts'
    BY <1>0, <1>11 DEF Create, Seed, Goto, request, histories, Texts
  <1>12. ASSUME NEW r \in Requests, Respond(r) \/ Fail(r) PROVE Sorts'
    BY <1>b, <1>0, <1>12 DEF Respond, Fail, End, Goto, request, histories
  <1>13. CASE Crash
    <2>1. UNION {MishapsOf(r) : r \in Requests} \subseteq {"cut", "orphaned"} BY <1>b
    <2>2. mishaps' \subseteq {"cut", "orphaned", "recreated"} BY <1>0, <1>13, <2>1 DEF Crash
    <2>3. pc' \in [Requests -> Phases] BY <1>0, <1>13 DEF Crash
    <2> QED BY <1>0, <1>13, <2>2, <2>3 DEF Crash, request
  <1>14. CASE UNCHANGED vars BY <1>0, <1>14 DEF vars, request, histories
  <1> QED
    BY <1>1, <1>2, <1>3, <1>5, <1>6, <1>7, <1>8, <1>9, <1>10, <1>11, <1>12, <1>13, <1>14
       DEF Next, Step

LEMMA TypesStep ==
  ASSUME Types, Filed, Holding, [Next]_vars
  PROVE  Types'
  <1>1. Sorts' /\ Holding' BY SortsStep, HoldingStep
  <1>2. \A r \in Requests : (Busy(r) <=> (lock = r) # (loop = r))'
    BY <1>1 DEF Holding, Busy
  <1> QED BY <1>1, <1>2 DEF Types, TypeOK, Sorts

(***************************************************************************)
(* The steps: the file, what was asked about it, and the versions          *)
(***************************************************************************)

(* A known project has its file.                                           *)
LEMMA FiledStep ==
  ASSUME Types, Holding, Filed, [Next]_vars
  PROVE  Filed'
  <1> USE MappingsAssumption DEF Filed, Saving
  <1>0. Sorts BY TypesAre
  <1>a. Holding' BY HoldingStep
  <1>1. ASSUME NEW r \in Requests, SaveRequest(r) PROVE Filed'
    <2>1. /\ pc[r] = "new" /\ known /\ loop = Nobody
          /\ pc' = [pc EXCEPT ![r] = "waiting"]
          /\ UNCHANGED <<known, file, lock, loop, mishaps>>
      BY <1>1 DEF SaveRequest, Goto, histories
    <2>2. "orphaned" \notin mishaps => file # NoFile
      BY <2>1 DEF Holding
    <2> QED BY <1>0, <2>1, <2>2 DEF Sorts
  <1>2. ASSUME NEW r \in Requests, CreateRequest(r) PROVE Filed'
    <2>1. pc[r] = "new" /\ pc' = [pc EXCEPT ![r] = "ask"] /\ UNCHANGED <<known, file, lock, loop, mishaps>>
      BY <1>2 DEF CreateRequest, Goto, histories
    <2> QED BY <1>0, <2>1 DEF Sorts
  <1>3. ASSUME NEW r \in Requests, Lock(r) PROVE Filed'
    <2>1. /\ pc[r] = "waiting" /\ pc' = [pc EXCEPT ![r] = "compare"] /\ lock' = r
          /\ UNCHANGED <<known, file, loop, mishaps>>
      BY <1>3 DEF Lock, Goto, histories
    <2> QED BY <1>0, <2>1 DEF Sorts
  <1>4. ASSUME NEW r \in Requests, NEW saved, NEW next \in {"keep_before", "create"},
               Denies(r) \/ Permits(r, saved, next), pc[r] \in {"compare", "ask"},
               UNCHANGED <<known, file, kept, histories>>
        PROVE  Filed'
    <2>1. CASE Denies(r)
      BY <1>0, <1>4, <2>1 DEF Sorts, Denies, End, Goto, histories
    <2>2. CASE Permits(r, saved, next)
      BY <1>0, <1>4, <2>2 DEF Sorts, Permits, Goto, histories
    <2> QED BY <1>4, <2>1, <2>2
  <1>5. ASSUME NEW r \in Requests, CompareAndAsk(r) PROVE Filed'
    <2>1. Denies(r) \/ Permits(r, file, "keep_before") BY <1>5, Governed DEF CompareAndAsk
    <2> QED BY <1>4, <1>5, <2>1 DEF CompareAndAsk
  <1>6. ASSUME NEW r \in Requests, CreateAsk(r) PROVE Filed'
    <2>1. Denies(r) \/ Permits(r, NoFile, "create") BY <1>6, Governed DEF CreateAsk
    <2> QED BY <1>4, <1>6, <2>1 DEF CreateAsk
  <1>7. ASSUME NEW r \in Requests, KeepBefore(r) \/ KeepAfter(r) PROVE Filed'
    <2>1. /\ pc[r] \in {"keep_before", "keep_after"}
          /\ pc' = [pc EXCEPT ![r] = IF pc[r] = "keep_before" THEN "open" ELSE "record"]
          /\ UNCHANGED <<known, file, lock, loop, mishaps>>
      BY <1>7 DEF KeepBefore, KeepAfter, Goto, histories
    <2> QED BY <1>0, <2>1 DEF Sorts
  <1>8. ASSUME NEW r \in Requests, Open(r) PROVE Filed'
    <2>1. /\ pc[r] = "open" /\ file' = Blank /\ pc' = [pc EXCEPT ![r] = "write"]
          /\ UNCHANGED <<known, lock, loop, mishaps>>
      BY <1>8 DEF Open, Goto, histories
    <2> QED BY <1>0, <2>1 DEF Sorts, Holding
  <1>9. ASSUME NEW r \in Requests, Write(r) PROVE Filed'
    <2>1. /\ pc[r] = "write" /\ file' = wanted[r] /\ pc' = [pc EXCEPT ![r] = "keep_after"]
          /\ UNCHANGED <<known, lock, loop, mishaps>>
      BY <1>9 DEF Write, Goto, histories
    <2>2. file' # NoFile BY <1>0, <2>1 DEF Sorts
    <2> QED BY <1>0, <2>1, <2>2 DEF Sorts
  <1>10. ASSUME NEW r \in Requests, Create(r) PROVE Filed'
    <2>1. /\ pc[r] = "create" /\ loop = Nobody /\ loop' = r /\ pc' = [pc EXCEPT ![r] = "seed"]
          /\ "orphaned" \in mishaps' <=> "orphaned" \in mishaps
          /\ UNCHANGED <<file, lock>>
      BY <1>10 DEF Create, Goto
    <2> QED BY <1>0, <2>1 DEF Sorts
  <1>11. ASSUME NEW r \in Requests, Seed(r) PROVE Filed'
    <2>1. /\ pc[r] = "seed"
          /\ IF file = NoFile THEN file' = Blank /\ pc' = [pc EXCEPT ![r] = "write"]
             ELSE file' = file /\ pc' = [pc EXCEPT ![r] = "keep_after"]
          /\ UNCHANGED <<known, lock, loop, mishaps>>
      BY <1>11 DEF Seed, Goto, histories
    <2> QED BY <1>0, <2>1 DEF Sorts, Holding
  <1>12. ASSUME NEW r \in Requests, Record(r) PROVE Filed'
    BY <1>12 DEF Record, histories
  <1>13. ASSUME NEW r \in Requests, Respond(r) \/ Fail(r) PROVE Filed'
    <2>1. /\ pc[r] \notin {"new", "waiting"} /\ End(r) /\ UNCHANGED <<known, file>>
          /\ mishaps \subseteq mishaps'
          /\ pc[r] = "seed" /\ file = NoFile => "orphaned" \in mishaps'
      BY <1>13 DEF Respond, Fail, MishapsOf, histories
    <2> QED BY <1>0, <2>1 DEF Sorts, End, Goto
  <1>14. CASE Crash
    <2>1. /\ \A r \in Requests : pc'[r] \in {"new", "ended"}
          /\ lock' = Nobody /\ loop' = Nobody /\ UNCHANGED <<known, file>>
          /\ mishaps \subseteq mishaps'
      BY <1>14 DEF Crash
    <2>2. \A r \in Requests : pc[r] = "seed" /\ file = NoFile => "orphaned" \in mishaps'
      BY <1>14 DEF Crash, MishapsOf
    <2> QED BY <2>1, <2>2
  <1>15. CASE UNCHANGED vars BY <1>15 DEF vars, histories
  <1> QED
    BY <1>1, <1>2, <1>3, <1>5, <1>6, <1>7, <1>8, <1>9, <1>10, <1>11, <1>12, <1>13, <1>14, <1>15
       DEF Next, Step

(* What was asked about is what will be replaced.                          *)
LEMMA CheckedStep ==
  ASSUME Types, Holding, Filed, Checked, [Next]_vars
  PROVE  Checked'
  <1> USE MappingsAssumption DEF Checked, Unchanged, Permitted
  <1>0. Sorts BY TypesAre
  <1>a. Reads(NoFile) = Empty /\ Reads(Blank) = Empty BY DEF Reads
  <1>1. ASSUME NEW r \in Requests, SaveRequest(r) \/ CreateRequest(r) PROVE Checked'
    <2>1. /\ pc[r] = "new" /\ UNCHANGED <<file, kept, granted, before, mishaps>>
          /\ \A q \in Requests : q # r => wanted'[q] = wanted[q]
          /\ \E place \in {"waiting", "ask"} : pc' = [pc EXCEPT ![r] = place]
      BY <1>0, <1>1 DEF SaveRequest, CreateRequest, Goto, histories, Sorts
    <2> QED BY <1>0, <2>1 DEF Sorts
  <1>2. ASSUME NEW r \in Requests, Lock(r) PROVE Checked'
    <2>1. /\ pc[r] = "waiting" /\ pc' = [pc EXCEPT ![r] = "compare"]
          /\ UNCHANGED <<file, kept, wanted, granted, before, mishaps>>
      BY <1>2 DEF Lock, Goto, request, histories
    <2> QED BY <1>0, <2>1 DEF Sorts
  <1>3. ASSUME NEW r \in Requests, Denies(r), UNCHANGED <<known, file, kept, histories>>
        PROVE  Checked'
    <2>1. /\ pc' = [pc EXCEPT ![r] = "ended"]
          /\ UNCHANGED <<file, kept, wanted, granted, before, mishaps>>
      BY <1>3 DEF Denies, End, Goto, request, histories
    <2> QED BY <1>0, <2>1 DEF Sorts
  <1>4. ASSUME NEW r \in Requests, CompareAndAsk(r) PROVE Checked'
    <2>1. CASE Permits(r, file, "keep_before")
      <3>1. /\ pc' = [pc EXCEPT ![r] = "keep_before"] /\ before' = [before EXCEPT ![r] = file]
            /\ UNCHANGED <<file, kept, wanted, mishaps>>
            /\ \A q \in Requests : q # r => granted'[q] = granted[q]
            /\ \A p \in SaveChanges(Reads(file), wanted[r]) :
                 Terms(Reads(file), wanted[r], p) \subseteq granted'[r]
        BY <1>4, <2>1 DEF CompareAndAsk, Permits, Goto, histories
      <3>2. Unchanged(r)' /\ pc'[r] = "keep_before" BY <1>0, <3>1 DEF Sorts
      <3>3. ASSUME NEW q \in Requests, q # r
            PROVE  /\ Unchanged(q) => Unchanged(q)'
                   /\ Permitted(q, Empty) => Permitted(q, Empty)'
                   /\ pc'[q] = pc[q]
        BY <1>0, <3>1, <3>3 DEF Sorts
      <3> QED BY <3>1, <3>2, <3>3
    <2> QED BY <1>3, <1>4, <2>1, Governed DEF CompareAndAsk
  <1>5. ASSUME NEW r \in Requests, CreateAsk(r) PROVE Checked'
    <2>1. CASE Permits(r, NoFile, "create")
      <3>1. /\ pc' = [pc EXCEPT ![r] = "create"] /\ before' = [before EXCEPT ![r] = NoFile]
            /\ UNCHANGED <<file, kept, wanted, mishaps>>
            /\ \A q \in Requests : q # r => granted'[q] = granted[q]
            /\ \A p \in SaveChanges(Empty, wanted[r]) :
                 Terms(Empty, wanted[r], p) \subseteq granted'[r]
        BY <1>a, <1>5, <2>1 DEF CreateAsk, Permits, Goto, histories
      <3>2. Unchanged(r)' /\ Permitted(r, Empty)' BY <1>0, <3>1 DEF Sorts
      <3>3. ASSUME NEW q \in Requests, q # r
            PROVE  /\ Unchanged(q) => Unchanged(q)'
                   /\ Permitted(q, Empty) => Permitted(q, Empty)'
                   /\ pc'[q] = pc[q]
        BY <1>0, <3>1, <3>3 DEF Sorts
      <3> QED BY <3>1, <3>2, <3>3
    <2> QED BY <1>3, <1>5, <2>1, Governed DEF CreateAsk
  <1>6. ASSUME NEW r \in Requests, KeepBefore(r) PROVE Checked'
    <2>1. /\ pc[r] = "keep_before" /\ pc' = [pc EXCEPT ![r] = "open"]
          /\ UNCHANGED <<file, wanted, granted, mishaps>>
          /\ \A q \in Requests : q # r => before'[q] = before[q]
          /\ kept \subseteq kept'
          /\ before[r] \notin {NoFile, Blank} => before[r] \in kept'
      BY <1>0, <1>6 DEF KeepBefore, Goto, histories, Sorts
    <2>2. "orphaned" \notin mishaps /\ file \in Mappings => file \in kept' BY <2>1
    <2> QED BY <1>0, <2>1, <2>2 DEF Sorts
  <1>7. ASSUME NEW r \in Requests, Open(r) PROVE Checked'
    <2>1. /\ pc[r] = "open" /\ pc' = [pc EXCEPT ![r] = "write"] /\ file' = Blank
          /\ UNCHANGED <<kept, wanted, granted, before, mishaps>>
      BY <1>7 DEF Open, Goto, request, histories
    <2>2. \A q \in Requests : q # r => pc[q] \notin {"keep_before", "open"}
      BY <2>1 DEF Holding
    <2> QED BY <1>0, <2>1, <2>2 DEF Sorts
  <1>8. ASSUME NEW r \in Requests, Write(r) PROVE Checked'
    <2>1. /\ pc[r] = "write" /\ pc' = [pc EXCEPT ![r] = "keep_after"]
          /\ UNCHANGED <<kept, wanted, granted, before, mishaps>>
      BY <1>8 DEF Write, Goto, request, histories
    <2>2. \A q \in Requests :
            "orphaned" \notin mishaps /\ q # r => pc[q] \notin {"keep_before", "open", "write"}
      BY <2>1 DEF Holding, Filed, Saving
    <2> QED BY <1>0, <2>1, <2>2 DEF Sorts
  <1>9. ASSUME NEW r \in Requests, KeepAfter(r) \/ Record(r) PROVE Checked'
    <2>1. /\ pc[r] \in {"keep_after", "record"} /\ pc' = [pc EXCEPT ![r] = "record"]
          /\ kept \subseteq kept'
          /\ UNCHANGED <<file, wanted, granted, before, mishaps>>
      BY <1>0, <1>9 DEF KeepAfter, Record, Goto, histories, Sorts
    <2> QED BY <1>0, <2>1 DEF Sorts
  <1>10. ASSUME NEW r \in Requests, Create(r) PROVE Checked'
    <2>1. /\ pc[r] = "create" /\ pc' = [pc EXCEPT ![r] = "seed"] /\ mishaps \subseteq mishaps'
          /\ UNCHANGED <<file, kept, wanted, granted, before>>
      BY <1>10 DEF Create, Goto, request
    <2> QED BY <1>0, <2>1 DEF Sorts
  <1>11. ASSUME NEW r \in Requests, Seed(r) PROVE Checked'
    <2>1. /\ pc[r] = "seed"
          /\ IF file = NoFile THEN file' = Blank /\ pc' = [pc EXCEPT ![r] = "write"]
             ELSE file' = file /\ pc' = [pc EXCEPT ![r] = "keep_after"]
          /\ UNCHANGED <<kept, wanted, granted, before, mishaps>>
      BY <1>11 DEF Seed, Goto, request, histories
    <2>2. \A q \in Requests :
            "orphaned" \notin mishaps /\ q # r /\ file = NoFile =>
              pc[q] \notin {"keep_before", "open", "write"}
      BY <2>1 DEF Holding, Filed, Saving
    <2>3. CASE file = NoFile
      <3>1. file' = Blank /\ pc' = [pc EXCEPT ![r] = "write"] BY <2>1, <2>3
      <3> QED BY <1>0, <2>1, <2>2, <2>3, <3>1 DEF Sorts
    <2>4. CASE file # NoFile
      <3>1. file' = file /\ pc' = [pc EXCEPT ![r] = "keep_after"] BY <2>1, <2>4
      <3> QED BY <1>0, <2>1, <3>1 DEF Sorts
    <2> QED BY <2>3, <2>4
  <1>12. ASSUME NEW r \in Requests, Respond(r) \/ Fail(r) PROVE Checked'
    <2>1. /\ pc' = [pc EXCEPT ![r] = "ended"] /\ mishaps \subseteq mishaps'
          /\ UNCHANGED <<file, kept, wanted, granted, before>>
      BY <1>12 DEF Respond, Fail, End, Goto, request, histories
    <2> QED BY <1>0, <2>1 DEF Sorts
  <1>13. CASE Crash
    <2>1. \A r \in Requests : pc'[r] \in {"new", "ended"} BY <1>13 DEF Crash
    <2> QED BY <2>1
  <1>14. CASE UNCHANGED vars BY <1>14 DEF vars, request, histories
  <1> QED
    BY <1>1, <1>2, <1>4, <1>5, <1>6, <1>7, <1>8, <1>9, <1>10, <1>11, <1>12, <1>13, <1>14
       DEF Next, Step

(* Versions are only ever kept, and before they are named.                 *)
LEMMA VersionsStep ==
  ASSUME Types, Versions, [Next]_vars
  PROVE  Versions'
  <1> USE DEF Versions
  <1>0. Sorts BY TypesAre
  <1>1. ASSUME NEW r \in Requests, SaveRequest(r) \/ CreateRequest(r) PROVE Versions'
    <2>1. /\ UNCHANGED <<kept, items, before, after>>
          /\ \E place \in {"waiting", "ask"} : pc' = [pc EXCEPT ![r] = place]
      BY <1>1 DEF SaveRequest, CreateRequest, Goto
    <2> QED BY <1>0, <2>1 DEF Sorts
  <1>2. ASSUME NEW r \in Requests, Lock(r) PROVE Versions'
    <2>1. pc' = [pc EXCEPT ![r] = "compare"] /\ UNCHANGED <<kept, items, before, after>>
      BY <1>2 DEF Lock, Goto, request
    <2> QED BY <1>0, <2>1 DEF Sorts
  <1>3. ASSUME NEW r \in Requests, Denies(r), kept' = kept PROVE Versions'
    <2>1. pc' = [pc EXCEPT ![r] = "ended"] /\ UNCHANGED <<kept, items, before, after>>
      BY <1>3 DEF Denies, End, Goto, request
    <2> QED BY <1>0, <2>1 DEF Sorts
  <1>4. ASSUME NEW r \in Requests, CompareAndAsk(r) \/ CreateAsk(r) PROVE Versions'
    <2>1. Denies(r) \/ Permits(r, file, "keep_before") \/ Permits(r, NoFile, "create")
      BY <1>4, Governed DEF CompareAndAsk, CreateAsk
    <2>2. CASE Permits(r, file, "keep_before")
      BY <1>0, <1>4, <2>2 DEF Permits, Goto, CompareAndAsk, CreateAsk, Sorts
    <2>3. CASE Permits(r, NoFile, "create")
      BY <1>0, <1>4, <2>3 DEF Permits, Goto, CompareAndAsk, CreateAsk, Sorts
    <2> QED BY <1>3, <1>4, <2>1, <2>2, <2>3 DEF CompareAndAsk, CreateAsk
  <1>5. ASSUME NEW r \in Requests, KeepBefore(r) PROVE Versions'
    <2>1. /\ pc' = [pc EXCEPT ![r] = "open"] /\ kept \subseteq kept' /\ UNCHANGED <<items, after>>
          /\ \A q \in Requests : q # r => before'[q] = before[q]
          /\ before'[r] \in kept' \cup {NoFile}
      BY <1>0, <1>5 DEF KeepBefore, Goto, Sorts
    <2> QED BY <1>0, <2>1 DEF Sorts
  <1>6. ASSUME NEW r \in Requests, Open(r) \/ Write(r) \/ Seed(r) PROVE Versions'
    <2>1. /\ pc[r] \in {"open", "write", "seed"}
          /\ UNCHANGED <<kept, items, before, after>>
          /\ \E place \in {"write", "keep_after"} : pc' = [pc EXCEPT ![r] = place]
      BY <1>6 DEF Open, Write, Seed, Goto, request
    <2> QED BY <1>0, <2>1 DEF Sorts
  <1>7. ASSUME NEW r \in Requests, KeepAfter(r) PROVE Versions'
    <2>1. /\ pc[r] = "keep_after" /\ pc' = [pc EXCEPT ![r] = "record"]
          /\ kept \subseteq kept' /\ UNCHANGED <<items, before>>
          /\ \A q \in Requests : q # r => after'[q] = after[q]
          /\ items[r] # <<>> => after'[r] \in kept'
      BY <1>0, <1>7 DEF KeepAfter, Goto, Sorts
    <2> QED BY <1>0, <2>1 DEF Sorts
  <1>8. ASSUME NEW r \in Requests, Record(r) PROVE Versions'
    BY <1>0, <1>8 DEF Record, Sorts
  <1>9. ASSUME NEW r \in Requests, Create(r) PROVE Versions'
    <2>1. /\ pc[r] = "create" /\ pc' = [pc EXCEPT ![r] = "seed"]
          /\ UNCHANGED <<kept, items, before, after>>
      BY <1>9 DEF Create, Goto, request
    <2> QED BY <1>0, <2>1 DEF Sorts
  <1>10. ASSUME NEW r \in Requests, Respond(r) \/ Fail(r) PROVE Versions'
    <2>1. pc' = [pc EXCEPT ![r] = "ended"] /\ UNCHANGED <<kept, items, before, after>>
      BY <1>10 DEF Respond, Fail, End, Goto, request
    <2> QED BY <1>0, <2>1 DEF Sorts
  <1>11. CASE Crash
    <2>1. \A r \in Requests : pc'[r] \in {"new", "ended"} BY <1>11 DEF Crash
    <2> QED BY <2>1
  <1>12. CASE UNCHANGED vars BY <1>12 DEF vars, request
  <1> QED
    BY <1>1, <1>2, <1>4, <1>5, <1>6, <1>7, <1>8, <1>9, <1>10, <1>11, <1>12 DEF Next, Step

LEMMA EntriesStep ==
  ASSUME Types, Versions, EntriesPointAtKept, [Next]_vars
  PROVE  EntriesPointAtKept'
  <1> USE DEF EntriesPointAtKept
  <1>0. Sorts BY TypesAre
  <1>1. ASSUME entries' = entries, kept \subseteq kept' PROVE EntriesPointAtKept' BY <1>1
  <1>2. ASSUME NEW r \in Requests, Record(r) PROVE EntriesPointAtKept'
    <2> DEFINE e == Entry(Head(items[r]), "permitted", before[r], after[r])
    <2>1. entries' = Append(entries, e) /\ kept' = kept BY <1>2 DEF Record
    <2>2. e.after \in kept /\ e.before \in kept \cup {NoFile}
      BY <1>2 DEF Record, Versions, Entry
    <2> HIDE DEF e
    <2>3. /\ DOMAIN entries' = 1..(Len(entries) + 1) /\ Len(entries) \in Nat
          /\ \A i \in 1..Len(entries) : entries'[i] = entries[i] /\ i \in DOMAIN entries
          /\ entries'[Len(entries) + 1] = e
      BY <1>0, <2>1 DEF Sorts
    <2>4. \A i \in DOMAIN entries' : i \in 1..Len(entries) \/ i = Len(entries) + 1 BY <2>3
    <2> QED BY <2>1, <2>2, <2>3, <2>4
  <1>3. ASSUME NEW r \in Requests, CompareAndAsk(r) \/ CreateAsk(r) PROVE EntriesPointAtKept'
    <2>1. Denies(r) \/ Permits(r, file, "keep_before") \/ Permits(r, NoFile, "create")
      BY <1>3, Governed DEF CompareAndAsk, CreateAsk
    <2>2. CASE Denies(r)
      <3>1. PICK denied \in Seq(EntryRecords) :
              /\ entries' = entries \o denied
              /\ \A i \in DOMAIN denied : denied[i].outcome = "denied"
        BY <2>2 DEF Denies
      <3> DEFINE n == Len(entries)
      <3>2. /\ n \in Nat /\ DOMAIN entries = 1..n /\ DOMAIN denied = 1..Len(denied)
            /\ Len(denied) \in Nat /\ DOMAIN entries' = 1..(n + Len(denied))
            /\ \A i \in 1..n : entries'[i] = entries[i]
            /\ \A i \in 1..Len(denied) : entries'[n + i] = denied[i]
        BY <1>0, <3>1 DEF Sorts
      <3>3. ASSUME NEW i \in DOMAIN entries', entries'[i].outcome = "permitted"
            PROVE  i \in DOMAIN entries /\ entries'[i] = entries[i]
        <4>1. i \in 1..n \/ i - n \in 1..Len(denied) BY <3>2
        <4>2. i - n \in 1..Len(denied) => entries'[i] = denied[i - n]
          <5>1. n + (i - n) = i BY <3>2
          <5> QED BY <3>2, <5>1
        <4> QED BY <3>1, <3>2, <3>3, <4>1, <4>2
      <3>4. kept' = kept BY <1>3 DEF CompareAndAsk, CreateAsk
      <3> QED BY <3>3, <3>4
    <2>3. CASE ~Denies(r)
      BY <1>1, <1>3, <2>1, <2>3 DEF Permits, CompareAndAsk, CreateAsk
    <2> QED BY <2>2, <2>3
  <1>4. ASSUME NEW r \in Requests,
               \/ SaveRequest(r) \/ CreateRequest(r) \/ Lock(r) \/ KeepBefore(r) \/ Open(r)
               \/ Write(r) \/ Seed(r) \/ KeepAfter(r) \/ Create(r) \/ Respond(r) \/ Fail(r)
        PROVE  EntriesPointAtKept'
    <2>1. entries' = entries /\ kept \subseteq kept'
      BY <1>4 DEF SaveRequest, CreateRequest, Lock, KeepBefore, Open, Write, Seed, KeepAfter,
                  Create, Respond, Fail
    <2> QED BY <1>1, <2>1
  <1>5. CASE Crash \/ UNCHANGED vars BY <1>1, <1>5 DEF Crash, vars
  <1> QED BY <1>2, <1>3, <1>4, <1>5 DEF Next, Step

LEMMA InvInit == Init => Inv
  <1> SUFFICES ASSUME Init PROVE Inv OBVIOUS
  <1> USE MappingsAssumption DEF Init
  <1>1. Types
    <2>1. <<>> \in Seq(Parts) /\ <<>> \in Seq(EntryRecords) OBVIOUS
    <2>2. items \in [Requests -> Seq(Parts)] /\ entries \in Seq(EntryRecords) BY <2>1
    <2>3. Sorts BY <2>2 DEF Sorts, Phases, Texts
    <2>4. \A r \in Requests : ~Busy(r) /\ lock # r /\ loop # r BY DEF Busy
    <2> QED BY <2>3, <2>4, TypesAre
  <1>2. Holding BY DEF Holding, Busy
  <1>3. Filed BY DEF Filed, Saving
  <1>4. Checked /\ Versions BY DEF Checked, Unchanged, Versions
  <1>5. EntriesPointAtKept BY DEF EntriesPointAtKept
  <1> QED BY <1>1, <1>2, <1>3, <1>4, <1>5 DEF Inv

LEMMA InvStep == Inv /\ [Next]_vars => Inv'
  BY HoldingStep, TypesStep, FiledStep, CheckedStep, VersionsStep, EntriesStep DEF Inv

(***************************************************************************)
(* The steps: what the history accounts for                                *)
(***************************************************************************)

(* With a creation alone in its project, one request at a time is at work. *)
LEMMA OneBusy ==
  ASSUME Types, Holding, Alone, NEW r \in Requests, NEW q \in Requests, Busy(r), Busy(q)
  PROVE  r = q
  BY MappingsAssumption DEF Holding, Alone, Saving, Busy

LEMMA CleanBefore == [Next]_vars => mishaps \subseteq mishaps'
  BY DEF Next, Step, vars, histories, SaveRequest, CreateRequest, Lock, CompareAndAsk, KeepBefore,
         Open, Write, Seed, KeepAfter, Create, CreateAsk, Record, Respond, Fail, Crash

(* Nobody is at work in a project the catalog does not have.               *)
LEMMA KnownWhenBusy ==
  ASSUME Types, Alone, NEW r \in Requests, Busy(r) \/ pc[r] = "waiting"
  PROVE  known
  BY DEF Alone, Busy

LEMMA AloneStep ==
  ASSUME Inv, Alone, [Next]_vars, Clean'
  PROVE  Alone'
  <1> USE MappingsAssumption DEF Inv
  <1>0. Sorts BY TypesAre
  <1>1. ASSUME NEW r \in Requests, SaveRequest(r) PROVE Alone'
    BY <1>0, <1>1 DEF SaveRequest, Goto, histories, Alone, Saving, Sorts
  <1>2. ASSUME NEW r \in Requests, CreateRequest(r) PROVE Alone'
    <2>1. /\ pc[r] = "new" /\ pc' = [pc EXCEPT ![r] = "ask"]
          /\ UNCHANGED <<known, file, lock, loop, first>>
      BY <1>2 DEF CreateRequest, Goto, histories
    <2> QED BY <1>0, <2>1 DEF Alone, Saving, Sorts
  <1>3. ASSUME NEW r \in Requests, Lock(r) PROVE Alone'
    BY <1>0, <1>3 DEF Lock, Goto, histories, Alone, Saving, Sorts
  <1>4. ASSUME NEW r \in Requests, CompareAndAsk(r) PROVE Alone'
    <2>1. Denies(r) \/ Permits(r, file, "keep_before") BY <1>4, Governed DEF CompareAndAsk
    <2>2. /\ pc[r] = "compare" /\ UNCHANGED <<known, file, first>>
          /\ lock' \in {lock, Nobody} /\ loop' \in {loop, Nobody}
          /\ \E place \in {"ended", "keep_before"} : pc' = [pc EXCEPT ![r] = place]
      BY <1>4, <2>1 DEF CompareAndAsk, Denies, Permits, End, Goto, histories
    <2> QED BY <1>0, <2>2 DEF Alone, Saving, Sorts
  <1>5. ASSUME NEW r \in Requests, CreateAsk(r) PROVE Alone'
    <2>1. Denies(r) \/ Permits(r, NoFile, "create") BY <1>5, Governed DEF CreateAsk
    <2>2. /\ pc[r] = "ask" /\ UNCHANGED <<known, file, first>>
          /\ lock' \in {lock, Nobody} /\ loop' \in {loop, Nobody}
          /\ \E place \in {"ended", "create"} : pc' = [pc EXCEPT ![r] = place]
      BY <1>5, <2>1 DEF CreateAsk, Denies, Permits, End, Goto, histories
    <2> QED BY <1>0, <2>2 DEF Alone, Saving, Sorts
  <1>6. ASSUME NEW r \in Requests,
               KeepBefore(r) \/ Open(r) \/ Write(r) \/ Seed(r) \/ KeepAfter(r) \/ Record(r)
        PROVE  Alone'
    <2>1. /\ Busy(r) /\ UNCHANGED <<known, lock, loop>>
          /\ \E place \in Phases : place # "waiting" /\ pc' = [pc EXCEPT ![r] = place]
      <3>1. /\ pc[r] \in {"keep_before", "open", "write", "seed", "keep_after", "record"}
            /\ UNCHANGED <<known, lock, loop>>
            /\ \E place \in {"open", "write", "keep_after", "record"} :
                 pc' = [pc EXCEPT ![r] = place] \/ pc' = pc
        BY <1>6 DEF KeepBefore, Open, Write, Seed, KeepAfter, Record, Goto
      <3>2. pc' = pc => pc' = [pc EXCEPT ![r] = pc[r]] BY <1>0 DEF Sorts
      <3> QED BY <1>0, <3>1, <3>2 DEF Busy, Phases
    <2>2. known BY <2>1, KnownWhenBusy
    <2> QED BY <1>0, <2>1, <2>2 DEF Alone, Saving, Sorts
  <1>7. ASSUME NEW r \in Requests, Create(r) PROVE Alone'
    <2>1. /\ loop' = r /\ known' = TRUE /\ lock' = lock /\ pc' = [pc EXCEPT ![r] = "seed"]
          /\ known => "recreated" \in mishaps'
      BY <1>7 DEF Create, Goto
    <2>2. ~known BY <2>1 DEF Clean
    <2>3. \A q \in Requests : pc[q] \in {"new", "ask", "create", "ended"} BY <2>2 DEF Alone
    <2>4. \A q \in Requests : lock # q BY <2>3 DEF Holding, Busy
    <2> QED BY <1>0, <2>1, <2>3, <2>4 DEF Alone, Saving, Sorts
  <1>8. ASSUME NEW r \in Requests, Respond(r) \/ Fail(r) PROVE Alone'
    <2>1. /\ pc' = [pc EXCEPT ![r] = "ended"]
          /\ lock' \in {lock, Nobody} /\ loop' \in {loop, Nobody}
          /\ UNCHANGED <<known, file, first>>
      BY <1>8 DEF Respond, Fail, End, Goto, histories
    <2> QED BY <1>0, <2>1 DEF Alone, Saving, Sorts
  <1>9. CASE Crash
    <2>1. /\ \A r \in Requests : pc'[r] \in {"new", "ended"}
          /\ lock' = Nobody /\ loop' = Nobody /\ UNCHANGED <<known, file, first>>
      BY <1>9 DEF Crash
    <2> QED BY <2>1 DEF Alone, Saving
  <1>10. CASE UNCHANGED vars BY <1>10 DEF vars, histories, Alone, Saving
  <1> QED BY <1>1, <1>2, <1>3, <1>4, <1>5, <1>6, <1>7, <1>8, <1>9, <1>10 DEF Next, Step

LEMMA CoveringStep ==
  ASSUME Inv, Alone, Covering, [Next]_vars
  PROVE  Covering'
  <1> USE MappingsAssumption DEF Inv, Covering, Covers
  <1>0. Sorts BY TypesAre
  <1>a. Reads(NoFile) = Empty BY DEF Reads
  <1>b. ASSUME NEW r \in Requests, NEW q \in Requests, Busy(r), q # r PROVE ~Busy(q)
    BY <1>b, OneBusy
  <1> USE DEF Busy
  <1>1. ASSUME NEW r \in Requests, SaveRequest(r) \/ CreateRequest(r) PROVE Covering'
    <2>1. /\ UNCHANGED <<file, items, after, lock>>
          /\ \A q \in Requests : q # r => wanted'[q] = wanted[q]
          /\ \E place \in {"waiting", "ask"} : pc' = [pc EXCEPT ![r] = place]
      BY <1>0, <1>1 DEF SaveRequest, CreateRequest, Goto, Sorts
    <2> QED BY <1>0, <2>1 DEF Sorts, Reads
  <1>2. ASSUME NEW r \in Requests, Lock(r) PROVE Covering'
    <2>1. /\ pc' = [pc EXCEPT ![r] = "compare"] /\ lock = Nobody /\ lock' = r
          /\ UNCHANGED <<file, items, after, wanted>>
      BY <1>2 DEF Lock, Goto, request
    <2> QED BY <1>0, <2>1 DEF Sorts, Reads
  <1>3. ASSUME NEW r \in Requests, Denies(r), file' = file PROVE Covering'
    <2>1. /\ pc' = [pc EXCEPT ![r] = "ended"] /\ lock' \in {lock, Nobody}
          /\ UNCHANGED <<file, items, after, wanted>>
      BY <1>3 DEF Denies, End, Goto, request
    <2> QED BY <1>0, <2>1 DEF Sorts, Reads
  <1>4. ASSUME NEW r \in Requests, CompareAndAsk(r) PROVE Covering'
    <2>1. CASE Permits(r, file, "keep_before")
      <3>1. /\ pc' = [pc EXCEPT ![r] = "keep_before"]
            /\ UNCHANGED <<file, after, wanted, lock>>
            /\ \A q \in Requests : q # r => items'[q] = items[q]
            /\ SaveChanges(Reads(file), wanted[r]) \subseteq ToSet(items'[r])
        BY <1>4, <2>1 DEF CompareAndAsk, Permits, Goto
      <3> QED BY <1>0, <3>1 DEF Sorts, Reads
    <2> QED BY <1>3, <1>4, <2>1, Governed DEF CompareAndAsk
  <1>5. ASSUME NEW r \in Requests, CreateAsk(r) PROVE Covering'
    <2>1. CASE Permits(r, NoFile, "create")
      <3>1. /\ pc' = [pc EXCEPT ![r] = "create"]
            /\ UNCHANGED <<file, after, wanted, lock>>
            /\ \A q \in Requests : q # r => items'[q] = items[q]
            /\ SaveChanges(Empty, wanted[r]) \subseteq ToSet(items'[r])
        BY <1>a, <1>5, <2>1 DEF CreateAsk, Permits, Goto
      <3> QED BY <1>0, <3>1 DEF Sorts, Reads
    <2> QED BY <1>3, <1>5, <2>1, Governed DEF CreateAsk
  <1>6. ASSUME NEW r \in Requests, KeepBefore(r) \/ Create(r) PROVE Covering'
    <2>1. /\ UNCHANGED <<file, items, after, wanted, lock>>
          /\ \/ pc[r] = "keep_before" /\ pc' = [pc EXCEPT ![r] = "open"]
             \/ pc[r] = "create" /\ pc' = [pc EXCEPT ![r] = "seed"]
      BY <1>6 DEF KeepBefore, Create, Goto, request
    <2> QED BY <1>0, <2>1 DEF Sorts, Reads
  <1>7. ASSUME NEW r \in Requests, Open(r) \/ Seed(r) PROVE Covering'
    <2>1. /\ pc[r] \in {"open", "seed"} /\ UNCHANGED <<items, after, wanted, lock>>
          /\ \/ file' = Blank /\ pc' = [pc EXCEPT ![r] = "write"]
             \/ pc[r] = "seed" /\ file' = file /\ pc' = [pc EXCEPT ![r] = "keep_after"]
      BY <1>7 DEF Open, Seed, Goto, request
    <2>2. \A q \in Requests : q # r => ~Busy(q) BY <1>b, <2>1
    <2>3. pc[r] = "seed" => lock # r BY DEF Holding
    <2>4. pc'[r] = "write" => file' = Blank BY <1>0, <2>1 DEF Sorts
    <2>5. pc'[r] = "keep_after" => lock' # r BY <1>0, <2>1, <2>3 DEF Sorts
    <2>6. pc'[r] \in {"write", "keep_after"} BY <1>0, <2>1 DEF Sorts
    <2>7. ASSUME NEW q \in Requests, q # r
          PROVE  pc'[q] = pc[q] /\ pc[q] \notin {"keep_before", "open", "seed", "write", "keep_after", "record"}
      BY <1>0, <2>1, <2>2, <2>7 DEF Sorts
    <2>8. \A q \in Requests : pc'[q] = "create" => q # r /\ pc[q] = "create" BY <2>6, <2>7
    <2> QED BY <2>1, <2>4, <2>5, <2>6, <2>7, <2>8
  <1>8. ASSUME NEW r \in Requests, Write(r) PROVE Covering'
    <2>1. /\ pc[r] = "write" /\ UNCHANGED <<items, after, wanted, lock>>
          /\ file' = wanted[r] /\ pc' = [pc EXCEPT ![r] = "keep_after"]
      BY <1>8 DEF Write, Goto, request
    <2>2. \A q \in Requests : q # r => ~Busy(q) BY <1>b, <2>1
    <2> QED BY <1>0, <2>1, <2>2 DEF Sorts
  <1>9. ASSUME NEW r \in Requests, KeepAfter(r) PROVE Covering'
    <2>1. /\ pc[r] = "keep_after" /\ UNCHANGED <<file, items, wanted, lock>>
          /\ pc' = [pc EXCEPT ![r] = "record"]
          /\ \A q \in Requests : q # r => after'[q] = after[q]
          /\ items[r] # <<>> => after'[r] = IF loop = r THEN file ELSE wanted[r]
      BY <1>0, <1>9 DEF KeepAfter, Goto, Sorts
    <2>2. loop = r \/ file = wanted[r] BY <2>1 DEF Holding
    <2>3. pc'[r] = "record" /\ (items[r] # <<>> => after'[r] = file) BY <1>0, <2>1, <2>2 DEF Sorts
    <2>4. ASSUME NEW q \in Requests, q # r PROVE pc'[q] = pc[q] /\ after'[q] = after[q]
      BY <1>0, <2>1, <2>4 DEF Sorts
    <2>5. \A q \in Requests : Reads(after'[q]) = Reads(file) \/ q # r \/ items[q] = <<>> BY <2>3
    <2> QED BY <2>1, <2>3, <2>4, <2>5 DEF Reads
  <1>10. ASSUME NEW r \in Requests, Record(r) PROVE Covering'
    <2>1. /\ pc[r] = "record" /\ items[r] # <<>> /\ UNCHANGED <<file, pc, wanted, after, lock>>
          /\ \A q \in Requests : q # r => items'[q] = items[q]
      BY <1>0, <1>10 DEF Record, Sorts
    <2> QED BY <1>0, <2>1 DEF Sorts, Reads
  <1>11. ASSUME NEW r \in Requests, Respond(r) \/ Fail(r) PROVE Covering'
    <2>1. /\ pc' = [pc EXCEPT ![r] = "ended"] /\ lock' \in {lock, Nobody}
          /\ UNCHANGED <<file, items, after, wanted>>
      BY <1>11 DEF Respond, Fail, End, Goto, request
    <2> QED BY <1>0, <2>1 DEF Sorts, Reads
  <1>12. CASE Crash
    <2>1. \A r \in Requests : pc'[r] \in {"new", "ended"} BY <1>12 DEF Crash
    <2> QED BY <2>1
  <1>13. CASE UNCHANGED vars BY <1>13 DEF vars, request, Reads
  <1> QED
    BY <1>1, <1>2, <1>4, <1>5, <1>6, <1>7, <1>8, <1>9, <1>10, <1>11, <1>12, <1>13 DEF Next, Step

(* What the history says changes with an entry only.                       *)
LEMMA SameRecorded ==
  ASSUME entries' = entries, first' = first, NEW p
  PROVE  About(p)' = About(p) /\ Recorded(p)' = Recorded(p)
  BY DEF About, Recorded, Reads

(* Steps that change neither the file nor what there is left to record.    *)
LEMMA AccountedSame ==
  ASSUME Types, Accounted,
         known' = known, file' = file, wanted' = wanted,
         \A p \in Parts : About(p)' = About(p) /\ Recorded(p)' = Recorded(p),
         \A q \in Requests : Writing(q)' => Writing(q) /\ pc'[q] = pc[q] /\ items'[q] = items[q],
         (\A q \in Requests : ~Writing(q)') => \A q \in Requests : ~Writing(q)
  PROVE  Accounted'
  <1>1. \A q \in Requests : Writing(q)' => Goal(q)' = Goal(q) BY DEF Goal, Reads
  <1>2. Reads(file)' = Reads(file) BY DEF Reads
  <1> QED BY <1>1, <1>2 DEF Accounted

LEMMA AccountedStep ==
  ASSUME Inv, Alone, Covering, Accounted, [Next]_vars, Clean'
  PROVE  Accounted'
  <1> USE MappingsAssumption DEF Inv
  <1>0. Sorts BY TypesAre
  <1>a. Reads(NoFile) = Empty /\ Reads(Blank) = Empty BY DEF Reads
  <1>b. \A r \in Requests : Busy(r) => known /\ \A q \in Requests : q # r => ~Busy(q)
    BY OneBusy, KnownWhenBusy
  <1>c. \A r \in Requests : Writing(r) <=> pc[r] \in {"write", "keep_after", "record"}
    BY DEF Writing
  <1>d. \A r \in Requests : Writing(r)' <=> pc'[r] \in {"write", "keep_after", "record"}
    BY DEF Writing
  <1>1. ASSUME NEW r \in Requests, SaveRequest(r) \/ CreateRequest(r) \/ Lock(r) \/ KeepBefore(r)
        PROVE  Accounted'
    <2>1. /\ UNCHANGED <<known, file, entries, first, items>>
          /\ pc[r] \in {"new", "waiting", "keep_before"}
          /\ \A q \in Requests : q # r => pc'[q] = pc[q] /\ wanted'[q] = wanted[q]
          /\ pc'[r] \in {"waiting", "ask", "compare", "open"}
      BY <1>0, <1>1 DEF SaveRequest, CreateRequest, Lock, KeepBefore, Goto, request, histories, Sorts
    <2>2. \A q \in Requests : Writing(q)' => Writing(q) /\ Goal(q)' = Goal(q)
      BY <1>c, <1>d, <2>1 DEF Goal, Reads
    <2>3. (\A q \in Requests : ~Writing(q)') => \A q \in Requests : ~Writing(q)
      BY <1>c, <1>d, <2>1
    <2>4. Reads(file)' = Reads(file) BY <2>1 DEF Reads
    <2> QED BY <2>1, <2>2, <2>3, <2>4, SameRecorded DEF Accounted
  <1>2. ASSUME NEW r \in Requests, CompareAndAsk(r) \/ CreateAsk(r) PROVE Accounted'
    <2>1. Denies(r) \/ Permits(r, file, "keep_before") \/ Permits(r, NoFile, "create")
      BY <1>2, Governed DEF CompareAndAsk, CreateAsk
    <2>2. /\ UNCHANGED <<known, file, first, wanted>> /\ pc[r] \in {"compare", "ask"}
      BY <1>2, <2>1 DEF CompareAndAsk, CreateAsk, histories, Denies, Permits, request
    <2>3. /\ pc'[r] \in {"ended", "keep_before", "create"}
          /\ \A q \in Requests : q # r => pc'[q] = pc[q] /\ items'[q] = items[q]
      BY <1>0, <2>1 DEF Denies, Permits, End, Goto, request, Sorts
    <2>4. \A p \in Parts : About(p)' = About(p) /\ Recorded(p)' = Recorded(p)
      <3>1. CASE Denies(r)
        <4>1. PICK denied \in Seq(EntryRecords) :
                /\ entries' = entries \o denied
                /\ \A i \in DOMAIN denied : denied[i].outcome = "denied"
          BY <3>1 DEF Denies
        <4> QED BY <2>2, <4>1, RecordedSame
      <3>2. CASE ~Denies(r)
        <4>1. entries' = entries BY <2>1, <3>2 DEF Permits
        <4> QED BY <2>2, <4>1, SameRecorded
      <3> QED BY <3>1, <3>2
    <2>5. \A q \in Requests : Writing(q)' => Writing(q) /\ pc'[q] = pc[q] /\ items'[q] = items[q]
      BY <1>c, <1>d, <2>2, <2>3
    <2>6. (\A q \in Requests : ~Writing(q)') => \A q \in Requests : ~Writing(q)
      BY <1>c, <1>d, <2>2, <2>3
    <2> QED BY <2>2, <2>4, <2>5, <2>6, AccountedSame
  <1>3. ASSUME NEW r \in Requests, Open(r) \/ Seed(r) PROVE Accounted'
    <2>1. /\ pc[r] \in {"open", "seed"} /\ UNCHANGED <<known, entries, first, items, wanted>>
          /\ \A q \in Requests : q # r => pc'[q] = pc[q]
          /\ \/ file' = Blank /\ pc'[r] = "write" /\ (pc[r] = "open" \/ file = NoFile)
             \/ pc[r] = "seed" /\ file' = file /\ pc'[r] = "keep_after"
      BY <1>0, <1>3 DEF Open, Seed, Goto, request, histories, Sorts
    <2>2. known /\ \A q \in Requests : ~Writing(q)
      BY <1>b, <1>c, <2>1 DEF Busy
    <2>3. \A p \in Parts : Recorded(p) = Reads(file)[p] BY <2>2 DEF Accounted
    <2>4. \A q \in Requests : Writing(q)' <=> q = r BY <1>c, <1>d, <2>1, <2>2
    <2>5. \A p \in Parts : p \in ToSet(items[r]) \/ Recorded(p) = Goal(r)'[p]
      <3>1. CASE pc'[r] = "write"
        <4>1. Goal(r)' = wanted[r] BY <2>1, <3>1 DEF Goal
        <4>2. Covers(r, Reads(file)) BY <1>a, <2>1, <3>1 DEF Covering
        <4> QED BY <2>3, <4>1, <4>2 DEF Covers, SaveChanges
      <3>2. CASE pc'[r] # "write"
        <4>1. Goal(r)' = Reads(file) BY <2>1, <3>2 DEF Goal, Reads
        <4> QED BY <2>3, <4>1
      <3> QED BY <3>1, <3>2
    <2> QED BY <2>1, <2>2, <2>4, <2>5, SameRecorded DEF Accounted
  <1>4. ASSUME NEW r \in Requests, Write(r) \/ KeepAfter(r) PROVE Accounted'
    <2>1. /\ pc[r] \in {"write", "keep_after"} /\ UNCHANGED <<known, entries, first, items, wanted>>
          /\ \A q \in Requests : q # r => pc'[q] = pc[q]
          /\ pc'[r] \in {"keep_after", "record"}
          /\ file' = IF pc[r] = "write" THEN wanted[r] ELSE file
      BY <1>0, <1>4 DEF Write, KeepAfter, Goto, request, histories, Sorts
    <2>2. known /\ \A q \in Requests : Writing(q) <=> q = r
      BY <1>b, <1>c, <2>1 DEF Busy
    <2>3. \A q \in Requests : Writing(q)' <=> q = r BY <1>c, <1>d, <2>1, <2>2
    <2>4. Goal(r)' = Goal(r)
      <3>1. wanted[r] \in Mappings BY <1>0 DEF Sorts
      <3> QED BY <2>1, <3>1 DEF Goal, Reads
    <2> QED BY <2>1, <2>2, <2>3, <2>4, SameRecorded DEF Accounted
  <1>5. ASSUME NEW r \in Requests, Record(r) PROVE Accounted'
    <2> DEFINE e == Entry(Head(items[r]), "permitted", before[r], after[r])
    <2>1. /\ pc[r] = "record" /\ items[r] # <<>> /\ UNCHANGED <<known, file, first, pc, wanted>>
          /\ entries' = Append(entries, e)
          /\ items'[r] = Tail(items[r]) /\ \A q \in Requests : q # r => items'[q] = items[q]
      BY <1>0, <1>5 DEF Record, histories, Sorts
    <2>2. /\ Head(items[r]) \in Parts
          /\ ToSet(items[r]) = {Head(items[r])} \cup ToSet(items'[r])
      BY <1>0, <2>1, HeadAndTail DEF Sorts
    <2>3. /\ e \in EntryRecords /\ e.outcome = "permitted"
          /\ e.part = Head(items[r]) /\ e.after = after[r]
      BY <1>0, <2>2 DEF Entry, EntryRecords, Sorts
    <2> HIDE DEF e
    <2>4. \A p \in Parts :
            Recorded(p)' = IF p = Head(items[r]) THEN Reads(after[r])[p] ELSE Recorded(p)
      BY <2>1, <2>3, RecordedNext
    <2>5. Reads(after[r]) = Reads(file) /\ Goal(r) = Reads(file) /\ Goal(r)' = Reads(file)
      BY <2>1 DEF Covering, Goal, Reads
    <2>6. known /\ \A q \in Requests : Writing(q) <=> q = r
      BY <1>b, <1>c, <2>1 DEF Busy
    <2>7. \A q \in Requests : Writing(q)' <=> q = r BY <1>c, <1>d, <2>1, <2>6
    <2>8. \A p \in Parts : p \in ToSet(items'[r]) \/ Recorded(p)' = Reads(file)[p]
      BY <2>2, <2>4, <2>5, <2>6 DEF Accounted
    <2> QED BY <2>1, <2>5, <2>6, <2>7, <2>8 DEF Accounted
  <1>6. ASSUME NEW r \in Requests, Create(r) PROVE Accounted'
    <2>1. /\ pc[r] = "create" /\ pc'[r] = "seed" /\ \A q \in Requests : q # r => pc'[q] = pc[q]
          /\ known => "recreated" \in mishaps'
          /\ UNCHANGED <<file, entries, first>> /\ known'
      BY <1>0, <1>6 DEF Create, Goto, Sorts
    <2>2. ~known BY <2>1 DEF Clean
    <2>3. file = first /\ \A q \in Requests : ~Writing(q) BY <1>c, <2>2 DEF Alone
    <2>4. \A p \in Parts : Recorded(p) = Reads(file)[p]
      BY <2>2, <2>3 DEF Accounted, Recorded
    <2>5. Reads(file)' = Reads(file) BY <2>1 DEF Reads
    <2> QED BY <1>c, <1>d, <2>1, <2>3, <2>4, <2>5, SameRecorded DEF Accounted
  <1>7. ASSUME NEW r \in Requests, Respond(r) PROVE Accounted'
    <2>1. /\ pc[r] = "record" /\ items[r] = <<>> /\ pc'[r] = "ended"
          /\ \A q \in Requests : q # r => pc'[q] = pc[q]
          /\ UNCHANGED <<known, file, entries, first>>
      BY <1>0, <1>7 DEF Respond, End, Goto, request, histories, Sorts
    <2>2. known /\ \A q \in Requests : Writing(q) <=> q = r
      BY <1>b, <1>c, <2>1 DEF Busy
    <2>3. \A q \in Requests : ~Writing(q)' BY <1>c, <1>d, <2>1, <2>2
    <2>4. ToSet(items[r]) = {} BY <2>1 DEF ToSet
    <2>5. \A p \in Parts : Recorded(p) = Reads(file)[p]
      BY <2>1, <2>2, <2>4 DEF Accounted, Goal
    <2>6. Reads(file)' = Reads(file) BY <2>1 DEF Reads
    <2> QED BY <2>1, <2>2, <2>3, <2>5, <2>6, SameRecorded DEF Accounted
  <1>8. ASSUME NEW r \in Requests, Fail(r) PROVE Accounted'
    <2>1. /\ MishapsOf(r) \subseteq mishaps' /\ pc'[r] = "ended"
          /\ \A q \in Requests : q # r => pc'[q] = pc[q]
          /\ UNCHANGED <<known, file, entries, first, wanted, items>>
      BY <1>0, <1>8 DEF Fail, End, Goto, request, Sorts
    <2>2. ~Writing(r) BY <1>c, <2>1 DEF Clean, MishapsOf
    <2>3. \A q \in Requests : Writing(q)' => Writing(q) /\ pc'[q] = pc[q] /\ items'[q] = items[q]
      BY <1>c, <1>d, <2>1
    <2>4. (\A q \in Requests : ~Writing(q)') => \A q \in Requests : ~Writing(q)
      BY <1>c, <1>d, <2>1, <2>2
    <2> QED BY <2>1, <2>3, <2>4, SameRecorded, AccountedSame
  <1>9. CASE Crash
    <2>1. /\ \A r \in Requests : MishapsOf(r) \subseteq mishaps'
          /\ \A r \in Requests : pc'[r] \in {"new", "ended"}
          /\ UNCHANGED <<known, file, entries, first, wanted, items>>
      BY <1>9 DEF Crash, request
    <2>2. \A r \in Requests : ~Writing(r) BY <1>c, <2>1 DEF Clean, MishapsOf
    <2>3. \A r \in Requests : ~Writing(r)' BY <1>d, <2>1
    <2> QED BY <2>1, <2>2, <2>3, SameRecorded, AccountedSame
  <1>10. CASE UNCHANGED vars
    <2>1. UNCHANGED <<known, file, entries, first, wanted, items, pc>>
      BY <1>10 DEF vars, request, histories
    <2>2. \A q \in Requests : Writing(q)' <=> Writing(q) BY <1>c, <1>d, <2>1
    <2> QED BY <2>1, <2>2, SameRecorded, AccountedSame
  <1> QED BY <1>1, <1>2, <1>3, <1>4, <1>5, <1>6, <1>7, <1>8, <1>9, <1>10 DEF Next, Step

LEMMA HistoryInit == Init => History
  <1> SUFFICES ASSUME Init PROVE Alone /\ Covering /\ Accounted BY DEF History
  <1> USE MappingsAssumption DEF Init
  <1>1. \A p \in Parts : About(p) = {} BY DEF About
  <1> QED BY <1>1 DEF Alone, Saving, Covering, Accounted, Recorded, Writing

LEMMA HistoryStep == Inv /\ History /\ [Next]_vars => History'
  <1> SUFFICES ASSUME Inv, History, [Next]_vars, Clean'
               PROVE  Alone' /\ Covering' /\ Accounted'
    BY DEF History
  <1>1. Clean BY CleanBefore DEF Clean
  <1>2. Alone /\ Covering /\ Accounted BY <1>1 DEF History
  <1> QED BY <1>2, AloneStep, CoveringStep, AccountedStep

(***************************************************************************)
(* Theorems                                                                *)
(***************************************************************************)

(* Inv and History hold in every state of every behaviour.                 *)
THEOREM Invariance == Spec => [](Inv /\ History)
  BY InvInit, HistoryInit, InvStep, HistoryStep, PTL DEF Spec

(* Requests hold the save lock and the event loop as they should, so no    *)
(* two of them write the mapping at once but for a creation that overtakes *)
(* a save (server.py, _governed_save under _save_locks).                   *)
THEOREM TypeCorrect == Spec => []TypeOK
  <1>1. Inv => TypeOK BY DEF Inv, Types
  <1> QED BY <1>1, Invariance, PTL

(* An entry of the history names versions that are kept, whatever fails or *)
(* crashes between writing, keeping and recording (PRD P14.11).            *)
THEOREM ReferencesAreKept == Spec => []EntriesPointAtKept
  <1>1. Inv => EntriesPointAtKept BY DEF Inv
  <1> QED BY <1>1, Invariance, PTL

(* The difference a request makes to the file when it empties it has been  *)
(* permitted, whoever else saved since the request was made: the save lock *)
(* is held from the comparison to the write, and a creation writes only    *)
(* where there is no file (PRD P14.9).                                     *)
THEOREM NothingUnchecked == Spec => SaveIsChecked
  <1> DEFINE CheckedWrite ==
        \A r \in Requests :
          pc[r] # "write" /\ pc'[r] = "write" /\ "orphaned" \notin mishaps =>
            \A p \in SaveChanges(Reads(file), wanted[r]) :
              TermsIn(Reads(file), p) \cup TermsIn(wanted[r], p) \subseteq granted[r]
  <1>1. Inv /\ [Next]_vars => [CheckedWrite]_vars
    <2> SUFFICES ASSUME Inv, Next, NEW r \in Requests,
                        pc[r] # "write", pc'[r] = "write", "orphaned" \notin mishaps
                 PROVE  \A p \in SaveChanges(Reads(file), wanted[r]) :
                          TermsIn(Reads(file), p) \cup TermsIn(wanted[r], p) \subseteq granted[r]
      OBVIOUS
    <2> USE DEF Inv
    <2>0. Sorts BY TypesAre
    <2>1. ASSUME NEW q \in Requests,
                 SaveRequest(q) \/ CreateRequest(q) \/ Step(q) \/ Fail(q), ~Open(q), ~Seed(q)
          PROVE  FALSE
      <3>1. \A place \in Phases : Goto(q, place) => place = "write"
        BY <2>0 DEF Goto, Sorts
      <3>2. ~End(q) BY <3>1 DEF End, Phases
      <3>3. ~CompareAndAsk(q) /\ ~CreateAsk(q)
        BY <3>1, <3>2, Governed DEF CompareAndAsk, CreateAsk, Denies, Permits, Phases
      <3>4. pc' # pc BY <2>0
      <3> QED BY <2>1, <3>1, <3>2, <3>3, <3>4
              DEF Step, SaveRequest, CreateRequest, Lock, KeepBefore, Create, Write, KeepAfter,
                  Record, Respond, Fail, Phases
    <2>2. ASSUME NEW q \in Requests, Open(q) \/ Seed(q) PROVE q = r /\ Permitted(r, Reads(file))
      <3>1. q = r BY <2>0, <2>2 DEF Open, Seed, Goto, Sorts
      <3>2. CASE Open(q) BY <3>1, <3>2 DEF Open, Checked, Unchanged
      <3>3. CASE Seed(q)
        <4>1. file = NoFile BY <2>0, <3>1, <3>3 DEF Seed, Goto, Sorts
        <4> QED BY <3>1, <3>3, <4>1 DEF Seed, Checked, Reads
      <3> QED BY <2>2, <3>1, <3>2, <3>3
    <2>3. ~Crash BY DEF Crash
    <2>4. Permitted(r, Reads(file)) BY <2>1, <2>2, <2>3 DEF Next
    <2> QED BY <2>4 DEF Permitted, Terms
  <1> QED BY <1>1, Invariance, PTL DEF Spec, SaveIsChecked

(* A version of the mapping is kept before it is replaced (PRD P14.11).    *)
THEOREM NothingOverwritten == Spec => ReplacedIsKept
  <1> DEFINE KeptFirst ==
        file' # file /\ file \in Mappings /\ "orphaned" \notin mishaps => file \in kept
  <1>1. Inv /\ [Next]_vars => [KeptFirst]_vars
    <2> SUFFICES ASSUME Inv, Next, file' # file, file \in Mappings, "orphaned" \notin mishaps
                 PROVE  file \in kept
      OBVIOUS
    <2> USE MappingsAssumption DEF Inv
    <2>1. PICK r \in Requests : Open(r) \/ Write(r) \/ Seed(r)
      BY DEF Next, Step, SaveRequest, CreateRequest, Lock, CompareAndAsk, KeepBefore, KeepAfter,
             CreateAsk, Create, Record, Respond, Fail, Crash
    <2>2. ~Write(r) /\ ~Seed(r) BY DEF Write, Seed, Checked, Unchanged
    <2> QED BY <2>1, <2>2 DEF Open, Checked, Unchanged
  <1> QED BY <1>1, Invariance, PTL DEF Spec, ReplacedIsKept

(* When nobody is writing, the file says of every part what the last entry *)
(* about it says, unless a request was cut while it wrote or recorded, or  *)
(* a project was created a second time (PRD P14.11).                       *)
THEOREM HistoryIsComplete == Spec => []HistoryAccounts
  <1>1. Inv /\ History => HistoryAccounts
    <2> SUFFICES ASSUME Inv, History, lock = Nobody, loop = Nobody, Clean, NEW p \in Parts
                 PROVE  Recorded(p) = IF known THEN Reads(file)[p] ELSE Reads(first)[p]
      BY DEF HistoryAccounts, Clean
    <2>1. Alone /\ Accounted BY DEF History
    <2>2. \A r \in Requests : ~Writing(r)
      BY MappingsAssumption DEF Inv, Types, TypeOK, Busy, Writing
    <2>3. CASE known BY <2>1, <2>2, <2>3 DEF Accounted
    <2>4. CASE ~known BY <2>1, <2>4 DEF Accounted, Recorded
    <2> QED BY <2>3, <2>4
  <1> QED BY <1>1, Invariance, PTL

(***************************************************************************)
(* The outbox: for any set of entries, any limit and any number of         *)
(* crashes.  The inductive invariant adds to the properties what the lock  *)
(* protects: the thread in the middle of a delivery holds it, its file is  *)
(* still there, and it has grounds for the status it will write.           *)
(***************************************************************************)

(* A thread between taking the lock and releasing it.                      *)
Held == DeliveryPhases \ {"idle", "waiting"}

HolderOnly == \A t \in Threads : phase[t] \in Held => outboxLock = t /\ Target(t) \in Pending
WorkerHasEntry == phase[Worker] # "idle" => target \in Ids
Grounds ==
  \A t \in Threads :
    /\ phase[t] = "delivered" => Target(t) \in history
    /\ phase[t] = "undeliverable" => Target(t) \in expired \cup Invalid
    /\ phase[t] = "unlink" => done[Target(t)] # "none"

OutboxInv ==
  /\ OutboxTypeOK /\ HolderOnly /\ WorkerHasEntry /\ Grounds
  /\ NeverLost /\ FinishedForAReason

(* Removing a file empties its place and no other (governed.py:285).       *)
LEMMA WithoutPlaces ==
  ASSUME queue \in [Ids -> Nat], NEW id \in Ids
  PROVE  /\ Without(id) \in [Ids -> Nat]
         /\ \A j \in Ids : Without(id)[j] # 0 <=> j # id /\ queue[j] # 0
  <1>1. \A j \in Ids : /\ Without(id)[j] \in Nat
                       /\ Without(id)[j] # 0 <=> j # id /\ queue[j] # 0
    BY DEF Without
  <1> QED BY <1>1 DEF Without

(* Writing a file fills its place and empties no other (governed.py:268).  *)
LEMMA WrittenPlaces ==
  ASSUME queue \in [Ids -> Nat], NEW id \in Ids
  PROVE  /\ Written(id) \in [Ids -> Nat]
         /\ \A j \in Ids : Written(id)[j] # 0 <=> j = id \/ queue[j] # 0
  <1>1. IsFiniteSet(Pending \ {id})
    BY OutboxAssumption, FS_Subset DEF Pending
  <1>2. Cardinality(Pending \ {id}) \in Nat
    BY <1>1, FS_CardinalityType
  <1> DEFINE place == 1 + Cardinality(Pending \ {id})
  <1>3. place \in Nat /\ place # 0 BY <1>2
  <1>4. Written(id) = [Without(id) EXCEPT ![id] = place] BY DEF Written
  <1> HIDE DEF place
  <1> QED BY <1>3, <1>4, WithoutPlaces

LEMMA OutboxInvInit == OutboxInit => OutboxInv
  <1> SUFFICES ASSUME OutboxInit PROVE OutboxInv OBVIOUS
  <1> USE OutboxAssumption DEF OutboxInit
  <1>1. Pending = {} BY DEF Pending
  <1>2. OutboxTypeOK BY <1>1 DEF OutboxTypeOK, Statuses, DeliveryPhases, Threads
  <1>3. \A t \in Threads : phase[t] = "idle" OBVIOUS
  <1>4. HolderOnly /\ WorkerHasEntry /\ Grounds
    BY <1>3 DEF HolderOnly, WorkerHasEntry, Grounds, Held, Threads
  <1> QED BY <1>2, <1>4 DEF OutboxInv, NeverLost, FinishedForAReason

(* The thread of a step, its entry and the lock.                           *)
LEMMA HolderFacts ==
  ASSUME OutboxInv, NEW t \in Threads, phase[t] \in Held
  PROVE  /\ Target(t) \in Ids /\ Target(t) \in Pending /\ Target(t) \in sent
         /\ outboxLock = t
         /\ \A u \in Threads : u # t => phase[u] \notin Held
  <1>1. outboxLock = t /\ Target(t) \in Pending BY DEF OutboxInv, HolderOnly
  <1>2. \A u \in Threads : u # t => phase[u] \notin Held BY <1>1 DEF OutboxInv, HolderOnly
  <1> QED BY <1>1, <1>2 DEF OutboxInv, OutboxTypeOK, Pending

LEMMA OutboxInvSend ==
  ASSUME OutboxInv, NEW id \in Ids, Send(id)
  PROVE  OutboxInv'
  <1> USE OutboxAssumption
  <1>1. queue' \in [Ids -> Nat] /\ \A j \in Ids : queue'[j] # 0 <=> j = id \/ queue[j] # 0
    BY WrittenPlaces DEF Send, OutboxInv, OutboxTypeOK
  <1>2. Pending' = Pending \cup {id} BY <1>1 DEF Pending
  <1>3. id \notin Pending BY DEF Send, OutboxInv, OutboxTypeOK
  <1>4. phase[id] \notin Held
    BY <1>3 DEF OutboxInv, HolderOnly, Target, Threads
  <1>5. \A t \in Threads : phase'[t] \in Held => phase'[t] = phase[t]
    BY DEF Send, OutboxInv, OutboxTypeOK, Held, Threads
  <1>6. OutboxTypeOK'
    BY <1>1, <1>2, <1>4 DEF Send, OutboxInv, OutboxTypeOK, Held, DeliveryPhases, Threads, Statuses
  <1>7. \A t \in Threads : Target(t)' = Target(t) BY DEF Send, Target
  <1>8. HolderOnly'
    BY <1>2, <1>5, <1>7 DEF Send, OutboxInv, HolderOnly
  <1>9. WorkerHasEntry' BY DEF Send, OutboxInv, OutboxTypeOK, WorkerHasEntry, Threads
  <1>10. Grounds'
    BY <1>5, <1>7 DEF Send, OutboxInv, Grounds, Held, DeliveryPhases
  <1>11. NeverLost' /\ FinishedForAReason'
    BY <1>2 DEF Send, OutboxInv, NeverLost, FinishedForAReason
  <1> QED BY <1>6, <1>8, <1>9, <1>10, <1>11 DEF OutboxInv

(* The steps of the worker between deliveries, and the steps outside.      *)
LEMMA OutboxInvOther ==
  ASSUME OutboxInv,
         \/ \E id \in Ids : Expire(id)
         \/ StartRound \/ TakeFromRound \/ ProcessDies \/ Restart
         \/ UNCHANGED outboxVars
  PROVE  OutboxInv'
  <1> USE OutboxAssumption
  <1>1. ASSUME NEW id \in Ids, Expire(id) PROVE OutboxInv'
    <2>1. Pending' = Pending BY <1>1 DEF Expire, files, Pending
    <2>2. \A t \in Threads : Target(t)' = Target(t) BY <1>1 DEF Expire, memory, Target
    <2> QED BY <1>1, <2>1, <2>2 DEF Expire, files, memory, OutboxInv, OutboxTypeOK, HolderOnly,
              WorkerHasEntry, Grounds, NeverLost, FinishedForAReason
  <1>2. CASE StartRound
    <2>1. Pending' = Pending BY <1>2 DEF StartRound, files, Pending
    <2>2. \A t \in Threads : Target(t)' = Target(t) BY <1>2 DEF StartRound, Target
    <2>3. round' \subseteq Ids BY <1>2 DEF StartRound, Oldest, Pending
    <2> QED BY <1>2, <2>1, <2>2, <2>3 DEF StartRound, files, outside, OutboxInv, OutboxTypeOK, HolderOnly,
              WorkerHasEntry, Grounds, NeverLost, FinishedForAReason
  <1>3. CASE TakeFromRound
    <2>1. Pending' = Pending BY <1>3 DEF TakeFromRound, files, Pending
    <2>2. phase[Worker] = "idle" /\ target' \in Ids /\ round' \subseteq Ids
      BY <1>3 DEF TakeFromRound, OutboxInv, OutboxTypeOK
    <2>3. \A t \in Threads : phase'[t] \in Held => phase'[t] = phase[t] /\ t # Worker
      BY <1>3 DEF TakeFromRound, OutboxInv, OutboxTypeOK, Held
    <2>4. \A t \in Threads : t # Worker => Target(t)' = Target(t) BY DEF Target
    <2>5. OutboxTypeOK'
      BY <1>3, <2>1, <2>2 DEF TakeFromRound, files, outside, OutboxInv, OutboxTypeOK, DeliveryPhases, Threads
    <2>6. HolderOnly' BY <1>3, <2>1, <2>3, <2>4 DEF TakeFromRound, OutboxInv, HolderOnly
    <2>7. WorkerHasEntry' BY <2>2 DEF WorkerHasEntry
    <2>8. Grounds'
      BY <1>3, <2>3, <2>4 DEF TakeFromRound, files, outside, OutboxInv, Grounds, Held, DeliveryPhases
    <2>9. NeverLost' /\ FinishedForAReason'
      BY <1>3, <2>1 DEF TakeFromRound, files, outside, OutboxInv, NeverLost, FinishedForAReason
    <2> QED BY <2>5, <2>6, <2>7, <2>8, <2>9 DEF OutboxInv
  <1>4. CASE ProcessDies
    <2>1. Pending' = Pending BY <1>4 DEF ProcessDies, files, Pending
    <2>2. \A t \in Threads : phase'[t] = "idle" BY <1>4 DEF ProcessDies
    <2>3. OutboxTypeOK'
      <3>1. phase' \in [Threads -> DeliveryPhases] BY <1>4 DEF ProcessDies, DeliveryPhases
      <3>2. round' = {} /\ outboxLock' = NoThread /\ target' = NoEntry BY <1>4 DEF ProcessDies
      <3>4. up' = FALSE BY <1>4 DEF ProcessDies
      <3>5. crashes' \in Nat BY <1>4 DEF ProcessDies, OutboxInv, OutboxTypeOK
      <3>6. UNCHANGED <<queue, done, sent, history, expired>>
        BY <1>4 DEF ProcessDies, files, outside
      <3> QED BY <2>1, <3>1, <3>2, <3>4, <3>5, <3>6 DEF OutboxInv, OutboxTypeOK
    <2>4. HolderOnly' /\ WorkerHasEntry' /\ Grounds'
      BY <2>2 DEF HolderOnly, WorkerHasEntry, Grounds, Held, Threads
    <2>5. NeverLost' /\ FinishedForAReason'
      BY <1>4, <2>1 DEF ProcessDies, files, outside, OutboxInv, NeverLost, FinishedForAReason
    <2> QED BY <2>3, <2>4, <2>5 DEF OutboxInv
  <1>5. CASE Restart \/ UNCHANGED outboxVars
    <2>1. /\ UNCHANGED <<files, memory, outside>> /\ up' \in BOOLEAN /\ crashes' \in Nat
      BY <1>5 DEF Restart, outboxVars, OutboxInv, OutboxTypeOK
    <2>2. Pending' = Pending BY <2>1 DEF files, Pending
    <2>3. \A t \in Threads : Target(t)' = Target(t) BY <2>1 DEF memory, Target
    <2>4. OutboxTypeOK' BY <2>1, <2>2 DEF files, memory, outside, OutboxInv, OutboxTypeOK
    <2> QED BY <2>1, <2>2, <2>3, <2>4 DEF files, memory, outside, OutboxInv, HolderOnly,
              WorkerHasEntry, Grounds, NeverLost, FinishedForAReason
  <1> QED BY <1>1, <1>2, <1>3, <1>4, <1>5

LEMMA OutboxInvDeliver ==
  ASSUME OutboxInv, NEW t \in Threads, Deliver(t)
  PROVE  OutboxInv'
  <1> USE OutboxAssumption
  <1> DEFINE e == Target(t)
  <1>1. CASE Read(t)
    <2>1. UNCHANGED <<queue, done, sent, history, expired, round, up, crashes>>
          /\ Pending' = Pending
      BY <1>1 DEF Read, files, outside, Pending
    <2>2. e \in Ids
      BY <1>1 DEF Read, OutboxInv, WorkerHasEntry, Threads, Target
    <2>3. outboxLock = NoThread /\ phase[t] = "waiting" BY <1>1 DEF Read
    <2>4. \A u \in Threads : phase[u] \notin Held
      BY <2>3 DEF OutboxInv, HolderOnly, Threads
    <2>5. CASE e \in Pending
      <3>1. phase' = [phase EXCEPT ![t] = "record"] /\ outboxLock' = t /\ target' = target
        BY <1>1, <2>5 DEF Read, Enter
      <3>2. phase' \in [Threads -> DeliveryPhases] /\ phase'[t] = "record"
            /\ \A u \in Threads : u # t => phase'[u] = phase[u]
        BY <3>1 DEF OutboxInv, OutboxTypeOK, DeliveryPhases
      <3>3. Target(t)' = e BY <3>1 DEF Target
      <3>4. OutboxTypeOK' BY <2>1, <3>1, <3>2 DEF OutboxInv, OutboxTypeOK
      <3>5. HolderOnly' BY <2>1, <2>4, <2>5, <3>1, <3>2, <3>3 DEF HolderOnly
      <3>6. WorkerHasEntry'
        BY <2>3, <3>1, <3>2 DEF OutboxInv, WorkerHasEntry, Threads
      <3>7. Grounds' BY <2>4, <3>2 DEF Grounds, Held, DeliveryPhases
      <3> QED BY <2>1, <3>4, <3>5, <3>6, <3>7 DEF OutboxInv, NeverLost, FinishedForAReason
    <2>6. CASE e \notin Pending
      <3>1. /\ phase' = [phase EXCEPT ![t] = "idle"] /\ outboxLock' = NoThread
            /\ target' = IF t = Worker THEN NoEntry ELSE target
        BY <1>1, <2>6 DEF Read, Return, Enter
      <3>2. phase' \in [Threads -> DeliveryPhases] /\ phase'[t] = "idle"
            /\ \A u \in Threads : u # t => phase'[u] = phase[u]
        BY <3>1 DEF OutboxInv, OutboxTypeOK, DeliveryPhases
      <3>3. \A u \in Threads : phase'[u] \notin Held BY <2>4, <3>2 DEF Held
      <3>4. OutboxTypeOK' BY <2>1, <3>1, <3>2 DEF OutboxInv, OutboxTypeOK
      <3>5. HolderOnly' /\ Grounds' BY <3>3 DEF HolderOnly, Grounds, Held, DeliveryPhases
      <3>6. WorkerHasEntry'
        BY <3>1, <3>2 DEF OutboxInv, WorkerHasEntry, Threads
      <3> QED BY <2>1, <3>4, <3>5, <3>6 DEF OutboxInv, NeverLost, FinishedForAReason
    <2> QED BY <2>5, <2>6
  <1>2. ASSUME phase[t] \in Held, NEW next \in Held,
               Enter(t, next), UNCHANGED <<files, sent, expired, round, target, outboxLock, up, crashes>>,
               history \subseteq history', history' \subseteq history \cup {e},
               next = "delivered" => e \in history',
               next = "undeliverable" => e \in expired \cup Invalid,
               next # "unlink"
        PROVE  OutboxInv'
    <2>1. UNCHANGED <<queue, done, sent, expired, round, target, outboxLock, up, crashes>>
          /\ Pending' = Pending
      BY <1>2 DEF files, Pending
    <2>2. e \in Ids /\ e \in sent /\ e \in Pending /\ outboxLock = t
          /\ \A u \in Threads : u # t => phase[u] \notin Held
      BY <1>2, HolderFacts
    <2>3. phase' \in [Threads -> DeliveryPhases] /\ phase'[t] = next
          /\ \A u \in Threads : u # t => phase'[u] = phase[u]
      BY <1>2 DEF Enter, OutboxInv, OutboxTypeOK, Held
    <2>4. \A u \in Threads : Target(u)' = Target(u) BY <2>1 DEF Target
    <2>5. OutboxTypeOK' BY <1>2, <2>1, <2>2, <2>3 DEF OutboxInv, OutboxTypeOK, Held
    <2>6. HolderOnly' BY <2>1, <2>2, <2>3, <2>4 DEF HolderOnly
    <2>7. WorkerHasEntry' BY <1>2, <2>1, <2>3 DEF OutboxInv, WorkerHasEntry, Held, Threads
    <2>8. Grounds' BY <1>2, <2>1, <2>2, <2>3, <2>4 DEF Grounds, Held, DeliveryPhases
    <2>9. NeverLost' /\ FinishedForAReason'
      BY <1>2, <2>1 DEF OutboxInv, NeverLost, FinishedForAReason
    <2> QED BY <2>5, <2>6, <2>7, <2>8, <2>9 DEF OutboxInv
  <1>3. CASE Answered(t)
    <2>1. phase[t] = "record" /\ phase[t] \in Held BY <1>3 DEF Answered, Held, DeliveryPhases
    <2>2. CASE e \in expired \cup Invalid
      BY <1>2, <1>3, <2>1, <2>2 DEF Answered, Held, DeliveryPhases
    <2>3. CASE e \notin expired \cup Invalid
      BY <1>2, <1>3, <2>1, <2>3 DEF Answered, Held, DeliveryPhases
    <2> QED BY <2>2, <2>3
  <1>4. CASE Unanswered(t)
    BY <1>2, <1>4 DEF Unanswered, Held, DeliveryPhases
  <1>5. CASE WriteDone(t)
    <2>1. phase[t] \in Held BY <1>5 DEF WriteDone, Held, DeliveryPhases
    <2>2. UNCHANGED <<queue, sent, history, expired, round, target, outboxLock, up, crashes>>
          /\ Pending' = Pending
      BY <1>5 DEF WriteDone, outside, Pending
    <2>3. e \in Ids /\ e \in Pending /\ outboxLock = t
          /\ \A u \in Threads : u # t => phase[u] \notin Held
      BY <2>1, HolderFacts
    <2>4. phase' \in [Threads -> DeliveryPhases] /\ phase'[t] = "unlink"
          /\ \A u \in Threads : u # t => phase'[u] = phase[u]
      BY <1>5 DEF WriteDone, Enter, OutboxInv, OutboxTypeOK, DeliveryPhases
    <2>5. done' \in [Ids -> Statuses] /\ done'[e] = phase[t]
          /\ \A j \in Ids : j # e => done'[j] = done[j]
      BY <1>5, <2>3 DEF WriteDone, OutboxInv, OutboxTypeOK, Statuses
    <2>6. \A u \in Threads : Target(u)' = Target(u) BY <2>2 DEF Target
    <2>7. phase[t] \in {"delivered", "undeliverable"} BY <1>5 DEF WriteDone
    <2>8. OutboxTypeOK' BY <2>2, <2>3, <2>4, <2>5 DEF OutboxInv, OutboxTypeOK
    <2>9. HolderOnly' BY <2>2, <2>3, <2>4, <2>6 DEF HolderOnly
    <2>10. WorkerHasEntry' BY <2>1, <2>2, <2>4 DEF OutboxInv, WorkerHasEntry, Held, Threads
    <2>11. Grounds'
      BY <2>2, <2>3, <2>4, <2>5, <2>6, <2>7 DEF Grounds, Held, DeliveryPhases
    <2>12. NeverLost' BY <2>2 , <2>5, <2>7 DEF OutboxInv, OutboxTypeOK, NeverLost
    <2>13. FinishedForAReason'
      BY <2>2, <2>3, <2>5, <2>7 DEF OutboxInv, Grounds, FinishedForAReason
    <2> QED BY <2>8, <2>9, <2>10, <2>11, <2>12, <2>13 DEF OutboxInv
  <1>6. CASE Retry(t) \/ Unlink(t)
    <2>1. phase[t] \in Held BY <1>6 DEF Retry, Unlink, Held, DeliveryPhases
    <2>2. UNCHANGED <<done, sent, history, expired, round, up, crashes>>
      BY <1>6 DEF Retry, Unlink, outside
    <2>3. e \in Ids /\ e \in sent /\ e \in Pending
          /\ \A u \in Threads : u # t => phase[u] \notin Held
      BY <2>1, HolderFacts
    <2>4. /\ phase' = [phase EXCEPT ![t] = "idle"] /\ outboxLock' = NoThread
          /\ target' = IF t = Worker THEN NoEntry ELSE target
      BY <1>6 DEF Retry, Unlink, Return, Enter
    <2>5. phase' \in [Threads -> DeliveryPhases] /\ phase'[t] = "idle"
          /\ \A u \in Threads : u # t => phase'[u] = phase[u]
      BY <2>4 DEF OutboxInv, OutboxTypeOK, DeliveryPhases
    <2>6. \A u \in Threads : phase'[u] \notin Held BY <2>3, <2>5 DEF Held
    <2>7. /\ queue' \in [Ids -> Nat]
          /\ \A j \in Ids : j # e => (queue'[j] # 0 <=> queue[j] # 0)
      BY <1>6, <2>3, WithoutPlaces, WrittenPlaces DEF Retry, Unlink, OutboxInv, OutboxTypeOK
    <2>8. queue'[e] = 0 => done[e] # "none"
      <3>1. CASE Retry(t) BY <3>1, <2>3, WrittenPlaces DEF Retry, OutboxInv, OutboxTypeOK
      <3>2. CASE Unlink(t) BY <3>2 DEF Unlink, OutboxInv, Grounds
      <3> QED BY <1>6, <3>1, <3>2
    <2>9. Pending' \subseteq Pending /\ \A j \in Pending : j # e => j \in Pending'
      BY <2>3, <2>7 DEF Pending
    <2>10. OutboxTypeOK' BY <2>2, <2>4, <2>5, <2>7, <2>9 DEF OutboxInv, OutboxTypeOK
    <2>11. HolderOnly' /\ Grounds' BY <2>6 DEF HolderOnly, Grounds, Held, DeliveryPhases
    <2>12. WorkerHasEntry' BY <2>4, <2>5 DEF OutboxInv, WorkerHasEntry, Threads
    <2>13. NeverLost'
      BY <2>2, <2>3, <2>8, <2>9 DEF OutboxInv, NeverLost, Pending
    <2>14. FinishedForAReason' BY <2>2 DEF OutboxInv, FinishedForAReason
    <2> QED BY <2>10, <2>11, <2>12, <2>13, <2>14 DEF OutboxInv
  <1>7. CASE Raises(t)
    <2>1. phase[t] \in Held BY <1>7 DEF Raises, Held
    <2>2. e \in Ids /\ e \in sent /\ e \in Pending
          /\ \A u \in Threads : u # t => phase[u] \notin Held
      BY <2>1, HolderFacts
    <2>3. /\ UNCHANGED <<queue, done, sent, expired, up, crashes>> /\ Pending' = Pending
          /\ history \subseteq history' /\ history' \subseteq history \cup {e}
          /\ round' \in {{}, round}
      BY <1>7 DEF Raises, files, Pending
    <2>4. /\ phase' = [phase EXCEPT ![t] = "idle"] /\ outboxLock' = NoThread
          /\ target' = IF t = Worker THEN NoEntry ELSE target
      BY <1>7 DEF Raises, Return, Enter
    <2>5. phase' \in [Threads -> DeliveryPhases] /\ phase'[t] = "idle"
          /\ \A u \in Threads : u # t => phase'[u] = phase[u]
      BY <2>4 DEF OutboxInv, OutboxTypeOK, DeliveryPhases
    <2>6. \A u \in Threads : phase'[u] \notin Held BY <2>2, <2>5 DEF Held
    <2>7. OutboxTypeOK' BY <2>2, <2>3, <2>4, <2>5 DEF OutboxInv, OutboxTypeOK
    <2>8. HolderOnly' /\ Grounds' BY <2>6 DEF HolderOnly, Grounds, Held, DeliveryPhases
    <2>9. WorkerHasEntry' BY <2>4, <2>5 DEF OutboxInv, WorkerHasEntry, Threads
    <2>10. NeverLost' /\ FinishedForAReason' BY <2>3 DEF OutboxInv, NeverLost, FinishedForAReason
    <2> QED BY <2>7, <2>8, <2>9, <2>10 DEF OutboxInv
  <1> QED BY <1>1, <1>3, <1>4, <1>5, <1>6, <1>7 DEF Deliver

(* The inductive invariant.                                                *)
THEOREM OutboxInvariance == OutboxSpec => []OutboxInv
  <1>1. OutboxInv /\ [OutboxNext]_outboxVars => OutboxInv'
    BY OutboxInvSend, OutboxInvOther, OutboxInvDeliver DEF OutboxNext
  <1> QED BY <1>1, OutboxInvInit, PTL DEF OutboxSpec

(* The state of the queue is always of its type, and a thread that holds   *)
(* the lock is in the middle of a delivery (governed.py:253-276).          *)
THEOREM OutboxTypeCorrect == OutboxSpec => []OutboxTypeOK
  BY OutboxInvariance, PTL DEF OutboxInv

(* No entry that was queued is ever lost: it is pending or finished,       *)
(* however often the process dies (governed.py:240-285).                   *)
THEOREM NothingLost == OutboxSpec => []NeverLost
  BY OutboxInvariance, PTL DEF OutboxInv

(* A delivered entry is in the project's history, and an undeliverable one *)
(* could not have been delivered by resending (governed.py:262-276).       *)
THEOREM FinishedJustly == OutboxSpec => []FinishedForAReason
  BY OutboxInvariance, PTL DEF OutboxInv

(* A file that is gone from pending/, and the token in it, never comes     *)
(* back: the lock makes every delivery see the end of the one before it    *)
(* (governed.py:255-259).                                                  *)
THEOREM NothingComesBack == OutboxSpec => StaysFinished
  <1> DEFINE Settled == \A id \in sent : id \notin Pending => id \notin Pending'
  <1>1. OutboxInv /\ [OutboxNext]_outboxVars => Settled
    <2> SUFFICES ASSUME OutboxInv, [OutboxNext]_outboxVars, NEW id \in sent, id \notin Pending
                 PROVE  id \notin Pending'
      OBVIOUS
    <2> USE DEF Pending
    <2>1. id \in Ids /\ queue \in [Ids -> Nat] BY DEF OutboxInv, OutboxTypeOK
    <2>2. CASE UNCHANGED queue BY <2>2
    <2>3. ASSUME NEW j \in Ids, Send(j) PROVE id \notin Pending'
      BY <2>1, <2>3, WrittenPlaces DEF Send
    <2>4. ASSUME NEW t \in Threads, Retry(t) \/ Unlink(t) PROVE id \notin Pending'
      <3>1. Target(t) \in Ids /\ Target(t) \in Pending
        BY <2>4, HolderFacts DEF Retry, Unlink, Held, DeliveryPhases
      <3> QED BY <2>1, <2>4, <3>1, WrittenPlaces, WithoutPlaces DEF Retry, Unlink
    <2> QED BY <2>2, <2>3, <2>4
          DEF OutboxNext, Expire, StartRound, TakeFromRound, Deliver, Read, Answered, Unanswered,
              Raises, WriteDone, ProcessDies, Restart, outboxVars, files
  <1>2. Settled => [Settled]_outboxVars OBVIOUS
  <1> QED BY <1>1, OutboxInvariance, PTL DEF OutboxSpec, StaysFinished
=============================================================================
