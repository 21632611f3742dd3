----------------------------- MODULE GovernedSave -----------------------------
(***************************************************************************)
(* r2g/ui/server.py under a control plane: the requests that write the     *)
(* mapping of one project.  A save compares the new mapping with the saved *)
(* one, asks the policy about every difference, writes the file, keeps     *)
(* both versions and queues an entry for each part changed; a creation     *)
(* seeds the file in the same way.  Saves run on threads and one at a time *)
(* (_save_locks); a creation runs on the event loop, which it leaves only  *)
(* while it asks.  Requests may fail at any file operation, and the        *)
(* process may die.  What becomes of a queued entry is Outbox's subject;   *)
(* the question and the entry about a new project's name are left out.     *)
(*                                                                         *)
(* A mapping gives each part its content, or Absent: a table's class and   *)
(* fields, a relationship's fields.                                        *)
(***************************************************************************)
EXTENDS Naturals, SequencesExt

CONSTANTS
  Tables,        \* parts with a class of their own
  Relations,     \* parts that fall under the class of the table they start from
  FromTable,     \* that table, for each relation
  Absent,        \* the content of a part the mapping does not have
  ProjectWide,   \* the term of a table that names no class
  Mappings,      \* the mappings requests carry, Empty among them
  Empty,         \* the mapping without parts
  NoFile,        \* there is no mapping file
  Blank,         \* open(path, "w") has emptied it
  Requests,      \* the requests ever made, one save or creation each
  Nobody,        \* the lock, or the event loop, is free
  MaxInterruptions  \* bound: failed requests and crashes

Parts == Tables \cup Relations

ASSUME MappingsAssumption ==
  /\ IsFiniteSet(Parts)
  /\ Empty = [p \in Parts |-> Absent] /\ Empty \in Mappings
  /\ Blank \notin Mappings /\ NoFile \notin Mappings \cup {Blank}
  /\ Nobody \notin Requests

VARIABLES
  known,     \* is the project in the catalog?
  file,      \* mapping.yaml
  kept,      \* versions/: the texts kept
  entries,   \* entries queued for the history, in order
  lock,      \* the request that holds the project's save lock
  loop,      \* the creation that holds the event loop
  pc,        \* where each request is
  wanted,    \* the mapping it writes
  granted,   \* the terms the policy has permitted it
  items,     \* the parts it still has to record
  before,    \* the text it has read, whose version it replaces, or NoFile
  after,     \* the version it has kept of what it wrote
  interruptions,
  mishaps,   \* history: "cut", "orphaned", "recreated"; see MishapsOf
  first      \* history: the file in the beginning

request == <<wanted, granted, items, before, after>>
histories == <<interruptions, mishaps, first>>
vars == <<known, file, kept, entries, lock, loop, pc, request, histories>>

(* ConfigManager.load_config: an empty file reads as the empty mapping, as *)
(* does, for a save, one that is not there or cannot be read.              *)
Reads(text) == IF text \in {NoFile, Blank} THEN Empty ELSE text

(* save_changes: the parts that differ, and the terms each is checked on.  *)
SaveChanges(old, new) == {p \in Parts : old[p] # new[p]}
TermsIn(m, p) ==
  IF m[p] = Absent THEN {}
  ELSE IF p \in Tables THEN {m[p].class}
  ELSE IF m[FromTable[p]] = Absent THEN {ProjectWide}
  ELSE {m[FromTable[p]].class}
(* Mutant: a changed part is checked on the class it has now.              *)
TermsNow(old, new, p) == IF new[p] = Absent THEN TermsIn(old, p) ELSE TermsIn(new, p)
Terms(old, new, p) == TermsIn(old, p) \cup TermsIn(new, p)

(* What earlier processes left: any file, whether the project is in the    *)
(* catalog or not, among them the remains of a save or creation cut short. *)
Init ==
  /\ known \in BOOLEAN
  /\ file \in Mappings \cup {NoFile, Blank}
  /\ kept = {} /\ entries = <<>>
  /\ lock = Nobody /\ loop = Nobody
  /\ pc = [r \in Requests |-> "new"]
  /\ wanted = [r \in Requests |-> Empty] /\ granted = [r \in Requests |-> {}]
  /\ items = [r \in Requests |-> <<>>]
  /\ before = [r \in Requests |-> NoFile] /\ after = before
  /\ interruptions = 0 /\ first = file
  /\ mishaps = IF known /\ file = NoFile THEN {"orphaned"} ELSE {}

Goto(r, place) == pc' = [pc EXCEPT ![r] = place]

(* Mutant: a request that ends keeps the lock.                             *)
EndLocked(r) ==
  /\ Goto(r, "ended") /\ UNCHANGED lock
  /\ loop' = IF loop = r THEN Nobody ELSE loop

(* A request ends, with a response or an exception: the with statement     *)
(* releases the lock.                                                      *)
End(r) ==
  /\ Goto(r, "ended")
  /\ lock' = IF lock = r THEN Nobody ELSE lock
  /\ loop' = IF loop = r THEN Nobody ELSE loop

Entry(p, outcome, from, to) == [part |-> p, outcome |-> outcome, before |-> from, after |-> to]

(***************************************************************************)
(* govern                                                                  *)
(***************************************************************************)

(* Every term of every part that differs is asked about before anything is *)
(* written; with one refused, every part it governs is recorded as refused *)
(* and the change is refused whole.                                        *)
Refused(old, new, permitted) ==
  {p \in SaveChanges(old, new) : ~(Terms(old, new, p) \subseteq permitted)}
Asked(old, new) == UNION {Terms(old, new, p) : p \in SaveChanges(old, new)}

Govern(r, saved, new, permitted, next) ==
  LET old == Reads(saved)
          refused == SetToSeq(Refused(old, new, permitted))
  IN  IF refused # <<>>
        THEN /\ entries' = entries \o
                  [i \in DOMAIN refused |-> Entry(refused[i], "denied", NoFile, NoFile)]
             /\ End(r)
             /\ UNCHANGED request
        ELSE /\ granted' = [granted EXCEPT ![r] = permitted]
             /\ items' = [items EXCEPT ![r] = SetToSeq(SaveChanges(old, new))]
             /\ Goto(r, next)
             /\ before' = [before EXCEPT ![r] = saved]
             /\ UNCHANGED <<entries, lock, loop, wanted, after>>

(***************************************************************************)
(* save_mapping, _governed_save                                            *)
(***************************************************************************)

(* The project is looked up on the event loop; the save then waits for the *)
(* project's lock on a thread.                                             *)
SaveRequest(r) ==
  /\ pc[r] = "new" /\ known /\ loop = Nobody
  /\ \E m \in Mappings : wanted' = [wanted EXCEPT ![r] = m]
  /\ Goto(r, "waiting")
  /\ UNCHANGED <<known, file, kept, entries, lock, loop, granted, items, before, after, histories>>

(* Mutant: one lock per request.                                           *)
LockOwn(r) ==
  /\ pc[r] = "waiting"
  /\ Goto(r, "compare")
  /\ UNCHANGED <<known, file, kept, entries, lock, loop, request, histories>>

Lock(r) ==
  /\ pc[r] = "waiting" /\ lock = Nobody
  /\ lock' = r
  /\ Goto(r, "compare")
  /\ UNCHANGED <<known, file, kept, entries, loop, request, histories>>

CompareAndAsk(r) ==
  /\ pc[r] = "compare"
  /\ \E permitted \in SUBSET Asked(Reads(file), wanted[r]) :
       Govern(r, file, wanted[r], permitted, "keep_before")
  /\ UNCHANGED <<known, file, kept, histories>>

(* keep_version(saved_text), if there is any text.                         *)
KeepBefore(r) ==
  /\ pc[r] = "keep_before"
  /\ IF before[r] \in {NoFile, Blank}
       THEN before' = [before EXCEPT ![r] = NoFile] /\ UNCHANGED kept
       ELSE kept' = kept \cup {before[r]} /\ UNCHANGED before
  /\ Goto(r, "open")
  /\ UNCHANGED <<known, file, entries, lock, loop, wanted, granted, items, after, histories>>

(* save_config: the file is emptied, then written.                         *)
Open(r) ==
  /\ pc[r] = "open"
  /\ file' = Blank
  /\ Goto(r, "write")
  /\ UNCHANGED <<known, kept, entries, lock, loop, request, histories>>

Write(r) ==
  /\ pc[r] = "write"
  /\ file' = wanted[r]
  /\ Goto(r, "keep_after")
  /\ UNCHANGED <<known, kept, entries, lock, loop, request, histories>>

(* Mutant: the reference without the version.                              *)
KeepAfterUnstored(r) ==
  /\ pc[r] = "keep_after"
  /\ LET text == IF loop = r THEN file ELSE wanted[r]
     IN  after' = [after EXCEPT ![r] = text]
  /\ Goto(r, "record")
  /\ UNCHANGED <<known, file, kept, entries, lock, loop, wanted, granted, items, before, histories>>

(* keep_version: of the text saved, or, for a creation that has something  *)
(* to record, of what is in the file.                                      *)
KeepAfter(r) ==
  /\ pc[r] = "keep_after"
  /\ LET text == IF loop = r THEN file ELSE wanted[r]
     IN  IF loop = r /\ items[r] = <<>>
           THEN UNCHANGED <<kept, after>>
           ELSE kept' = kept \cup {text} /\ after' = [after EXCEPT ![r] = text]
  /\ Goto(r, "record")
  /\ UNCHANGED <<known, file, entries, lock, loop, wanted, granted, items, before, histories>>

(* Mutant: one entry for all the parts changed.                            *)
RecordFirst(r) ==
  /\ pc[r] = "record" /\ items[r] # <<>>
  /\ entries' = Append(entries, Entry(Head(items[r]), "permitted", before[r], after[r]))
  /\ items' = [items EXCEPT ![r] = <<>>]
  /\ UNCHANGED <<known, file, kept, lock, loop, pc, wanted, granted, before, after, histories>>

(* record: one entry for each part changed.                                *)
Record(r) ==
  /\ pc[r] = "record" /\ items[r] # <<>>
  /\ entries' = Append(entries, Entry(Head(items[r]), "permitted", before[r], after[r]))
  /\ items' = [items EXCEPT ![r] = Tail(items[r])]
  /\ UNCHANGED <<known, file, kept, lock, loop, pc, wanted, granted, before, after, histories>>

Respond(r) ==
  /\ pc[r] = "record" /\ items[r] = <<>>
  /\ End(r)
  /\ UNCHANGED <<known, file, kept, entries, request, histories>>

(***************************************************************************)
(* create_project                                                          *)
(***************************************************************************)

(* The mapping a project starts with: the file already there, or a seed.   *)
CreateRequest(r) ==
  /\ pc[r] = "new" /\ loop = Nobody
  /\ \E m \in Mappings :
       wanted' = [wanted EXCEPT ![r] = IF file = NoFile THEN m ELSE Reads(file)]
  /\ Goto(r, "ask")
  /\ UNCHANGED <<known, file, kept, entries, lock, loop, granted, items, before, after, histories>>

CreateAsk(r) ==
  /\ pc[r] = "ask" /\ loop = Nobody
  /\ \E permitted \in SUBSET Asked(Empty, wanted[r]) :
       Govern(r, NoFile, wanted[r], permitted, "create")
  /\ UNCHANGED <<known, file, kept, histories>>

(* catalog.create_project: a project that is there already is replaced.    *)
Create(r) ==
  /\ pc[r] = "create" /\ loop = Nobody
  /\ loop' = r
  /\ known' = TRUE
  /\ mishaps' = IF known THEN mishaps \cup {"recreated"} ELSE mishaps
  /\ Goto(r, "seed")
  /\ UNCHANGED <<file, kept, entries, lock, request, interruptions, first>>

(* A file that exists is left as it is.                                    *)
Seed(r) ==
  /\ pc[r] = "seed"
  /\ IF file = NoFile
       THEN file' = Blank /\ Goto(r, "write")
       ELSE UNCHANGED file /\ Goto(r, "keep_after")
  /\ UNCHANGED <<known, kept, entries, lock, loop, request, histories>>

(***************************************************************************)
(* What goes wrong                                                         *)
(***************************************************************************)

(* A request was cut after it had begun to write, before everything it     *)
(* changed was recorded ("cut"), or after the project was in the catalog   *)
(* and before its file was there ("orphaned").                             *)
MishapsOf(r) ==
  {m \in {"cut", "orphaned"} :
     IF m = "cut" THEN pc[r] \in {"write", "keep_after", "record"}
     ELSE pc[r] = "seed" /\ file = NoFile}

(* A file operation raises.                                                *)
Fail(r) ==
  /\ pc[r] \notin {"new", "waiting", "ask", "ended"} /\ interruptions < MaxInterruptions
  /\ interruptions' = interruptions + 1
  /\ mishaps' = mishaps \cup MishapsOf(r)
  /\ End(r)
  /\ UNCHANGED <<known, file, kept, entries, request, first>>

(* The process dies and is started again.                                  *)
Crash ==
  /\ interruptions < MaxInterruptions
  /\ interruptions' = interruptions + 1
  /\ mishaps' = mishaps \cup UNION {MishapsOf(r) : r \in Requests}
  /\ pc' = [r \in Requests |-> IF pc[r] = "new" THEN "new" ELSE "ended"]
  /\ lock' = Nobody /\ loop' = Nobody
  /\ UNCHANGED <<known, file, kept, entries, request, first>>

Step(r) ==
  \/ Lock(r) \/ CompareAndAsk(r) \/ KeepBefore(r) \/ Open(r)
  \/ CreateAsk(r) \/ Create(r) \/ Seed(r)
  \/ Write(r) \/ KeepAfter(r) \/ Record(r) \/ Respond(r)

Next ==
  \/ \E r \in Requests : SaveRequest(r) \/ CreateRequest(r) \/ Step(r) \/ Fail(r)
  \/ Crash

(* Threads and the event loop run; each request waits for the lock at most *)
(* as often as there are others.                                           *)
Fairness == \A r \in Requests : WF_vars(Step(r))

Spec == Init /\ [][Next]_vars /\ Fairness

(***************************************************************************)
(* Properties                                                              *)
(***************************************************************************)

Texts == Mappings \cup {Blank}
Phases == {"new", "waiting", "compare", "keep_before", "open", "ask", "create", "seed",
           "write", "keep_after", "record", "ended"}
Busy(r) == pc[r] \in {"compare", "keep_before", "open", "seed", "write", "keep_after", "record"}

(* A request that writes holds the lock or the event loop, never both.     *)
TypeOK ==
  /\ known \in BOOLEAN /\ file \in Texts \cup {NoFile} /\ kept \subseteq Texts
  /\ lock \in Requests \cup {Nobody} /\ loop \in Requests \cup {Nobody}
  /\ pc \in [Requests -> Phases]
  /\ wanted \in [Requests -> Mappings]
  /\ \A r \in Requests : Busy(r) <=> (lock = r) # (loop = r)
  /\ mishaps \subseteq {"cut", "orphaned", "recreated"}

(* "A save never changes anything that was not checked" (PRD P14.9): when   *)
(* a request empties the file, the policy has permitted every part in      *)
(* which what was in it then differs from what will be, on its class       *)
(* before and after, whoever else saved since the request was made.        *)
SaveIsChecked ==
  [][\A r \in Requests :
        pc[r] # "write" /\ pc'[r] = "write" /\ "orphaned" \notin mishaps =>
          \A p \in SaveChanges(Reads(file), wanted[r]) :
            TermsIn(Reads(file), p) \cup TermsIn(wanted[r], p) \subseteq granted[r]]_vars

(* "Every saved version of a mapping is kept" (PRD P14.11): a version that *)
(* is replaced has been kept, crashes and failures included.               *)
ReplacedIsKept ==
  [][file' # file /\ file \in Mappings /\ "orphaned" \notin mishaps => file \in kept]_vars

(* "... so a record points at the versions before and after" (P14.11): the *)
(* versions an entry names are kept when it is queued, whatever is cut.    *)
EntriesPointAtKept ==
  \A i \in DOMAIN entries :
    entries[i].outcome = "permitted" =>
      entries[i].after \in kept /\ entries[i].before \in kept \cup {NoFile}

(* "Every governed change ... is recorded" (P14.11): when nobody is         *)
(* writing, the file has each part as the last entry about it says, or as  *)
(* it was in the beginning.  A request that was cut while it wrote or      *)
(* recorded breaks this, and so may a second creation of a project.        *)
About(p) == {i \in DOMAIN entries : entries[i].part = p /\ entries[i].outcome = "permitted"}
Recorded(p) ==
  IF About(p) = {} THEN Reads(first)[p]
  ELSE Reads(entries[Max(About(p))].after)[p]
HistoryAccounts ==
  lock = Nobody /\ loop = Nobody /\ mishaps \cap {"cut", "recreated"} = {} =>
    \A p \in Parts : Recorded(p) = IF known THEN Reads(file)[p] ELSE Reads(first)[p]

(* Every request ends, refused, failed or done: none keeps the lock.       *)
EveryRequestEnds == \A r \in Requests : (pc[r] # "new") ~> (pc[r] = "ended")
=============================================================================
