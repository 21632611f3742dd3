--------------------------- MODULE ConflictResolver ---------------------------
(***************************************************************************)
(* r2g/cdc/conflict.py: how one delta is applied under each conflict       *)
(* policy.  Every operator maps a store and a delta to the set of its      *)
(* outcomes: the store it leaves and the verdict _apply_delta counts       *)
(* (applied, skipped, or failed when the resolver raises).                 *)
(*                                                                         *)
(* A document is its body and the _r2g_lsn field, NoLsn when it has none.  *)
(***************************************************************************)
EXTENDS ArangoOps

CONSTANTS
  NoLsn,       \* the document carries no _r2g_lsn; the event carries no lsn
  LexRank      \* LexRank[l]: the place of str(l) among the LSN strings

Policies == {"source_wins", "last_write_wins", "log_and_skip", "fail"}

Outcome(st, verdict) == [store |-> st, verdict |-> verdict]

(* A writer call whose every error propagates.                             *)
Attempted(st, call) ==
  {Outcome(o.store, IF o.result = "ok" THEN "applied" ELSE "failed") :
     o \in WriterOutcomes(st, call)}

StampLsn(doc, lsn) == IF lsn = NoLsn THEN doc ELSE [doc EXCEPT !.lsn = lsn]

(* _should_overwrite.  The LSNs are strings and are compared as such; a    *)
(* failure to read the stored one counts as "overwrite".                   *)
OverwriteVerdicts(stored, lsn) ==
  {\/ lsn = NoLsn
   \/ stored = NoDoc
   \/ stored.lsn = NoLsn
   \/ LexRank[lsn] >= LexRank[stored.lsn]}
  \cup (IF "refused" \in Faults THEN {TRUE} ELSE {})

(* The INSERT_DUPLICATE branch of resolve_insert.                          *)
OnDuplicate(policy, st, id, doc, lsn) ==
  CASE policy = "source_wins" -> Attempted(st, Replace(id, doc))
    [] policy = "last_write_wins" ->
         UNION {IF newer THEN Attempted(st, Replace(id, doc))
                         ELSE {Outcome(st, "skipped")} :
                newer \in OverwriteVerdicts(st[id], lsn)}
    [] policy = "log_and_skip" -> {Outcome(st, "skipped")}
    [] policy = "fail" -> {Outcome(st, "failed")}

ResolveInsert(policy, st, id, doc, lsn) ==
  UNION {CASE o.result = "ok" -> {Outcome(o.store, "applied")}
           [] o.result = "duplicate" -> OnDuplicate(policy, o.store, id, doc, lsn)
           [] OTHER -> {Outcome(o.store, "failed")} :
         o \in WriterOutcomes(st, Insert(id, doc))}

(* The REPLACE_MISSING branch of resolve_replace.                          *)
OnMissing(policy, st, id, doc) ==
  CASE policy = "source_wins" -> Attempted(st, Insert(id, doc))
    [] policy \in {"last_write_wins", "log_and_skip"} -> {Outcome(st, "skipped")}
    [] policy = "fail" -> {Outcome(st, "failed")}

ResolveReplace(policy, st, id, doc, lsn) ==
  LET stamped == IF policy = "last_write_wins" THEN StampLsn(doc, lsn) ELSE doc
  IN  UNION {CASE o.result = "ok" -> {Outcome(o.store, "applied")}
               [] o.result = "not_found" -> OnMissing(policy, o.store, id, stamped)
               [] OTHER -> {Outcome(o.store, "failed")} :
             o \in WriterOutcomes(st, Replace(id, stamped))}

(* Mutant: a resolver that leaves deletes to somebody else.                *)
SkipDelete(st, id) == {Outcome(st, "skipped")}
ResolveDelete(st, id) == Attempted(st, Delete(id))
=============================================================================
