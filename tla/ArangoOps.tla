----------------------------- MODULE ArangoOps -----------------------------
(***************************************************************************)
(* What one call of r2g/connectors/arango_writer.py can do to the target   *)
(* database.  A store maps every document id to its content or to NoDoc.   *)
(* The calls are the four the rest of r2g makes: insert_document,          *)
(* replace_document, delete_document and import_batch.                     *)
(*                                                                         *)
(* WriterOutcomes lists everything a caller of the writer may see,         *)
(* retries included.  ArangoWriter.tla models the retry loop itself and    *)
(* checks that it never produces anything else.                            *)
(***************************************************************************)
EXTENDS Naturals

CONSTANTS
  DocIds,   \* the ids (collection and _key) documents can have
  NoDoc,    \* "there is no such document"
  BadDocs,  \* contents the server refuses (illegal key, oversized, ...)
  Faults    \* what the network may do to one attempt

ASSUME FaultsAssumption == Faults \subseteq {"refused", "lost_reply"}

(* A call: the operation and the documents it carries, by id.  For a delete *)
(* only the ids matter.                                                     *)
Insert(id, doc)    == [op |-> "insert",  docs |-> [i \in {id} |-> doc]]
Replace(id, doc)   == [op |-> "replace", docs |-> [i \in {id} |-> doc]]
Delete(id)         == [op |-> "delete",  docs |-> [i \in {id} |-> NoDoc]]
Import(docs, mode) == [op |-> mode, docs |-> docs]
ImportModes == {"import_ignore", "import_replace"}

(* The ids of a call that the server stores, given what is already there.  *)
Accepted(st, call) ==
  {id \in DOMAIN call.docs :
     /\ call.docs[id] \notin BadDocs
     /\ call.op \in {"insert", "import_ignore"} => st[id] = NoDoc
     /\ call.op = "replace" => st[id] # NoDoc}

Store(st, call, ids) ==
  [id \in DocIds |-> IF id \in ids THEN call.docs[id] ELSE st[id]]

(* The answer of the server to a call that reaches it.                     *)
Answer(st, call) ==
  IF \E id \in DOMAIN call.docs : call.docs[id] \in BadDocs
    THEN IF call.op \in ImportModes THEN "import_errors" ELSE "error"
  ELSE IF call.op = "insert" /\ Accepted(st, call) = {} THEN "duplicate"
  ELSE IF call.op = "replace" /\ Accepted(st, call) = {} THEN "not_found"
  ELSE "ok"

(* The server executes the call: halt_on_error is False, so the documents  *)
(* of an import that it accepts are stored even when others are refused.   *)
Execute(st, call) ==
  [store |-> Store(st, call, Accepted(st, call)), result |-> Answer(st, call)]

(* Every way a call can end for its caller.  A request refused on every    *)
(* attempt changes nothing; a reply that is lost leaves the whole effect,  *)
(* or the part of an import that got through, and the next attempt meets   *)
(* what the lost one stored.                                               *)
WriterOutcomes(st, call) ==
  LET partial == {Store(st, call, ids) : ids \in SUBSET Accepted(st, call)}
      left    == IF call.op \in ImportModes
                 THEN partial ELSE {Execute(st, call).store}
  IN  {Execute(st, call)}
      \cup (IF "refused" \in Faults
            THEN {[store |-> st, result |-> "error"]} ELSE {})
      \cup (IF "lost_reply" \in Faults
            THEN UNION {{[store |-> s, result |-> "error"], Execute(s, call)} :
                        s \in left}
            ELSE {})
=============================================================================
