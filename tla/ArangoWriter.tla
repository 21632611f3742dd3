--------------------------- MODULE ArangoWriter ---------------------------
(***************************************************************************)
(* The retry loop shared by ArangoWriter.import_batch, _single_doc_op and  *)
(* delete_document: up to MaxRetries further attempts after a transient    *)
(* error, an immediate raise for anything else.  The writer is modelled    *)
(* against a server that executes a request whose reply is then lost.      *)
(***************************************************************************)
EXTENDS ArangoOps

CONSTANTS
  Payloads,        \* document contents, BadDocs included
  MaxRetries   \* self.max_retries

ASSUME MaxRetriesAssumption == MaxRetries \in Nat

VARIABLES
  store,     \* the collection on the server
  call,      \* the call in progress
  attempt,   \* "for attempt in range(self.max_retries + 1)"
  result,    \* "none" while the loop runs, then what the caller sees
  before     \* history: the store when the call was made

writerVars == <<store, call, attempt, result, before>>

Calls ==
  (UNION {{Insert(id, d), Replace(id, d), Delete(id)} : id \in DocIds, d \in Payloads})
  \cup (UNION {{Import(docs, m) : docs \in [ids -> Payloads], m \in ImportModes} :
               ids \in (SUBSET DocIds) \ {{}}})

WriterTypeOK ==
  /\ store \in [DocIds -> (Payloads \ BadDocs) \cup {NoDoc}]
  /\ before \in [DocIds -> (Payloads \ BadDocs) \cup {NoDoc}]
  /\ call \in Calls
  /\ attempt \in 0..MaxRetries
  /\ result \in {"none", "ok", "duplicate", "not_found", "import_errors", "error"}

WriterInit ==
  /\ store \in [DocIds -> (Payloads \ BadDocs) \cup {NoDoc}]
  /\ before = store
  /\ call \in Calls
  /\ attempt = 0
  /\ result = "none"

(* The request reaches the server and the reply reaches the writer: the    *)
(* call returns, or raises an error that is not retryable.                 *)
Reply ==
  /\ result = "none"
  /\ store' = Execute(store, call).store
  /\ result' = Execute(store, call).result
  /\ UNCHANGED <<call, attempt, before>>

(* Mutants: a loop that falls through to its end as if it had succeeded,   *)
(* one whose count starts over.                                            *)
RetryFallsThrough ==
  IF attempt < MaxRetries
    THEN attempt' = attempt + 1 /\ result' = "none"
    ELSE attempt' = attempt /\ result' = "ok"
RetryForever == attempt' = (attempt + 1) % (MaxRetries + 1) /\ result' = "none"

(* A transient error: wait and try again, or raise the last one.           *)
RetryOrRaise ==
  IF attempt < MaxRetries
    THEN attempt' = attempt + 1 /\ result' = "none"
    ELSE attempt' = attempt /\ result' = "error"

RequestLost ==
  /\ "refused" \in Faults
  /\ result = "none"
  /\ RetryOrRaise
  /\ UNCHANGED <<store, call, before>>

(* Mutant: a lost reply after which documents that were already there have *)
(* been overwritten.                                                       *)
ReplyLostOverwrites ==
  /\ "lost_reply" \in Faults
  /\ result = "none"
  /\ store' = Store(store, call, {id \in DOMAIN call.docs : call.docs[id] \notin BadDocs})
  /\ RetryOrRaise
  /\ UNCHANGED <<call, before>>

ReplyLost ==
  /\ "lost_reply" \in Faults
  /\ result = "none"
  /\ IF call.op \in ImportModes
       THEN \E ids \in SUBSET Accepted(store, call) : store' = Store(store, call, ids)
       ELSE store' = Execute(store, call).store
  /\ RetryOrRaise
  /\ UNCHANGED <<call, before>>

(* An error that is not retryable (an HTTP code outside the list).         *)
NonRetryable ==
  /\ "refused" \in Faults
  /\ result = "none"
  /\ result' = "error"
  /\ UNCHANGED <<store, call, attempt, before>>

(* The next call of the writer: the caller goes on whatever happened.      *)
NextCall ==
  /\ result # "none"
  /\ call' \in Calls
  /\ before' = store
  /\ attempt' = 0
  /\ result' = "none"
  /\ UNCHANGED store

Attempt == Reply \/ RequestLost \/ ReplyLost \/ NonRetryable

WriterNext == Attempt \/ NextCall

WriterSpec == WriterInit /\ [][WriterNext]_writerVars /\ WF_writerVars(Attempt)

(***************************************************************************)
(* Properties                                                              *)
(***************************************************************************)

(* Whatever the interleaving of lost requests, lost replies and retries,   *)
(* the caller sees one of the outcomes the rest of this development        *)
(* assumes of a writer call (arango_writer.py:155-202, 260-287).           *)
OutcomeIsListed ==
  result # "none" =>
    [store |-> store, result |-> result] \in WriterOutcomes(before, call)

(* Every call ends: the number of attempts is bounded.                     *)
EveryCallEnds == (result = "none") ~> (result # "none")
=============================================================================
