\* Two documents, two good contents and one the server refuses, two retries.
SPECIFICATION WriterSpec
CONSTANTS
  DocIds = {a, b}
  NoDoc = NoDoc
  Payloads = {d1, d2, bad}
  BadDocs = {bad}
  MaxRetries = 2
  Faults = {"refused", "lost_reply"}
INVARIANTS
  OutcomeIsListed
PROPERTY
  EveryCallEnds
