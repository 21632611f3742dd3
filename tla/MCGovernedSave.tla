---------------------------- MODULE MCGovernedSave ----------------------------
(* Two tables and a relationship that starts from the first.               *)
EXTENDS GovernedSave

CONSTANTS t1, t2, e1, A, B

MCEmpty == [p \in Parts |-> Absent]
MCFromTable == [e \in Relations |-> t1]

(* A mapping of one class, one of another class with the second table, and *)
(* one with the relationship.                                              *)
Class(c) == [class |-> c, fields |-> 1]
MCMappings ==
  {MCEmpty,
   [MCEmpty EXCEPT ![t1] = Class(A)],
   [MCEmpty EXCEPT ![t1] = Class(B), ![t2] = Class(ProjectWide)],
   [MCEmpty EXCEPT ![t1] = Class(A), ![e1] = Class(ProjectWide)]}
=============================================================================
