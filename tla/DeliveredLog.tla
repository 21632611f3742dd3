---------------------------- MODULE DeliveredLog ----------------------------
(***************************************************************************)
(* What "at least once" promises of a partitioned log, whatever consumes   *)
(* it: messages are delivered in any order and any number of times, but a  *)
(* partition is acknowledged only as far as every message of it that       *)
(* matters has been delivered, and an acknowledgement is never withdrawn.  *)
(***************************************************************************)
EXTENDS Naturals, Sequences

CONSTANTS
  Partitions,
  Tombstone     \* a message nobody needs to deliver

VARIABLES
  log,         \* partition -> sequence of messages
  delivered,   \* the <<partition, offset>> delivered at least once
  acked        \* partition -> offset acknowledged

vars == <<log, delivered, acked>>

Matters(p) == {o \in 1..Len(log[p]) : log[p][o] # Tombstone}
UnreadOf(p) == {<<p, o>> : o \in Matters(p)}
Unread == UNION {UnreadOf(p) : p \in Partitions}

Init ==
  /\ log = [p \in Partitions |-> <<>>]
  /\ delivered = {}
  /\ acked = [p \in Partitions |-> 0]

Publish ==
  /\ DOMAIN log' = Partitions
  /\ \A p \in Partitions :
       /\ Len(log[p]) <= Len(log'[p])
       /\ \A o \in 1..Len(log[p]) : log'[p][o] = log[p][o]
  /\ UNCHANGED <<delivered, acked>>

Deliver ==
  /\ delivered \subseteq delivered'
  /\ delivered' \subseteq Unread
  /\ UNCHANGED <<log, acked>>

Acknowledge ==
  /\ DOMAIN acked' = Partitions
  /\ \A p \in Partitions :
       /\ acked'[p] \in acked[p]..Len(log[p])
       /\ \A o \in 1..acked'[p] : <<p, o>> \in Unread => <<p, o>> \in delivered
  /\ UNCHANGED <<log, delivered>>

Next == Publish \/ Deliver \/ Acknowledge

Spec == Init /\ [][Next]_vars
=============================================================================
