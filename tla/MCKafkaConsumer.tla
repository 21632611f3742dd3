--------------------------- MODULE MCKafkaConsumer ---------------------------
(* Two rows on two partitions.                                             *)
EXTENDS KafkaConsumer

CONSTANTS k1, k2, r1, p1, p2

MCDocIds == Nodes \cup Edges
MCInitRows == [k \in Keys |-> IF k = k1 THEN [key |-> k1, fk |-> r1, val |-> 1] ELSE NoRow]
MCInsertRows == {[key |-> k2, fk |-> r1, val |-> 2]}
MCPartitionOf == [k \in Keys |-> IF k = k1 THEN p1 ELSE p2]

(* Decimal strings 9, 10, 11, ...: the first LSN sorts after the others.   *)
MCLexRank == [l \in 1..MaxEvents |-> IF l = 1 THEN MaxEvents ELSE l - 1]
=============================================================================
