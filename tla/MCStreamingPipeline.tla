-------------------------- MODULE MCStreamingPipeline --------------------------
(* StreamingPipeline with a table of people, one of their cities, and loads *)
(* of every kind.                                                           *)
EXTENDS StreamingPipeline, TLC

CONSTANTS Person, City, NoTableHere, NoRefHere

MCTables == {Person, City}
MCParent == Person :> City @@ City :> NoTableHere
MCDocOrder == <<City, Person>>
MCInitialRows ==
  {[t \in MCTables |->
      IF t = City THEN {[key |-> 1, ref |-> NoRefHere], [key |-> 2, ref |-> NoRefHere]}
      ELSE {[key |-> 1, ref |-> 1]}]}
Plain == [workers |-> 1, drop |-> FALSE, skip |-> FALSE, dry |-> FALSE, graph |-> TRUE,
          only |-> MCTables, since |-> FALSE, keep |-> FALSE]
MCRunOptions ==
  {Plain,
   [Plain EXCEPT !.drop = TRUE],
   [Plain EXCEPT !.drop = TRUE, !.workers = 2],
   [Plain EXCEPT !.drop = TRUE, !.graph = FALSE],
   [Plain EXCEPT !.skip = TRUE],
   [Plain EXCEPT !.dry = TRUE, !.drop = TRUE],
   [Plain EXCEPT !.only = {Person}, !.since = TRUE, !.keep = TRUE]}
=============================================================================
